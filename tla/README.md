# A TLA+ verification of starcat-trending-api

The service crawls GitHub's trending pages for three periods (`daily`,
`weekly`, `monthly`), keeps the rows in SQLite, completes them from the GitHub
API and serves them to clients through a cache of prebuilt responses. This
directory holds TLA+ models of how its goroutines share the table, the locks
and the cache, the TLC runs that check them on small instances, and theorems
that TLAPS proves for instances of every size.

## 1. Inventory

| Part | Source | State | Operations |
|---|---|---|---|
| store | `internal/store/sqlite.go`, `migrations.go` | `trending_repos` (key `full_name, since`), `trending_languages` | `UpsertRepo`, `UpdateEnriched`, `MarkUnavailable`, `ResetAllEnriched`, `RecomputePriorities`, `UpsertLanguages`; queries |
| scheduler | `internal/scheduler/cron.go` | `running` (locks per period), `langCache`, cron entries | `syncDaily/Weekly/Monthly`, `syncLanguages`, `SyncAll`, `enrichLongTail`, `Start`, `Stop`, `GetLanguages` |
| enricher | `internal/enricher/github.go` | `inflight` (keys being enriched) | `tryAcquire`, `release`, `EnrichOne`, `EnrichAll` |
| enrich queue | `internal/enricher/queue.go` | `running`, `stopCh`, wait group, counters | `Start`, `Stop`, `worker`, `ProcessAll` |
| response cache | `internal/handler/trending_cache.go` | `items`: key -> payload, time built | `Get`, `Set`, `Invalidate`, `CacheKey`, `TTLFor` |
| repos handler | `internal/handler/repos.go` | none of its own | Get, on a miss `GetRepos` and Set |
| admin handlers | `internal/handler/admin.go` | none | `sync/repos`, `sync/languages`, `sync/users`, `enrich/force` |
| other handlers | `stats.go`, `languages.go`, `users.go`, `ping.go` | none | reads |
| service | `server/server.go`, `cmd/server/main.go` | `closeOnce` | `New`, `Close`, signal handler |
| wiki notifier | `internal/notifier/wiki.go` | none | `NotifyRepos`, fire and forget |
| spider | `internal/spider/` | none | fetch and parse pages |
| middleware, token pool, limiter | aliases of `starcat-go-kit` | external | |

How they interact:

    cold start, cron, POST /internal/sync/repos
            |  tryLock(period)
            v
       scrape --> UpsertRepo* --> RecomputePriorities --> EnrichAll --> NotifyRepos --> Invalidate --> unlock
                       |                  |                  |                            |
                       v                  v                  v                            v
    workers -------> trending_repos (one connection: a statement is atomic)         TrendingCache
    (one row at a time, for ever)         ^                                               ^
    POST /internal/enrich/force ----------+           GET /api/v1/repos: Get | GetRepos, Set

What is hard here:

- two workers, up to three syncs, `SyncAll` and forced runs enrich from the same
  table, each from its own snapshot of rows; `inflight` keeps two of them off the
  same row at the same time and nothing else does;
- upserts, enrichments and 404s of one row arrive in any order;
- `RecomputePriorities` is four statements without a transaction;
- `EnrichAll` is a loop until nothing is pending, inside the lock of its period;
- the handler reads the store and sets the cache in two steps, and a sync
  invalidates in between;
- a row takes four components to reach a client, each with its own idea of when:
  the scrape, the enricher, the invalidation and the cache;
- the one connection of the store is kept by the transaction that overwrites the
  languages, and everybody else waits for it;
- NULL and `''` in `language` are one bucket for the client and two values for SQL;
- what a page lists passes three conversions of slashes before it is a key;
- the process may die between any two steps, and statements and requests fail.

What makes each part correct: see the properties of section 4; `PROJECT.json`
lists the hazards at their lines and which property covers which.

## 2. Modules

| Module | Models | Notes |
|---|---|---|
| `TrendingStore` | statements on `trending_repos` as operators on a table value | no state; extended by the pipeline |
| `RowLifecycle` | abstract specification: the stages of one row | what the pipeline promises |
| `EnrichPipeline` | scheduler syncs, enricher, queue workers, force endpoint, crash | core module |
| `MCPipeline` + `Pipeline*.cfg` | constants for TLC | 5 runs |
| `StoreQueries` | the queries on `trending_repos` that answer clients and the operator | extends `TrendingStore`, no state |
| `ReposCache` | response cache and the handler around it, with ages and versions | |
| `MCCache` + `Cache.cfg`, `CacheStale.cfg` | constants for TLC | 2 runs |
| `TrendingService` | the pipeline, the queries, the cache and the clients composed | extends `EnrichPipeline` and `StoreQueries` |
| `MCTrending` + `EndToEnd.cfg` | constants for TLC | 1 run |
| `PageFlow` | one page from its hrefs to keys, ranks and the wiki-api | extends `TrendingStore` |
| `MCPages` + `Pages.cfg` | constants for TLC | 1 run |
| `LanguageSync` | `syncLanguages`, its transaction and the single connection | |
| `MCLanguages` + `Languages.cfg` | constants for TLC | 1 run |
| `ServiceLifecycle` | `New`, `Close`, queue and scheduler start and stop, cron registration | |
| `MCService` + `Service*.cfg` | constants for TLC | 2 runs |
| `TrendingStoreProofs` | lemmas about the statements | TLAPS |
| `EnrichPipelineProofs` | the theorems about the pipeline | TLAPS |
| `ReposCacheProofs` | the theorems about the response cache | TLAPS |
| `TrendingServiceProofs` | the theorems about the composed service | TLAPS, on those of the pipeline |
| `ServiceLifecycleProofs` | the theorems about starting and stopping | TLAPS |
| `LanguageSyncProofs` | the theorems about the transaction and its connection | TLAPS |
| `PageFlowProofs` | the theorems about pages, ranks and notifications | TLAPS, on the lemmas about statements |
| `StoreQueriesProofs` | the theorems about the queries | TLAPS, on those of the pipeline and the service |

### TrendingStore

A table maps every key `<<full_name, since>>` to a row or to `NoRow`. A row keeps
four columns: whether `enriched_at` is set, `is_available`, `enrich_priority` and
`language`. NULL and `''` are two values, `NoLang` and `Empty`, as in SQL: the
program itself stores NULL, earlier versions stored `''` (CHANGELOG, "spider 空 language
写 NULL"), and the statements treat them differently. `UpsertRepo` has
`COALESCE(NULLIF(?, ''), language)`, `UpdateEnriched` has `COALESCE(?, language)`, for
which `''` is a language (`Coalesce`, `NullIf`). The other columns are written
and displayed but decide nothing. `captured_at` only orders rows within a priority
in `RecomputePriorities`; `EnrichPipeline` lets that choice be any, which includes
the one the code makes, and `PageFlow` makes it. Each operator is one SQL statement; the store has one
connection (`SetMaxOpenConns(1)`), so a statement is atomic and nothing larger is.
The second statement of `UpsertRepo` only writes `captured_at` and is folded in.

### EnrichPipeline

| Variable | Code |
|---|---|
| `rows` | table `trending_repos` |
| `inflight` | `Enricher.inflight` |
| `running` | `Scheduler.running` (the keys that are true) |
| `pc`, `todo`, `page`, `batch`, `cur`, `answer` | program counter and locals of each goroutine |
| `crashes` | bookkeeping for the bound `MaxCrashes` |

Processes are the `Workers` of the queue and `Tasks`, slots for the goroutines
that the cold start, `SyncAll`, a cron tick or `enrich/force` start. A task has a
plan, a sequence of jobs; a job is the sync of a period or a bare `EnrichAll`.
The actions follow the code statement by statement:

- `BeginSync`/`SkipSync`: `tryLock` and the scrape, which shares no state with
  others, so lock and scrape are one step. Its result is any of `Pages`; a failed
  scrape is the empty page, as in the code, which goes on with no items. Items
  that `scrapeAndPersist` skips as malformed are not on the page.
- `Upsert`, `EndUpserts`: the loop over items; a failed upsert skips the item.
- `RecomputeZero/Top/Next/Rest`: the four statements. An error of the first is
  ignored, one of the second or third leaves the rest out, as in the code.
- `Fetch`, `EndSweep`, `Take`, `Reply`, `Fail`, `Write`, `Release`, `EndBatch`:
  `EnrichAll` and `worker`, which share `EnrichOne`. A worker asks for one row and,
  when there is none or an error, sleeps and asks again (no step); `EnrichAll`
  asks for `BatchSize` rows and returns in both cases. What `Take` sees of a row
  is the snapshot `Fetch` made; `Write` addresses the row as it is then.
- `Invalidate`, `Unlock`: the end of the sync. `NotifyRepos` starts goroutines
  that share nothing with the service and has no step here; it is in `PageFlow`.
- `ForceEnrich`: the reset and the launch of `EnrichAll`. The handler starts the
  goroutine right after the reset; the goroutine's first step comes whenever it
  comes.
- `Crash`: the process dies at any point and is started again. The table
  survives; workers run, and the cold start is a `Launch`.

The database may be new or left by an earlier version: `OldTables` is what `rows`
may be at first.

GitHub is an input: `Answers[r]` is the set of what it may say of repo `r` (a
language, none, 404, any other error). Retries, the token pool and the rate
limiter are inside the external client, within one request.

### ReposCache

`version[s]` counts changes of what clients would see of period `s`; a payload is
the query it answers and the version it was read from. `items` is
`TrendingCache.items`. Time is `Tick`; entries carry their age since `Set`
(`builtAt`) and the time since the store was read (`lag`). `Ask`, `Hit`, `Miss`,
`Read`, `ReadFails`, `Set`, `Respond` are the handler; `Change` and `Invalidate`
are the rest of the program, in any order. `due`, `firm` and `owed` are history
variables that the properties read and no guard does. A request answered 400
touches no state and is left out; `If-None-Match` and 304 stand for the payload
with the same hash.

### StoreQueries

One operator per query: `GetRepos`, `CountReposBySince`, `GetAggregatedLanguages`
and `GetOperationalStats`, as the sets of rows or the records they return. The
conditions on `language` and the key of the sidebar treat NULL and `''` as the
SQL does. `GetRepos` allows every choice of rows that respects the
priorities; order within the answer is left out, like that of the sidebar
(`store.go` says that the uncategorized bucket comes last, the query puts it
first, and the tests expect that).

### TrendingService

`EnrichPipeline` unchanged, plus `cache` (the payload under each key), the handlers
(`serving`, `query`, `view`) and two history variables. A key is what `CacheKey`
makes of a request, so a request without `lang` and one with `lang=*`, which the
handler does not reject, share an entry. A payload is an envelope: it names the period
and the language it was built for (`Meta` of the code) and has the rows.
`SyncInvalidate` is `Invalidate` of the pipeline with its effect on the cache;
`ServiceCrash` empties the cache too. Ages are abstracted: `Expire` may come at any
time and, by fairness, comes; `ReposCache` is the module that counts. `Hit` and
`Miss` contain the arrival of the request, since nothing shared is touched
before `Get`.

### PageFlow

| Variable | Code |
|---|---|
| `rows`, `age` | the table, and `captured_at` as the number of syncs since |
| `pc`, `items`, `repos` | `scrapeAndPersist` and the statements after it |
| `unsent`, `sent` | `batchNotify` of each notifier goroutine |
| `page`, `failed`, `due` | history, for the properties only |

A path is the sequence of what lies between its slashes, so `TrimPrefix`, `SplitN`
and `Trim` are modelled by what they do and every malformed path is a value of
its own. `RecomputePriorities` picks by `captured_at DESC` here; equal times leave
the choice open. `Settle` is the enricher, at any time. A failed batch and a sent
one are the same step: the error is logged and the loop goes on. `NewWikiNotifier`
returning nil is left out: then nothing is told.

Two assumptions are about what comes in. `NamesAssumption` only says that `Repos` has
every name that passes the checks of the scheduler. `TidyPages` is what the code
leaves to GitHub: a path that passes them has an owner and a name and no third
part, and no page names a repo twice. Nothing in the code removes a duplicate (it
would be stored once and told twice) or a third part. `TidyPages` is a hypothesis of
the theorem that needs it; `MCPages` has TLC evaluate it for the pages of the run.

### LanguageSync

`conn` is the single connection: `UpsertLanguages` holds it from `Begin` to
`Commit` or to the deferred `Rollback`, statement by statement, and `draft` is what
the open transaction sees. `Others` are goroutines with any other statement. A
failed scrape is the empty menu and is stored like any other; a page that lists a
key twice violates the primary key. `cached` is `langCache.languages`, which is set
whatever the store answered.

### ServiceLifecycle

| Variable | Code |
|---|---|
| `boot` | the statement `New` is at, its error paths included; `"serving"` or `"failed"` |
| `store`, `metrics` | the two databases |
| `queueOn`, `stopped` | `EnrichQueue.running`, `stopCh` closed |
| `worker` | where each worker is |
| `entries`, `cronOn` | what cron knows, whether its loop runs |
| `starter`, `tasks` | the goroutine of `go sch.Start()`; the jobs that run, by who started them |
| `overdue` | jobs whose time has come and that have not run since; read by a property only |
| `once`, `closer` | `closeOnce`; where each caller of `Close` is |

`New` is modelled statement by statement with its failures, then `Close` with
`closeOnce.Do` (the second caller waits), `scheduler.Stop` (end the cron loop, wait
for the jobs cron has started, not for the cold start), `EnrichQueue.Stop` (close
`stopCh`, wait) and the two databases. What a job or a worker does with rows is
left to `EnrichPipeline`. The cron library is external: `AddFunc` accepts a spec
if it has as many fields as the parser of `cron.WithSeconds()` wants, which is six;
all five specs have five and the code drops the error. Two goroutines that cron
starts for the same job are one element of `tasks`; the wait treats them alike.
The binary exits when its signal handler returns from `Close`; an embedding
gateway does not, so the model goes on. The HTTP server is not stopped by `Close`;
requests that come later find a closed store and answer 500. The goroutine that
`New` starts for the scheduler is not waited for: a `Close` that comes first stops a
cron that does not run yet, and the model, like the code, starts it afterwards.

## 3. Runs and bounds

| Run | Instance | What it shows |
|---|---|---|
| `pipeline_safety` | 2 repos, 1 period, 1 worker, 1 task; a new database or one with a `''`, any page, any answer, faults, force; 1 241 000 states | `TypeOK`, `OneHolderPerKey`, `QueriesAgree`, `LanguageNeverErased`, `ImplementsLifecycle` |
| `pipeline_liveness` | 2 repos, 1 worker, 2 tasks, 1 crash, fair; 84 000 states | `PendingIsServed`, `SyncEnds` |
| `pipeline_poison` | 1 repo on which GitHub always fails, fair | `SyncEnds` is violated |
| `pipeline_twice` | 2 repos, 1 worker, 1 task | `NeverEnrichedTwice` is violated |
| `pipeline_force` | 2 repos, 1 worker, 1 task, force | `RowsStayVisible` is violated |
| `end_to_end` | 1 repo that GitHub may lose, 1 period, 1 worker, 2 tasks, 1 handler, requests with no filter, a language and `*`, 1 crash, fair; 646 000 states | `ServiceTypeOK`, `OneSyncPerPeriod`, `SettledWhenInvalidated`, `OnlyStarIsMistaken`, `SyncedRowsAreShown`, `RowsReachClients` |
| `cache` | 2 handlers, 2 periods, time to live 0 and 1 ticks, faults, fair; 1 100 000 states | `TypeOK`, `LagIsBounded`, `FreshAfterQuietInvalidate`, `StaleEntriesExpire` |
| `cache_stale` | 2 handlers, 1 period | `FreshAfterInvalidate` is violated |
| `page_flow` | pages of 3 repos, hrefs of 7 shapes, batches of 2, faults, fair; 515 000 states | `TypeOK`, `PageFirst`, `ToldOnce`, `NoticesEnd` |
| `languages` | 2 syncs, 1 other user of the connection, 4 menus, faults, 1 crash, fair; 24 000 states | `TypeOK`, `MenuIsWhole`, `SyncsEnd` |
| `service_safety` | 2 workers, 2 callers of `Close`, any failure of `New`, fair | `TypeOK`, `StoreOutlivesWorkers`, `FailedNewLeavesNothing`, `CloseMeansClosed`, `CloseReturns` |
| `service_cron` | specs with five fields, a parser that wants six, fair | `JobsRunWhenDue` is violated |

Why these bounds are enough to be interesting:

- Every race of the enricher is between two processes about one key; a second
  key makes batches, ties of priority and the limits of `RecomputePriorities`
  (`TopLimit = NextLimit = 1`, where the code has 30 and 70) matter. `BatchSize`
  is 1 or 2 instead of 30: a batch of two is a snapshot that others outrun, a
  batch of one forces `EnrichAll` to loop.
- In `pipeline_liveness` and `end_to_end` two tasks start the same sync, so one finds
  the lock taken, and the worker and the sync work on the same row; the second period and `SyncAll`
  are left to the theorems on the pipeline, which hold for any number of both.
  One handler can leave an entry that its own next request finds, so that three
  requests under two keys meet each other's entries; handlers at the
  same time are in `cache`, and any number of them and of periods in the theorems.
- `pipeline_safety` starts on a new database or on one with a visible row whose
  language is `''`; the other runs start on a new one, where the only blank is NULL.
- `MaxCrashes = 1`: after a crash only the table differs from the start, and it
  is an arbitrary reachable one. The proofs have no such bound.
- In `cache`, two handlers are the reader that an invalidation overtakes and the client that
  sees the result. `MaxVersion` bounds the changes of a period; `MaxSpan` is the
  longest time, in ticks, that a handler takes from `GetRepos` to `Set`. It is an
  assumption of `LagIsBounded`: the server has no time-out
  (`http.ListenAndServe`), but the step is a marshal and a map write. Ages beyond
  `Horizon` are merged, because every entry has expired by then.
- `page_flow` has `TopLimit = NextLimit = 1` for three repos, so each of the ranks
  100, 50, 10 and the cut between them occurs, `BatchSize = 2`, so that the last
  batch is short, and one page of malformed paths only but for one. Ages are new
  and old (`MaxAge = 1`): `PageFirst` tells no more apart. One notifier goroutine at
  a time is told of, while the next sync goes on: goroutines of the notifier share
  nothing. A page names each repo once, as GitHub's do
  (`TidyPages`).
- `languages` has two syncs that wait for each other and a third user of the
  connection. A menu of two is the smallest that can be half written.
- The service runs have three jobs, one started both by the cold start and by
  cron, one only by each; the other jobs of the code are like one of these. Two
  callers of `Close` are the one that runs it and the one that waits. The specs are
  refused in both runs, as they are in the code, so no job is ever registered and
  `Close` has no job of cron to wait for; the theorems hold for specs of any length.

The passing runs of the pipeline and the cache check deadlock: some process can
always step. Those of the service do not: a failed `New` and a closed service
really stop.

## 4. Properties

- `OneHolderPerKey`: at most one goroutine works on a key, and `inflight` is
  exactly the set of keys being worked on, on every path through `EnrichOne`.
- `OneSyncPerPeriod`: the same for `running` and the syncs.
- `LanguageNeverErased`: no interleaving of crawls and enrichments loses a language
  that a row has by name (the regression described at `UpsertRepo`), with one
  exception that the code has: a row of an old database has `''`, the enricher fetches
  it, a crawl stores a name, GitHub names none, and `UpdateEnriched` writes the `''` of
  the snapshot over the name, because its `COALESCE` has no `NULLIF`. The property
  allows a `Write` of `''` and nothing else; without blanks nothing is lost
  (`LanguageNeverErasedWithoutBlanks`). No comment speaks of this case.
- `ImplementsLifecycle`: the pipeline refines `RowLifecycle` under the mapping
  `LifeOf`. A repo that is gone never comes back, although crawls list it again
  and others write it from older snapshots; a visible row is hidden by the force
  endpoint, all rows at once, or by a 404 and by nothing else.
- `SettledWhenInvalidated`: at `Invalidate`, no row of the period is pending. This
  is what makes the order of a sync right. It needs `StoreFaults` and
  `AllowForce` off: a failing `GetUnenrichedRepos` ends `EnrichAll` early, and a
  reset makes rows pending at any time.
- `PendingIsServed`, `SyncEnds`: liveness, under a GitHub that answers. A row that
  fails for ever starves the others at the workers; no property says that it must not.
- `QueriesAgree`: on every table the pipeline makes, rows with NULL and with `''` among
  them, the sidebar's counts are the lengths of the lists, no language has an empty
  list, the lists make up the unfiltered one, whose length is in the statistics,
  and stored rows are visible, pending or unavailable.
- `OnlyStarIsMistaken`: a request is given an answer for its period and its language,
  except that no filter and `lang=*` are given each other's. A comment of
  `trending_cache.go` (line 16) says that the `*` in the key avoids an ambiguity; it
  makes this one, since `repos.go` passes any `lang` on. `lang=*` reads the rows whose
  language is `*`, that is none, and if it is the first to ask after a sync or an
  expiry, requests without filter get its empty list until the TTL passes or the next
  sync ends. The code behaves so, and the two properties that follow say what remains.
- `SyncedRowsAreShown`: what a sync is for, end to end. Every answer that was built
  without a filter and is given to a request that comes in after a sync has the rows
  the sync left, and none that was gone. If nobody asks for `lang=*`, these are the
  answers to all requests without filter (`UnfilteredRequestsAreShown`); if somebody
  does, such a request may get the empty list instead. It needs the enrichment to precede the invalidation, the lock, the query
  and the cache; like `FreshAfterQuietInvalidate` it leaves out invalidations that a
  reader straddled, and it holds without faults and force.
- `RowsReachClients`: whatever is scraped is in the end in every answer built without
  filter for good, or dropped, also after a crash and with readers that undo an
  invalidation. The payloads of `lang=*` are left out here as well.
- `PageFirst`: after `RecomputePriorities` nothing that an earlier page left comes
  before what the new page brought, whatever the enricher completes in between.
- `ToldOnce`, `NoticesEnd`: the wiki-api is told of exactly the repos of the page
  that were stored, each once, in batches that are neither empty nor too long, and
  every notification ends.
- `MenuIsWhole`, `SyncsEnd`: the table of languages is always one whole menu, and no
  path through the transaction keeps the connection.
- `LagIsBounded`, `FreshAfterQuietInvalidate`, `StaleEntriesExpire`: how old an
  answer may be, in time, against the last sync, and in the long run.

- `StoreOutlivesWorkers`, `FailedNewLeavesNothing`, `CloseMeansClosed`,
  `CloseReturns`: no worker ever finds the store closed under it, a failed `New`
  leaves no database open and no goroutine, every `Close` that returns returns to
  a closed service, and every `Close` returns.

Five statements of comments that the code does not keep are checked to be
violated, and are the findings of `PROJECT.json`: `SyncEnds` with a repo that
always fails, `NeverEnrichedTwice`, `RowsStayVisible`, `FreshAfterInvalidate`,
`JobsRunWhenDue`.
`FreshAfterQuietInvalidate` is what remains of `FreshAfterInvalidate`: it holds when no
handler is between its read and its `Set` at the invalidation.

Fairness: weak fairness of every process (`Enrich`, `Sync`) and handler. The Go
scheduler runs every runnable goroutine; a request to GitHub ends within the 30 s
time-out of the client; a worker's sleep ends after 10 or 30 s. No fairness on
launches, force, crashes, requests, store changes, invalidations, scrapes of the
menu or calls of `Close`. An entry reaches its TTL (`Expire`, `Tick`), unless it goes
before. `Begin` of `LanguageSync` has strong fairness: `database/sql` hands a
connection that is given back to one of those who wait, in the order in which they
came, so a sync that finds it taken again and again gets it. A request to the
wiki-api ends within the 10 s of its client. In `ServiceLifecycle` a job is also assumed to end, which is what `SyncEnds`
shows of it for a GitHub that answers, and the time of every job to come again. Weak fairness
of the whole process is enough: its enabled steps stay enabled until it takes one.

## 5. Proofs

`EnrichPipelineProofs` proves, for all finite or infinite sets of repos, periods,
workers and tasks, all limits, with faults, force and any `MaxCrashes`:

| Theorem | Statement |
|---|---|
| `Typing` | `Spec => []TypeOK` |
| `HolderExclusion` | `Spec => []OneHolderPerKey` |
| `SyncExclusion` | `Spec => []OneSyncPerPeriod` |
| `LanguageSafe` | `Spec => LanguageNeverErased` |
| `LanguageNeverErasedWithoutBlanks` | if neither an old row nor an answer of GitHub is `''`, no step erases a name |
| `Refinement` | `Spec => ImplementsLifecycle` |
| `SyncSettles` | without faults and force, `Spec => []SettledWhenInvalidated` |

`ServiceLifecycleProofs` proves, for any numbers of workers, callers and jobs and
whatever specs the parser accepts:

| Theorem | Statement |
|---|---|
| `ServiceTyping` | `Spec => []TypeOK` |
| `StoreClosedLast` | `Spec => []StoreOutlivesWorkers` |
| `FailedNewIsClean` | `Spec => []FailedNewLeavesNothing` |
| `CloseIsDone` | `Spec => []CloseMeansClosed` |

`ReposCacheProofs` proves, for any numbers of handlers, periods and requests and
whatever the TTLs are, as long as one of them is the longest (`MaxTTL`):

| Theorem | Statement |
|---|---|
| `CacheTyping` | `Spec => []TypeOK` |
| `LagBounded` | `Spec => []LagIsBounded` |
| `QuietInvalidateHolds` | `Spec => []FreshAfterQuietInvalidate` |

`TrendingServiceProofs` proves of the composition, for whatever requests are made,
`lang=*` included:

| Theorem | Statement |
|---|---|
| `ServiceRunsPipeline` | `ServiceSpec => Spec`, `Spec` of `EnrichPipeline` |
| `ServiceSyncExclusion` | `ServiceSpec => []OneSyncPerPeriod` |
| `ServiceSyncSettles` | without faults and force, `ServiceSpec => []SettledWhenInvalidated` |
| `EndToEndTyping` | `ServiceSpec => []ServiceTypeOK` |
| `AnswersOnlyMistakeStar` | `ServiceSpec => []OnlyStarIsMistaken` |
| `SyncedRowsReachClients` | for finite `Repos` and `Sinces`, without faults and force, `ServiceSpec => []SyncedRowsAreShown` |
| `UnfilteredRequestsAreShown` | if besides nobody asks for `lang=*`, every request without filter that comes in after a sync is shown what the sync left |

`PageFlowProofs` proves, for pages and batches of any length, any limits, any
statements that fail, any number of notifier goroutines and an enricher at any time:

| Theorem | Statement |
|---|---|
| `PageTyping` | `Spec => []TypeOK` |
| `NewestFirst` | if the first statement does not fail, `Spec => []PageFirst` |
| `EachToldOnce` | under `TidyPages`, `Spec => []ToldOnce` |
| `RanksArePromotions` | every ranking by `captured_at` is a choice that `EnrichPipeline` has |

`LanguageSyncProofs` proves, for any numbers of syncs and other users of the
connection, any menus, with faults and any `MaxCrashes`:

| Theorem | Statement |
|---|---|
| `LanguageTyping` | `Spec => []TypeOK`, which says who holds the connection |
| `TableIsWhole` | `Spec => []MenuIsWhole` |

`StoreQueriesProofs` proves, for finite `Repos` and `Sinces` (the queries count):

| Theorem | Statement |
|---|---|
| `QueriesConsistent` | `Spec => []QueriesAgree`, `Spec` of `EnrichPipeline` |
| `ServiceQueriesConsistent` | `ServiceSpec => []QueriesAgree` |

Assumptions: `StoreAssumption` and `PipelineAssumption`, which say that the
special values are different from the others and that the constants have their
types (TLC evaluates both in every pipeline run); the assumptions of the other modules
say the same of theirs, and `MaxSpan` of `ReposCache` bounds the time of a request.

The argument. `TypeInv` is `TypeOK` strengthened with `LabelsOK`: where workers
and tasks may be, that a task outside `"jobs"` has a current job, and that a
process has a snapshot in `cur` exactly between `tryAcquire` and `release`.
Without the last part the write could address no row. `TypeInv` is inductive;
`OneHolderPerKey` and `OneSyncPerPeriod` are inductive relative to it, thanks to
their second conjuncts, which say what the map holds. `TableSteps` says what a step can do
to the table (priorities only, one of three single-row writes, or the reset); the
language and the life-cycle theorems follow from it and the lemmas of
`TrendingStoreProofs`. `TableSteps` also says whose snapshot a write comes from, which
`LanguageSafe` needs to name the one write that may erase a name; `NoBlanks`, that no
row, page, snapshot or answer is `''`, is inductive and rules it out. `SettledWhenInvalidated` is inductive relative to
`OneSyncPerPeriod`: only an upsert makes a row pending, only the sync of the
row's period upserts it, and that is the task at `Invalidate` itself
(`BecomingPending`), which got there by finding nothing pending
(`ReachingInvalidate`).

The service theorems have one inductive invariant, `IInv`. None of its other
properties is inductive alone: `StoreOutlivesWorkers` needs to know that whoever is
about to close the store has waited for the workers (`CloseOK` for `Close`,
`BootOK` for the error paths), that no worker is started again because the queue
starts only inside `New`, and that nobody calls `Close` before `New` returns.

For the cache, `LagOK` says that an entry shows the store as it was at most
`MaxSpan` before its own age, since `Set` stamps it at most that long after the
read; `FirmOK` says that what is cached or about to be is at least as new as the
last quiet invalidation of its period: an invalidation drops the entries of its
period, and counts only if no reader has an older payload in hand.

For the composition, a step of the service is a step of the pipeline or leaves it
alone, which transfers the pipeline's theorems. `AnswersOK` says that a payload lies under
the key of the request it was built for and that a handler holds one for the key of its
own; requests with the same key differ by the `*` only (`SameKey`). `ShownOK` then has three parts. What a
quiet invalidation found stands as a promise (`Promise`): by `SyncSettles` its
available rows are enriched, and without force rows only grow old (`RowsAge`), so
they stay visible until GitHub loses them, and lost ones stay lost. Cached payloads
without filter and those between read and `Set` show the promise of the period in their
key (`ShowsHoldings`), because a later promise is made only together with dropping the entries and with no
payload in between. And a payload about to be answered shows what was owed when
the request came in. That a read shows a promise is a fact about `GetRepos`:
it returns all the listed rows if they fit (`ReadCovers`); here the sets are finite.

For the page, `TypeOK` needs `PageDone`: nothing is left of the page once the
upserts are over. `PageFirst` follows from `RankOK`, which says after each of the four
statements how far the ranking has come: after the first every row that waits has 0,
after the second 0 or 100, and from then on no row of the new page is below one of an
earlier page. `LatestTakesFresh` is the reason: no choice by `captured_at` takes an older
row and leaves a new one. If the first statement failed, nothing could be said, since
its error is dropped and the old ranks would stay; the theorem has that hypothesis.
`SettleRows` says that the enricher only takes rows out of those that wait.

`ToldOnce` follows from two accounts. `PassedOK`: what is stored and what has failed are
together the names on the part of the page that is passed, without overlap, each
once. `DeliveredOK`, for each goroutine: what the batches contain and what is still to
be sent make up what was due, without overlap, each name at one place
(`SendDelivers`). Where they meet (`ToldIsFound`), `NotifyRepos` changes no name, because
a path with two parts has nothing to trim. That counting positions of a finite set of
numbers reaches every one of them (`NthPosition`) is shown with the least-element
principle, as are the other facts on positions. `RankOK`, `PassedOK` and `DeliveredOK`
were found to hold by TLC on the instance of `page_flow` before they were proved.

For the languages, `WholeOK` says that during the inserts of a sync the open
transaction has exactly the part of its menu that is gone from `left`, and that this part
has no doubles (`Inserted`); only one goroutine is there, because it holds the
connection, which `TypeOK` says of every place in the code.

The queries agree on every well-formed table (`AgreeOnTable`), whoever made it: the row
that has a key in the sidebar is the one that the lists of that key have (`KeyOfRow`),
and the rest is counting of disjoint finite sets.

Only model-checked: the liveness properties (`PendingIsServed`, `SyncEnds`,
`RowsReachClients`, `StaleEntriesExpire`, `CloseReturns`, `SyncsEnd`, `NoticesEnd`), since
fairness and ENABLED are out of the prover's reach. Every invariant and every action
property of a passing run is a theorem.

## 6. Not modelled, and the plan

Not modelled: HTML parsing apart from the hrefs, HTTP, authentication, the external
kit (token pool, retry, limiter, metrics), formatting of cards, log lines, counters.
`cleanupStale` only logs. `GET /api/v1/users` scrapes on demand and keeps nothing.
`Scheduler.GetLanguages` and `store.GetLanguages` have no caller.

Known and left without a property, each with its reason in `PROJECT.json`: a row on
which GitHub always fails keeps the workers from the others; `captured_at DESC` ranks the end
of a page before its beginning, where the comment speaks of the position in the
list; a failed scrape of the menu empties the table of languages; `langCache` and
that table may differ, and nobody reads either.

Planned: an abstract cache without ages that both `ReposCache` and `TrendingService`
implement; and, for the liveness properties, the invariants that say of each goroutine
that waits what it waits for.
