--------------------------- MODULE TrendingService ---------------------------
(***************************************************************************)
(* The pipeline that fills trending_repos composed with the clients that   *)
(* read it: GET /api/v1/repos (internal/handler/repos.go) through the      *)
(* response cache, which a sync invalidates in its last step, and the      *)
(* queries behind the sidebar and /internal/stats.                         *)
(*                                                                         *)
(* The steps of EnrichPipeline are unchanged; only its Invalidate and its  *)
(* Crash also touch the cache.  Ages are left to ReposCache: here an entry *)
(* may expire at any time, and fairness says that in the end it does.      *)
(***************************************************************************)
EXTENDS EnrichPipeline, StoreQueries

CONSTANTS
  Handlers,   \* request goroutines
  Queries,    \* the requests made: records with fields since and lang, any string
  ListLimit,  \* the limit parameter of all of them, 100 in the code
  Star,       \* the string "*"
  NoView,     \* no entry under a key; no payload
  NoQuery     \* query[h] when handler h serves no request

ASSUME ServiceAssumption ==
  /\ \A q \in Queries : q.since \in Sinces /\ q.lang # NoLang
  /\ ListLimit \in Nat \ {0}
  /\ Star # Empty
  /\ NoView \notin [query : Queries, rows : SUBSET Keys]
  /\ NoQuery \notin Queries

\* The key leaves out lang.
KeyWithoutLang(q) == <<q.since, Star>>

\* The string since|lang|limit without the limit, which is the same for all.  A
\* request without filter has the lang "*" in its key; lang=* is not rejected.
CacheKey(q) == <<q.since, IF q.lang = Empty THEN Star ELSE q.lang>>

CacheKeys   == {CacheKey(q) : q \in Queries}
KeySince(c) == c[1]

\* The envelope names the period and the language it was built for.
Payload == [query : Queries, rows : SUBSET Keys]

VARIABLES
  cache,   \* TrendingCache.items: the payload under each key, or NoView
  serving, \* where each handler is
  query,   \* the request it serves
  view,    \* the payload it has, or NoView
  \* The last two only serve to state properties.
  synced,  \* what the table held of a period at its last quiet invalidation
  owed     \* synced of its period when the request came in

clientVars  == <<cache, serving, query, view, synced, owed>>
serviceVars == <<vars, clientVars>>

\* The periods that are asked for.
Asked == {q.since : q \in Queries}

\* The rows of a period that clients get once enriched, and those they never get.
Holdings == [kept : SUBSET Keys, lost : SUBSET Keys]
Nothing  == [kept |-> {}, lost |-> {}]

ServiceTypeOK ==
  /\ TypeOK
  /\ cache \in [CacheKeys -> Payload \cup {NoView}]
  /\ serving \in [Handlers -> {"idle", "read", "set", "respond"}]
  /\ query \in [Handlers -> Queries \cup {NoQuery}]
  /\ view \in [Handlers -> Payload \cup {NoView}]
  /\ \A h \in Handlers : query[h] = NoQuery <=> serving[h] = "idle"
  /\ \A h \in Handlers : view[h] = NoView <=> serving[h] \notin {"set", "respond"}
  /\ synced \in [Asked -> Holdings]
  /\ owed \in [Handlers -> Holdings]

ServiceInit ==
  /\ Init
  /\ cache = [c \in CacheKeys |-> NoView]
  /\ serving = [h \in Handlers |-> "idle"]
  /\ query = [h \in Handlers |-> NoQuery]
  /\ view = [h \in Handlers |-> NoView]
  /\ synced = [s \in Asked |-> Nothing]
  /\ owed = [h \in Handlers |-> Nothing]

Serve(h, label) == serving' = [serving EXCEPT ![h] = label]

----------------------------------------------------------------------------
(***************************************************************************)
(* The request handler, as in ReposCache but over the rows themselves.     *)
(***************************************************************************)
\* A request comes in; until its Get the handler touches nothing that is shared.
Ask(h, q) ==
  /\ serving[h] = "idle"
  /\ query' = [query EXCEPT ![h] = q]
  /\ owed' = [owed EXCEPT ![h] = synced[q.since]]
  /\ UNCHANGED <<vars, cache, synced>>

Hit(h, q) ==
  /\ Ask(h, q)
  /\ cache[CacheKey(q)] # NoView
  /\ view' = [view EXCEPT ![h] = cache[CacheKey(q)]]
  /\ Serve(h, "respond")

\* The handler does not look at what Get reports and writes out what it got.
MissUnseen(h, q) ==
  /\ Ask(h, q)
  /\ cache[CacheKey(q)] = NoView
  /\ Serve(h, "respond")
  /\ UNCHANGED view

Miss(h, q) ==
  /\ Ask(h, q)
  /\ cache[CacheKey(q)] = NoView
  /\ Serve(h, "read")
  /\ UNCHANGED view

\* GetRepos.  Its failure, a 500 that leaves all else alone, is in ReposCache.
Read(h) ==
  /\ serving[h] = "read"
  /\ \E B \in GetRepos(rows, query[h].since, query[h].lang, ListLimit) :
       view' = [view EXCEPT ![h] = [query |-> query[h], rows |-> B]]
  /\ Serve(h, "set")
  /\ UNCHANGED <<vars, cache, query, synced, owed>>

Set(h) ==
  /\ serving[h] = "set"
  /\ cache' = [cache EXCEPT ![CacheKey(query[h])] = view[h]]
  /\ Serve(h, "respond")
  /\ UNCHANGED <<vars, query, view, synced, owed>>

Respond(h) ==
  /\ serving[h] = "respond"
  /\ query' = [query EXCEPT ![h] = NoQuery]
  /\ view' = [view EXCEPT ![h] = NoView]
  /\ owed' = [owed EXCEPT ![h] = Nothing]
  /\ Serve(h, "idle")
  /\ UNCHANGED <<vars, cache, synced>>

\* Get does not compare with TTLFor.
NeverExpire(c) == FALSE

\* The TTL of an entry has passed: from now on Get does not find it.
Expire(c) ==
  /\ cache[c] # NoView
  /\ cache' = [cache EXCEPT ![c] = NoView]
  /\ UNCHANGED <<vars, serving, query, view, synced, owed>>

----------------------------------------------------------------------------
(***************************************************************************)
(* The two steps of the pipeline that clients notice.                      *)
(***************************************************************************)

\* A handler has read the period and not yet put the payload into the cache.
Straddled(s) == \E h \in Handlers : serving[h] = "set" /\ query[h].since = s

HoldingsOf(s) ==
  [kept |-> {k \in InSince(rows, s) : rows[k].available},
   lost |-> {k \in InSince(rows, s) : ~ rows[k].available}]

\* Invalidate compares whole keys with the period, so that none ever matches.
DropNothing(s) == cache

\* Every key with the prefix of the period goes.
Dropped(s) == [c \in CacheKeys |-> IF KeySince(c) = s THEN NoView ELSE cache[c]]

SyncInvalidate(g) ==
  /\ Invalidate(g)
  /\ LET s == Head(todo[g])
     IN  /\ cache' = Dropped(s)
         /\ synced' = IF Straddled(s) \/ s \notin Asked
                        THEN synced ELSE [synced EXCEPT ![s] = HoldingsOf(s)]
  /\ UNCHANGED <<serving, query, view, owed>>

ServiceCrash ==
  /\ Crash
  /\ cache' = [c \in CacheKeys |-> NoView]
  /\ serving' = [h \in Handlers |-> "idle"]
  /\ query' = [h \in Handlers |-> NoQuery]
  /\ view' = [h \in Handlers |-> NoView]
  /\ owed' = [h \in Handlers |-> Nothing]
  /\ UNCHANGED synced

----------------------------------------------------------------------------
SyncStep(g) ==
  \/ /\ Sync(g) /\ ~ At(g, "invalidate")
     /\ UNCHANGED clientVars
  \/ SyncInvalidate(g)

EnrichStep(p) == Enrich(p) /\ UNCHANGED clientVars

Trigger(g) ==
  /\ Launch(g) \/ ForceEnrich(g)
  /\ UNCHANGED clientVars

Handle(h) == Read(h) \/ Set(h) \/ Respond(h)

ServiceNext ==
  \/ \E p \in Processes : EnrichStep(p)
  \/ \E g \in Tasks : SyncStep(g) \/ Trigger(g)
  \/ \E h \in Handlers : Handle(h) \/ \E q \in Queries : Hit(h, q) \/ Miss(h, q)
  \/ \E c \in CacheKeys : Expire(c)
  \/ ServiceCrash

ServiceSpec == ServiceInit /\ [][ServiceNext]_serviceVars

(***************************************************************************)
(* As in EnrichPipeline and ReposCache: whoever can step does, and every   *)
(* entry reaches its TTL unless it goes before.                            *)
(***************************************************************************)
ServiceFairness ==
  /\ \A p \in Processes : WF_serviceVars(EnrichStep(p))
  /\ \A g \in Tasks : WF_serviceVars(SyncStep(g))
  /\ \A h \in Handlers : WF_serviceVars(Handle(h))
  /\ \A c \in CacheKeys : WF_serviceVars(Expire(c))

ServiceFairSpec == ServiceSpec /\ ServiceFairness

----------------------------------------------------------------------------
(***************************************************************************)
(* Properties                                                              *)
(***************************************************************************)

(* However hits, misses, late Sets and invalidations follow each other, an *)
(* answer is for the period that was asked for, and for its language, but  *)
(* for one pair that the code mistakes for each other although a comment   *)
(* of trending_cache.go says that the "*" of the key avoids an ambiguity:  *)
(* no filter and lang=*.                                                   *)
OnlyStarIsMistaken ==
  \A h \in Handlers :
    serving[h] = "respond" =>
      /\ view[h].query.since = query[h].since
      /\ \/ view[h].query.lang = query[h].lang
         \/ {view[h].query.lang, query[h].lang} = {Empty, Star}

\* The payload V shows what H holds: every row that was kept, unless GitHub has
\* lost the repo since or the list is full, and none that was lost by then.
ShowsHoldings(V, H) ==
  /\ Cardinality(V.rows) >= ListLimit
       \/ \A k \in H.kept : k \in V.rows \/ ~ Available(rows, k)
  /\ V.rows \cap H.lost = {}

(* What a finished sync is for: a request that comes in after it and is    *)
(* answered with an unfiltered payload is shown what the sync left.  It    *)
(* takes the enrichment before the invalidation, the locks, the query and  *)
(* the cache together.  As FreshAfterQuietInvalidate, it leaves out syncs  *)
(* that a reader straddled; it holds when no statement fails and nobody    *)
(* forces a new enrichment.  By OnlyStarIsMistaken every request without   *)
(* filter gets such a payload if nobody asks for lang=*; if somebody does, *)
(* it may get the empty one instead, until the entry expires or a sync     *)
(* drops it.                                                               *)
SyncedRowsAreShown ==
  \A h \in Handlers :
    serving[h] = "respond" /\ view[h].query.lang = Empty => ShowsHoldings(view[h], owed[h])

(* A row that a scrape has found reaches the clients or is dropped: in the *)
(* end it stays enriched, and no unfiltered payload of its period, cached  *)
(* or on its way, lacks it, also after a crash and with readers that undo  *)
(* an invalidation.  Needs a list below its limit and a GitHub that        *)
(* answers about every repo; of requests that are given the payload of     *)
(* lang=* it says nothing.                                                 *)
RowsReachClients ==
  \A k \in Keys :
    LET Shows(V) == V # NoView /\ V.query = [since |-> SinceOf(k), lang |-> Empty]
                      => k \in V.rows
    IN  Available(rows, k) ~>
          [](\/ ~ Available(rows, k)
             \/ /\ k \in Visible(rows)
                /\ \A c \in CacheKeys : Shows(cache[c])
                /\ \A h \in Handlers : Shows(view[h]))

=============================================================================
