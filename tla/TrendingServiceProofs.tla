------------------------ MODULE TrendingServiceProofs ------------------------
(***************************************************************************)
(* Theorems about TrendingService: the clients do not disturb the          *)
(* pipeline, so that its theorems hold of the whole; and what a finished   *)
(* sync has left is what later requests show.                              *)
(***************************************************************************)
EXTENDS TrendingService, EnrichPipelineProofs, FiniteSetTheorems

----------------------------------------------------------------------------
(***************************************************************************)
(* The service runs the pipeline.                                          *)
(***************************************************************************)

(* A step of the service is a step of the pipeline or leaves it alone.     *)
LEMMA ServiceStepIsPipelineStep == [ServiceNext]_serviceVars => [Next]_vars
<1> SUFFICES ASSUME [ServiceNext]_serviceVars PROVE [Next]_vars
  OBVIOUS
<1>1. CASE UNCHANGED serviceVars
  BY <1>1 DEF serviceVars
<1>2. ASSUME NEW p \in Processes, EnrichStep(p) PROVE Next
  BY <1>2 DEF EnrichStep, Next
<1>3. ASSUME NEW g \in Tasks, SyncStep(g) PROVE Next
  BY <1>3 DEF SyncStep, SyncInvalidate, Sync, Next
<1>4. ASSUME NEW g \in Tasks, Trigger(g) PROVE Next
  BY <1>4 DEF Trigger, Next
<1>5. ASSUME NEW h \in Handlers, Handle(h) PROVE UNCHANGED vars
  BY <1>5 DEF Handle, Read, Set, Respond
<1>6. ASSUME NEW h \in Handlers, NEW q \in Queries, Hit(h, q) \/ Miss(h, q)
      PROVE  UNCHANGED vars
  BY <1>6 DEF Hit, Miss, Ask
<1>7. ASSUME NEW c \in CacheKeys, Expire(c) PROVE UNCHANGED vars
  BY <1>7 DEF Expire
<1>8. CASE ServiceCrash
  BY <1>8 DEF ServiceCrash, Next
<1> QED
  BY <1>1, <1>2, <1>3, <1>4, <1>5, <1>6, <1>7, <1>8 DEF ServiceNext

(* The service implements the pipeline: whatever clients ask, the rows are *)
(* scraped, enriched and dropped as EnrichPipeline says.                   *)
THEOREM ServiceRunsPipeline == ServiceSpec => Spec
<1>1. ServiceInit => Init
  BY DEF ServiceInit
<1> QED
  BY <1>1, ServiceStepIsPipelineStep, PTL DEF ServiceSpec, Spec

(* At most one goroutine syncs a period, with clients reading meanwhile.   *)
THEOREM ServiceSyncExclusion == ServiceSpec => []OneSyncPerPeriod
  BY ServiceRunsPipeline, SyncExclusion

(* With clients reading meanwhile, a sync that invalidates the cached      *)
(* pages of its period has left no row of it waiting.                      *)
THEOREM ServiceSyncSettles ==
  ASSUME ~ AllowForce, ~ StoreFaults
  PROVE  ServiceSpec => []SettledWhenInvalidated
  BY ServiceRunsPipeline, SyncSettles

----------------------------------------------------------------------------
(***************************************************************************)
(* Types.                                                                  *)
(***************************************************************************)

(* What the query returns is a set of visible rows of the period.          *)
LEMMA ReadRows ==
  ASSUME NEW s, NEW lang, NEW B \in GetRepos(rows, s, lang, ListLimit)
  PROVE  B \in SUBSET Keys /\ B \subseteq Visible(rows)
  BY DEF GetRepos, Listed, Visible

\* The types of the variables that the pipeline does not have.
ClientTypeOK ==
  /\ cache \in [CacheKeys -> Payload \cup {NoView}]
  /\ serving \in [Handlers -> {"idle", "read", "set", "respond"}]
  /\ query \in [Handlers -> Queries \cup {NoQuery}]
  /\ view \in [Handlers -> Payload \cup {NoView}]
  /\ \A h \in Handlers : query[h] = NoQuery <=> serving[h] = "idle"
  /\ \A h \in Handlers : view[h] = NoView <=> serving[h] \notin {"set", "respond"}
  /\ synced \in [Asked -> Holdings]
  /\ owed \in [Handlers -> Holdings]

(* The clients' variables have their types at first.                       *)
LEMMA ClientTypeInit == ServiceInit => ClientTypeOK
  BY DEF ServiceInit, ClientTypeOK, Nothing, Holdings

(* Every step of the service keeps them.                                   *)
LEMMA ClientTypeStep ==
  TypeInv /\ ClientTypeOK /\ [ServiceNext]_serviceVars => ClientTypeOK'
<1> SUFFICES ASSUME TypeInv, ClientTypeOK, [ServiceNext]_serviceVars PROVE ClientTypeOK'
  OBVIOUS
<1>facts. /\ \A q \in Queries : q.since \in Asked /\ CacheKey(q) \in CacheKeys
          /\ NoQuery \notin Queries
          /\ NoView \notin Payload
  BY ServiceAssumption DEF Asked, CacheKeys, Payload
<1>1. CASE UNCHANGED clientVars
  BY <1>1 DEF ClientTypeOK, clientVars
<1>2. ASSUME NEW g \in Tasks, SyncInvalidate(g) PROVE ClientTypeOK'
  <2>1. \A s : HoldingsOf(s) \in Holdings
    BY DEF HoldingsOf, Holdings, InSince
  <2>2. synced' \in [Asked -> Holdings]
    BY <1>2, <2>1 DEF SyncInvalidate, ClientTypeOK
  <2>3. cache' \in [CacheKeys -> Payload \cup {NoView}]
    BY <1>2 DEF SyncInvalidate, Dropped, ClientTypeOK
  <2> QED
    BY <1>2, <2>2, <2>3 DEF SyncInvalidate, ClientTypeOK
<1>3. ASSUME NEW h \in Handlers, Read(h) PROVE ClientTypeOK'
  <2> PICK B \in GetRepos(rows, query[h].since, query[h].lang, ListLimit) :
        view' = [view EXCEPT ![h] = [query |-> query[h], rows |-> B]]
    BY <1>3 DEF Read
  <2>a. query[h] \in Queries /\ B \in SUBSET Keys
    BY <1>3, ReadRows DEF Read, ClientTypeOK
  <2>b. [query |-> query[h], rows |-> B] \in Payload
    BY <2>a DEF Payload
  <2>1. view' \in [Handlers -> Payload \cup {NoView}]
    BY <2>b DEF ClientTypeOK
  <2>2. view'[h] \in Payload
    BY <2>b DEF ClientTypeOK
  <2>3. \A i \in Handlers \ {h} : view'[i] = view[i] /\ serving'[i] = serving[i]
    BY <1>3 DEF Read, Serve, ClientTypeOK
  <2> QED
    BY <1>3, <1>facts, <2>1, <2>2, <2>3 DEF Read, Serve, ClientTypeOK
<1>4. ASSUME NEW h \in Handlers, Set(h) PROVE ClientTypeOK'
  <2>1. view[h] \in Payload \cup {NoView}
    BY DEF ClientTypeOK
  <2>2. cache' \in [CacheKeys -> Payload \cup {NoView}]
    BY <1>4, <2>1 DEF Set, ClientTypeOK
  <2> QED
    BY <1>4, <2>2 DEF Set, Serve, ClientTypeOK
<1>5. ASSUME NEW h \in Handlers, Respond(h) PROVE ClientTypeOK'
  <2>1. Nothing \in Holdings
    BY DEF Nothing, Holdings
  <2> QED
    BY <1>5, <2>1 DEF Respond, Serve, ClientTypeOK
<1>6. ASSUME NEW h \in Handlers, NEW q \in Queries, Hit(h, q) \/ Miss(h, q)
      PROVE  ClientTypeOK'
  <2>1. owed' \in [Handlers -> Holdings] /\ query' \in [Handlers -> Queries \cup {NoQuery}]
    BY <1>6, <1>facts DEF Hit, Miss, Ask, ClientTypeOK
  <2>2. cache[CacheKey(q)] \in Payload \cup {NoView}
    BY <1>facts DEF ClientTypeOK
  <2> QED
    BY <1>6, <1>facts, <2>1, <2>2 DEF Hit, Miss, Ask, Serve, ClientTypeOK
<1>7. ASSUME NEW c \in CacheKeys, Expire(c) PROVE ClientTypeOK'
  BY <1>7 DEF Expire, ClientTypeOK
<1>8. CASE ServiceCrash
  BY <1>8 DEF ServiceCrash, ClientTypeOK, Nothing, Holdings
<1>9. ASSUME NEW p \in Processes, EnrichStep(p) PROVE UNCHANGED clientVars
  BY <1>9 DEF EnrichStep
<1>10. ASSUME NEW g \in Tasks, SyncStep(g) \/ Trigger(g)
       PROVE  UNCHANGED clientVars \/ SyncInvalidate(g)
  BY <1>10 DEF SyncStep, Trigger
<1>11. CASE UNCHANGED serviceVars
  BY <1>1, <1>11 DEF serviceVars
<1> QED
  BY <1>1, <1>2, <1>3, <1>4, <1>5, <1>6, <1>7, <1>8, <1>9, <1>10, <1>11
     DEF ServiceNext, Handle

(* Type correctness of the whole service.                                  *)
THEOREM EndToEndTyping == ServiceSpec => []ServiceTypeOK
<1>1. TypeInv /\ ClientTypeOK => ServiceTypeOK
  BY DEF TypeInv, ClientTypeOK, ServiceTypeOK
<1>2. ServiceInit => Init
  BY DEF ServiceInit
<1> QED
  BY <1>1, <1>2, TypeInit, TypeStep, ServiceStepIsPipelineStep,
     ClientTypeInit, ClientTypeStep, PTL DEF ServiceSpec

----------------------------------------------------------------------------
(***************************************************************************)
(* Whose answers a request may be given.                                   *)
(***************************************************************************)

\* A payload is under the key of the request it was built for, and a handler
\* holds one for the key of its own request.
AnswersOK ==
  /\ \A c \in CacheKeys : cache[c] # NoView => CacheKey(cache[c].query) = c
  /\ \A h \in Handlers :
       serving[h] \in {"set", "respond"} => CacheKey(view[h].query) = CacheKey(query[h])

(* Every step of the service keeps it.                                     *)
LEMMA AnswersStep ==
  ClientTypeOK /\ AnswersOK /\ [ServiceNext]_serviceVars => AnswersOK'
<1> SUFFICES ASSUME ClientTypeOK, AnswersOK, [ServiceNext]_serviceVars PROVE AnswersOK'
  OBVIOUS
<1>1. CASE UNCHANGED clientVars
  BY <1>1 DEF clientVars, AnswersOK
<1>2. ASSUME NEW g \in Tasks, SyncInvalidate(g) PROVE AnswersOK'
  <2>1. \A c \in CacheKeys : cache'[c] # NoView => cache'[c] = cache[c]
    BY <1>2 DEF SyncInvalidate, Dropped
  <2> QED
    BY <1>2, <2>1 DEF SyncInvalidate, AnswersOK
<1>3. ASSUME NEW h \in Handlers, Read(h) PROVE AnswersOK'
  <2>1. view'[h].query = query[h] /\ query' = query /\ cache' = cache
    BY <1>3 DEF Read, ClientTypeOK
  <2>2. \A i \in Handlers \ {h} : view'[i] = view[i] /\ serving'[i] = serving[i]
    BY <1>3 DEF Read, Serve, ClientTypeOK
  <2> QED
    BY <2>1, <2>2 DEF AnswersOK
<1>4. ASSUME NEW h \in Handlers, Set(h) PROVE AnswersOK'
  <2>1. /\ UNCHANGED <<query, view>> /\ serving[h] = "set"
        /\ \A c \in CacheKeys : \/ cache'[c] = cache[c]
                                \/ c = CacheKey(query[h]) /\ cache'[c] = view[h]
        /\ \A i \in Handlers \ {h} : serving'[i] = serving[i]
    BY <1>4 DEF Set, Serve, ClientTypeOK
  <2> QED
    BY <2>1 DEF AnswersOK
<1>5. ASSUME NEW h \in Handlers, Respond(h) PROVE AnswersOK'
  BY <1>5 DEF Respond, Serve, ClientTypeOK, AnswersOK
<1>6. ASSUME NEW h \in Handlers, NEW q \in Queries, Hit(h, q) \/ Miss(h, q)
      PROVE  AnswersOK'
  <2>1. CacheKey(q) \in CacheKeys
    BY DEF CacheKeys
  <2>2. query'[h] = q /\ cache' = cache
        /\ \A i \in Handlers \ {h} :
             query'[i] = query[i] /\ serving'[i] = serving[i] /\ view'[i] = view[i]
    BY <1>6 DEF Hit, Miss, Ask, Serve, ClientTypeOK
  <2>3. \/ serving'[h] = "respond" /\ view'[h] = cache[CacheKey(q)]
           /\ cache[CacheKey(q)] # NoView
        \/ serving'[h] = "read"
    BY <1>6 DEF Hit, Miss, Serve, ClientTypeOK
  <2> QED
    BY <2>1, <2>2, <2>3 DEF AnswersOK
<1>7. ASSUME NEW c \in CacheKeys, Expire(c) PROVE AnswersOK'
  <2>1. \A d \in CacheKeys : cache'[d] # NoView => cache'[d] = cache[d]
    BY <1>7 DEF Expire, ClientTypeOK
  <2> QED
    BY <1>7, <2>1 DEF Expire, AnswersOK
<1>8. CASE ServiceCrash
  BY <1>8 DEF ServiceCrash, AnswersOK
<1>9. ASSUME NEW p \in Processes, EnrichStep(p) PROVE UNCHANGED clientVars
  BY <1>9 DEF EnrichStep
<1>10. ASSUME NEW g \in Tasks, SyncStep(g) \/ Trigger(g)
       PROVE  UNCHANGED clientVars \/ SyncInvalidate(g)
  BY <1>10 DEF SyncStep, Trigger
<1>11. CASE UNCHANGED serviceVars
  BY <1>1, <1>11 DEF serviceVars
<1> QED
  BY <1>1, <1>2, <1>3, <1>4, <1>5, <1>6, <1>7, <1>8, <1>9, <1>10, <1>11
     DEF ServiceNext, Handle

(* Requests with the same key ask for the same, or one asks for lang=* and *)
(* the other has no filter.                                                *)
LEMMA SameKey ==
  ASSUME NEW q, NEW r, CacheKey(q) = CacheKey(r)
  PROVE  /\ q.since = r.since
         /\ q.lang = r.lang \/ {q.lang, r.lang} = {Empty, Star}
  BY DEF CacheKey

(* Whatever is asked, read, cached, dropped and restarted meanwhile: a     *)
(* request is given another's answer only if the one has lang=* and the    *)
(* other no filter.                                                        *)
THEOREM AnswersOnlyMistakeStar == ServiceSpec => []OnlyStarIsMistaken
<1>1. ServiceInit => AnswersOK
  BY DEF ServiceInit, AnswersOK
<1>2. AnswersOK => OnlyStarIsMistaken
  BY SameKey DEF AnswersOK, OnlyStarIsMistaken
<1>3. ServiceInit => Init
  BY DEF ServiceInit
<1> QED
  BY <1>1, <1>2, <1>3, AnswersStep, TypeInit, TypeStep, ServiceStepIsPipelineStep,
     ClientTypeInit, ClientTypeStep, PTL DEF ServiceSpec

----------------------------------------------------------------------------
(***************************************************************************)
(* What a finished sync has left is shown.                                 *)
(***************************************************************************)

\* The rows of H belong to period s; those kept are visible unless GitHub has
\* lost them since, and those lost stay so.
Promise(H, s) ==
  /\ \A k \in H.kept : /\ SinceOf(k) = s /\ Stored(rows, k)
                       /\ rows[k].available => rows[k].enriched
  /\ \A k \in H.lost : Stored(rows, k) /\ ~ rows[k].available

\* A payload built for a request without filter.
Unfiltered(V) == V.query.lang = Empty

\* What the last quiet invalidation of each period found still stands, unfiltered
\* payloads in the cache and on their way into it show it, and no request is
\* owed anything else.
ShownOK ==
  /\ \A s \in Asked : Promise(synced[s], s)
  /\ \A h \in Handlers : serving[h] # "idle" => Promise(owed[h], query[h].since)
  /\ \A c \in CacheKeys :
       cache[c] # NoView /\ Unfiltered(cache[c]) =>
         ShowsHoldings(cache[c], synced[KeySince(c)])
  /\ \A h \in Handlers :
       serving[h] = "set" /\ Unfiltered(view[h]) =>
         ShowsHoldings(view[h], synced[query[h].since])
  /\ \A h \in Handlers :
       serving[h] \in {"set", "respond"} /\ Unfiltered(view[h]) =>
         ShowsHoldings(view[h], owed[h])

(* A key of the cache begins with a period that is asked for.              *)
LEMMA KeyPeriods ==
  /\ \A q \in Queries : /\ q.since \in Asked /\ CacheKey(q) \in CacheKeys
                        /\ KeySince(CacheKey(q)) = q.since
  /\ \A c \in CacheKeys : KeySince(c) \in Asked
  BY DEF Asked, CacheKeys, CacheKey, KeySince

(* Without forced enrichment rows only grow old: none goes, none that was  *)
(* enriched is pending again, and none that is lost comes back.            *)
LEMMA RowsAge ==
  ASSUME TypeInv, [Next]_vars, ~ AllowForce, NEW k \in Keys, Stored(rows, k)
  PROVE  /\ Stored(rows', k)
         /\ rows'[k].available => rows[k].available
         /\ rows[k].enriched => rows'[k].enriched
<1>1. rows \in Table
  BY DEF TypeInv, TypeOK
<1>2. CASE SameButPriority(rows, rows')
  BY <1>2 DEF SameButPriority
<1>3. ASSUME NEW j \in Keys, NEW lang \in Language,
             rows' = UpsertRepo(rows, j, lang) \/ rows' = UpdateEnriched(rows, j, lang)
      PROVE  /\ Stored(rows', k)
             /\ rows'[k].available => rows[k].available
             /\ rows[k].enriched => rows'[k].enriched
  <2>1. CASE k = j
    BY <1>1, <1>3, <2>1, UpsertRow, EnrichedRow
  <2>2. CASE k # j
    BY <1>1, <1>3, <2>2, UpsertRow, EnrichedRow DEF Stored
  <2> QED
    BY <2>1, <2>2
<1>4. ASSUME NEW j \in Keys, rows' = MarkUnavailable(rows, j)
      PROVE  /\ Stored(rows', k)
             /\ rows'[k].available => rows[k].available
             /\ rows[k].enriched => rows'[k].enriched
  <2>1. CASE k = j
    BY <1>1, <1>4, <2>1, UnavailableRow
  <2>2. CASE k # j
    BY <1>1, <1>4, <2>2, UnavailableRow DEF Stored
  <2> QED
    BY <2>1, <2>2
<1>5. ASSUME NEW p \in Processes, WritesBy(p)
      PROVE  \E j \in Keys, lang \in Language : rows' = UpdateEnriched(rows, j, lang)
  BY <1>5 DEF WritesBy
<1> QED
  BY <1>2, <1>3, <1>4, <1>5, TableSteps

(* A promise is kept by every step, whatever it does to the table.         *)
LEMMA PromiseKept ==
  ASSUME TypeInv, [Next]_vars, ~ AllowForce, NEW H \in Holdings, NEW s, Promise(H, s)
  PROVE  /\ \A k \in H.kept : /\ SinceOf(k) = s /\ Stored(rows', k)
                              /\ rows'[k].available => rows'[k].enriched
         /\ \A k \in H.lost : Stored(rows', k) /\ ~ rows'[k].available
<1>1. \A k \in H.kept \cup H.lost : k \in Keys
  BY DEF Holdings
<1>2. \A k \in H.kept \cup H.lost : Stored(rows, k)
  BY DEF Promise
<1> QED
  BY <1>1, <1>2, RowsAge DEF Promise

(* So a payload that shows a promise goes on showing it.                   *)
LEMMA CoverKept ==
  ASSUME TypeInv, [Next]_vars, ~ AllowForce, NEW H \in Holdings, NEW s, Promise(H, s),
         NEW V, ShowsHoldings(V, H)
  PROVE  /\ Cardinality(V.rows) >= ListLimit
              \/ \A k \in H.kept : k \in V.rows \/ ~ Available(rows', k)
         /\ V.rows \cap H.lost = {}
<1>1. \A k \in H.kept : k \in Keys /\ Stored(rows, k)
  BY DEF Holdings, Promise
<1>2. \A k \in H.kept : ~ Available(rows, k) => ~ Available(rows', k)
  BY <1>1, RowsAge DEF Available
<1> QED
  BY <1>2 DEF ShowsHoldings

(* An unfiltered read of the store shows whatever is promised of the       *)
(* period: all the rows it has if they fit into the list.                  *)
LEMMA ReadCovers ==
  ASSUME IsFiniteSet(Keys), NEW s, NEW B \in GetRepos(rows, s, Empty, ListLimit),
         NEW H \in Holdings, Promise(H, s)
  PROVE  \A q : ShowsHoldings([query |-> q, rows |-> B], H)
<1> DEFINE R == Listed(rows, s, Empty)
<1>1. R = {k \in Visible(rows) : SinceOf(k) = s}
  BY QueriesAssumption DEF Listed, Language
<1>2. B \in SUBSET R
      /\ Cardinality(B) = IF Cardinality(R) < ListLimit THEN Cardinality(R) ELSE ListLimit
  BY DEF GetRepos
<1>3. R \in SUBSET Keys
  BY <1>1 DEF Visible
<1>4. ListLimit \in Nat
  BY ServiceAssumption
<1>5. B \cap H.lost = {}
  BY <1>1, <1>2 DEF Promise, Visible, Available
<1>6. \A k \in H.kept : k \in R \/ ~ Available(rows, k)
  BY <1>1 DEF Promise, Visible, Available, Holdings
<1> HIDE DEF R
<1>7. CASE Cardinality(R) < ListLimit
  <2>1. IsFiniteSet(R)
    BY <1>3, FS_Subset
  <2>2. R = B
    BY <1>2, <1>7, <2>1, FS_Subset
  <2> QED
    BY <1>5, <1>6, <2>2 DEF ShowsHoldings
<1>8. CASE ~ (Cardinality(R) < ListLimit)
  <2>1. Cardinality(B) = ListLimit
    BY <1>2, <1>8
  <2>2. Cardinality(B) >= ListLimit
    BY <1>4, <2>1
  <2> QED
    BY <1>5, <2>2 DEF ShowsHoldings
<1> QED
  BY <1>7, <1>8

(* What a sync finds at its invalidation is a promise.                     *)
LEMMA SyncedPromise ==
  ASSUME TypeInv, SettledWhenInvalidated, NEW g \in Tasks, At(g, "invalidate")
  PROVE  Promise(HoldingsOf(Head(todo[g])), Head(todo[g]))
<1>1. \A k \in Keys : SinceOf(k) = Head(todo[g]) => k \notin Pending(rows)
  BY DEF SettledWhenInvalidated
<1> QED
  BY <1>1 DEF Promise, HoldingsOf, InSince, Pending, Available

(* Before the first sync nothing is promised.                              *)
LEMMA ShownInit == ServiceInit => ShownOK
  BY DEF ServiceInit, ShownOK, Promise, Nothing

(* Steps that leave the clients alone keep what they are shown and owed.   *)
LEMMA ShownWhileClientsRest ==
  ASSUME TypeInv, ClientTypeOK, ShownOK, [Next]_vars, ~ AllowForce, UNCHANGED clientVars
  PROVE  ShownOK'
<1> USE DEF clientVars
<1>types. /\ synced \in [Asked -> Holdings] /\ owed \in [Handlers -> Holdings]
          /\ \A q \in Queries : q.since \in Asked
          /\ \A c \in CacheKeys : KeySince(c) \in Asked
          /\ \A h \in Handlers : serving[h] # "idle" => query[h] \in Queries
  BY KeyPeriods DEF ClientTypeOK
<1>1. \A H \in Holdings : \A s : Promise(H, s) =>
         /\ \A k \in H.kept : /\ SinceOf(k) = s /\ Stored(rows', k)
                              /\ rows'[k].available => rows'[k].enriched
         /\ \A k \in H.lost : Stored(rows', k) /\ ~ rows'[k].available
  BY PromiseKept
<1>2. \A H \in Holdings : \A s, V : Promise(H, s) /\ ShowsHoldings(V, H) =>
         /\ Cardinality(V.rows) >= ListLimit
              \/ \A k \in H.kept : k \in V.rows \/ ~ Available(rows', k)
         /\ V.rows \cap H.lost = {}
  BY CoverKept
<1>3. (\A s \in Asked : Promise(synced[s], s))'
  BY <1>types, <1>1 DEF ShownOK, Promise
<1>4. (\A h \in Handlers : serving[h] # "idle" => Promise(owed[h], query[h].since))'
  <2>1. \A h \in Handlers : serving[h] # "idle" =>
          owed[h] \in Holdings /\ Promise(owed[h], query[h].since)
    BY <1>types DEF ShownOK
  <2> QED
    BY <1>1, <2>1 DEF Promise
<1>5. (\A c \in CacheKeys :
         cache[c] # NoView /\ Unfiltered(cache[c]) =>
           ShowsHoldings(cache[c], synced[KeySince(c)]))'
  BY <1>types, <1>2 DEF ShownOK, ShowsHoldings, Unfiltered
<1>6. (\A h \in Handlers :
         serving[h] = "set" /\ Unfiltered(view[h]) =>
           ShowsHoldings(view[h], synced[query[h].since]))'
  BY <1>types, <1>2 DEF ShownOK, ShowsHoldings, Unfiltered
<1>7. (\A h \in Handlers :
         serving[h] \in {"set", "respond"} /\ Unfiltered(view[h]) =>
           ShowsHoldings(view[h], owed[h]))'
  BY <1>types, <1>2 DEF ShownOK, ShowsHoldings, Unfiltered
<1> QED
  BY <1>3, <1>4, <1>5, <1>6, <1>7 DEF ShownOK

(* A request that is answered from the cache or goes to the store is owed  *)
(* what the last sync of its period left.                                  *)
LEMMA AskKeepsShown ==
  ASSUME ClientTypeOK, ShownOK, NEW h \in Handlers, NEW q \in Queries,
         Hit(h, q) \/ Miss(h, q)
  PROVE  ShownOK'
<1>1. /\ UNCHANGED <<rows, cache, synced>> /\ q.since \in Asked
      /\ query'[h] = q /\ owed'[h] = synced[q.since]
      /\ \A i \in Handlers \ {h} :
           /\ query'[i] = query[i] /\ owed'[i] = owed[i]
           /\ serving'[i] = serving[i] /\ view'[i] = view[i]
  BY DEF Hit, Miss, Ask, Serve, ClientTypeOK, Asked, vars
<1>2. \/ serving'[h] = "respond" /\ view'[h] = cache[CacheKey(q)]
         /\ cache[CacheKey(q)] # NoView
      \/ serving'[h] = "read"
  BY DEF Hit, Miss, Serve, ClientTypeOK
<1> QED
  BY <1>1, <1>2, KeyPeriods DEF ShownOK, Promise, ShowsHoldings, Unfiltered

(* What is read covers what is owed and what the last sync promised.       *)
LEMMA ReadKeepsShown ==
  ASSUME IsFiniteSet(Keys), ClientTypeOK, ShownOK, NEW h \in Handlers, Read(h)
  PROVE  ShownOK'
<1>1. /\ query[h] \in Queries /\ query[h].since \in Asked
      /\ synced[query[h].since] \in Holdings /\ owed[h] \in Holdings
  BY DEF Read, ClientTypeOK, Asked
<1>2. /\ UNCHANGED <<rows, cache, synced, query, owed>>
      /\ serving[h] = "read" /\ serving'[h] = "set"
      /\ \E B \in GetRepos(rows, query[h].since, query[h].lang, ListLimit) :
           view'[h] = [query |-> query[h], rows |-> B]
      /\ \A i \in Handlers \ {h} : serving'[i] = serving[i] /\ view'[i] = view[i]
  BY DEF Read, Serve, ClientTypeOK, vars
<1>3. Unfiltered(view'[h]) => /\ ShowsHoldings(view'[h], synced[query[h].since])
                             /\ ShowsHoldings(view'[h], owed[h])
  BY <1>1, <1>2, ReadCovers DEF ShownOK, Unfiltered
<1> QED
  BY <1>2, <1>3 DEF ShownOK, Promise, ShowsHoldings, Unfiltered

(* The other steps of a handler and the end of an entry's time to live.    *)
LEMMA HandlersKeepShown ==
  ASSUME ClientTypeOK, ShownOK,
         \/ \E h \in Handlers : Set(h) \/ Respond(h)
         \/ \E c \in CacheKeys : Expire(c)
  PROVE  ShownOK'
<1>1. ASSUME NEW h \in Handlers, Set(h) PROVE ShownOK'
  <2>1. /\ UNCHANGED <<rows, synced, query, view, owed>>
        /\ serving[h] = "set" /\ serving'[h] = "respond"
        /\ query[h] \in Queries
        /\ \A c \in CacheKeys : \/ cache'[c] = cache[c]
                                \/ c = CacheKey(query[h]) /\ cache'[c] = view[h]
        /\ \A i \in Handlers \ {h} : serving'[i] = serving[i]
    BY <1>1 DEF Set, Serve, ClientTypeOK, vars
  <2> QED
    BY <2>1, KeyPeriods DEF ShownOK, Promise, ShowsHoldings, Unfiltered
<1>2. ASSUME NEW h \in Handlers, Respond(h) PROVE ShownOK'
  <2>1. /\ UNCHANGED <<rows, cache, synced>> /\ serving'[h] = "idle"
        /\ \A i \in Handlers \ {h} :
             /\ query'[i] = query[i] /\ owed'[i] = owed[i]
             /\ serving'[i] = serving[i] /\ view'[i] = view[i]
    BY <1>2 DEF Respond, Serve, ClientTypeOK, vars
  <2> QED
    BY <2>1 DEF ShownOK, Promise, ShowsHoldings, Unfiltered
<1>3. ASSUME NEW c \in CacheKeys, Expire(c) PROVE ShownOK'
  <2>1. /\ UNCHANGED <<rows, serving, query, view, synced, owed>>
        /\ \A d \in CacheKeys : cache'[d] # NoView => cache'[d] = cache[d]
    BY <1>3 DEF Expire, ClientTypeOK, vars
  <2> QED
    BY <2>1 DEF ShownOK, Promise, ShowsHoldings, Unfiltered
<1> QED
  BY <1>1, <1>2, <1>3

(* An invalidation drops what would not show the new promise; a reader on  *)
(* its way makes it no promise at all.                                     *)
LEMMA InvalidateKeepsShown ==
  ASSUME TypeInv, ClientTypeOK, ShownOK, SettledWhenInvalidated,
         NEW g \in Tasks, SyncInvalidate(g)
  PROVE  ShownOK'
<1> DEFINE s0 == Head(todo[g])
<1>1. UNCHANGED <<rows, serving, query, view, owed>> /\ At(g, "invalidate")
  BY DEF SyncInvalidate, Invalidate
<1>2. Promise(HoldingsOf(s0), s0)
  BY <1>1, SyncedPromise
<1> HIDE DEF s0
<1>3. \A c \in CacheKeys :
        cache'[c] # NoView => cache'[c] = cache[c] /\ KeySince(c) # s0
  BY DEF SyncInvalidate, Dropped, s0
<1>4. \A s \in Asked : \/ synced'[s] = synced[s]
                       \/ s = s0 /\ synced'[s] = HoldingsOf(s0) /\ ~ Straddled(s0)
  BY DEF SyncInvalidate, s0, ClientTypeOK
<1>5. /\ \A q \in Queries : q.since \in Asked
      /\ \A c \in CacheKeys : KeySince(c) \in Asked
  BY KeyPeriods
<1>6. \A h \in Handlers : serving[h] = "set" => query[h] \in Queries
  BY DEF ClientTypeOK
<1>7. \A h \in Handlers :
        serving[h] = "set" => synced'[query[h].since] = synced[query[h].since]
  BY <1>4, <1>5, <1>6 DEF Straddled
<1>8. (\A s \in Asked : Promise(synced[s], s))'
  BY <1>1, <1>2, <1>4 DEF ShownOK, Promise
<1>9. (\A c \in CacheKeys :
         cache[c] # NoView /\ Unfiltered(cache[c]) =>
           ShowsHoldings(cache[c], synced[KeySince(c)]))'
  BY <1>1, <1>3, <1>4, <1>5 DEF ShownOK, ShowsHoldings, Unfiltered
<1> QED
  BY <1>1, <1>7, <1>8, <1>9 DEF ShownOK, Promise, ShowsHoldings, Unfiltered

(* Every step of the service keeps it, a crash included: it empties the    *)
(* cache and ends the requests, and the table stays.                       *)
LEMMA ShownStep ==
  ASSUME IsFiniteSet(Keys), ~ AllowForce
  PROVE  /\ TypeInv /\ ClientTypeOK /\ ShownOK /\ SettledWhenInvalidated
         /\ [ServiceNext]_serviceVars
         => ShownOK'
<1> SUFFICES ASSUME TypeInv, ClientTypeOK, ShownOK, SettledWhenInvalidated,
                    [ServiceNext]_serviceVars
             PROVE  ShownOK'
  OBVIOUS
<1>1. CASE UNCHANGED clientVars
  BY <1>1, ServiceStepIsPipelineStep, ShownWhileClientsRest
<1>2. CASE UNCHANGED serviceVars
  BY <1>1, <1>2 DEF serviceVars
<1>3. ASSUME NEW p \in Processes, EnrichStep(p) PROVE UNCHANGED clientVars
  BY <1>3 DEF EnrichStep
<1>4. ASSUME NEW g \in Tasks, SyncStep(g) \/ Trigger(g)
      PROVE  UNCHANGED clientVars \/ SyncInvalidate(g)
  BY <1>4 DEF SyncStep, Trigger
<1>5. CASE ServiceCrash
  <2>1. /\ UNCHANGED <<rows, synced>>
        /\ \A c \in CacheKeys : cache'[c] = NoView
        /\ \A h \in Handlers : serving'[h] = "idle"
    BY <1>5 DEF ServiceCrash, Crash
  <2> QED
    BY <2>1 DEF ShownOK, Promise
<1> QED
  BY <1>1, <1>2, <1>3, <1>4, <1>5, AskKeepsShown, ReadKeepsShown, HandlersKeepShown,
     InvalidateKeepsShown DEF ServiceNext, Handle

(* What a finished sync is for, with any number of workers, syncs, periods *)
(* and clients, and across crashes: the unfiltered payloads given to the   *)
(* requests that come in after it show every row it left, unless GitHub    *)
(* has lost the repo or the list is full, and none that was gone.          *)
THEOREM SyncedRowsReachClients ==
  ASSUME IsFiniteSet(Repos), IsFiniteSet(Sinces), ~ AllowForce, ~ StoreFaults
  PROVE  ServiceSpec => []SyncedRowsAreShown
<1>1. IsFiniteSet(Keys)
  BY FS_Product DEF Keys
<1>2. ClientTypeOK /\ ShownOK => SyncedRowsAreShown
  BY DEF ShownOK, Unfiltered, SyncedRowsAreShown
<1>3. ServiceInit => Init
  BY DEF ServiceInit
<1>4. /\ TypeInv /\ ClientTypeOK /\ ShownOK /\ SettledWhenInvalidated
      /\ [ServiceNext]_serviceVars
      => ShownOK'
  BY <1>1, ShownStep
<1>5. ServiceSpec => []SettledWhenInvalidated
  BY ServiceSyncSettles
<1> QED
  BY <1>2, <1>3, <1>4, <1>5, TypeInit, TypeStep, ServiceStepIsPipelineStep,
     ClientTypeInit, ClientTypeStep, ShownInit, PTL DEF ServiceSpec

(* If nobody asks for lang=*, every request without filter that comes in   *)
(* after a sync is shown what the sync left.                               *)
THEOREM UnfilteredRequestsAreShown ==
  ASSUME IsFiniteSet(Repos), IsFiniteSet(Sinces), ~ AllowForce, ~ StoreFaults,
         \A q \in Queries : q.lang # Star
  PROVE  ServiceSpec =>
           [](\A h \in Handlers :
                serving[h] = "respond" /\ query[h].lang = Empty =>
                  ShowsHoldings(view[h], owed[h]))
<1> DEFINE Shown == \A h \in Handlers :
                      serving[h] = "respond" /\ query[h].lang = Empty =>
                        ShowsHoldings(view[h], owed[h])
<1>1. ServiceTypeOK /\ OnlyStarIsMistaken /\ SyncedRowsAreShown => Shown
  <2> SUFFICES ASSUME ServiceTypeOK, OnlyStarIsMistaken, SyncedRowsAreShown,
                      NEW h \in Handlers, serving[h] = "respond", query[h].lang = Empty
               PROVE  ShowsHoldings(view[h], owed[h])
    OBVIOUS
  <2>1. view[h].query \in Queries
    BY DEF ServiceTypeOK, Payload
  <2>2. view[h].query.lang = Empty
    BY <2>1 DEF OnlyStarIsMistaken
  <2> QED
    BY <2>2 DEF SyncedRowsAreShown
<1> HIDE DEF Shown
<1>2. ServiceSpec => []Shown
  BY <1>1, EndToEndTyping, AnswersOnlyMistakeStar, SyncedRowsReachClients, PTL
<1> QED
  BY <1>2 DEF Shown

=============================================================================
