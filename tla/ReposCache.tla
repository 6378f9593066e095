----------------------------- MODULE ReposCache -----------------------------
(***************************************************************************)
(* GET /api/v1/repos (internal/handler/repos.go) over the response cache   *)
(* of internal/handler/trending_cache.go.  A request is served by one      *)
(* goroutine: look the key up; on a miss read the store, build the payload *)
(* and put it into the cache.  The store changes and the scheduler calls   *)
(* Invalidate between any two of these steps.                              *)
(*                                                                         *)
(* What the store holds of a period is represented by a version number; a  *)
(* payload is the query it answers and the version it was read from.       *)
(* Clients send no If-None-Match: a 304 stands for the same payload.       *)
(***************************************************************************)
EXTENDS Naturals, FiniteSets

CONSTANTS
  Handlers,    \* request goroutines
  Sinces,      \* the periods
  Queries,     \* the requests made: records with fields since, lang, limit
  NoFilter,    \* the empty lang parameter
  Star,        \* the string "*"
  NoEntry,     \* no entry under a key; no payload
  NoQuery,     \* query[h] when handler h serves no request
  TTL,         \* TTLFor: how many ticks an entry of each period lives
  MaxTTL,      \* the longest of them
  MaxSpan,     \* bound on the ticks between a handler's read and its Set
  MaxVersion,  \* bound on the changes of each period
  StoreFaults  \* whether GetRepos may fail

ASSUME CacheAssumption ==
  /\ \A q \in Queries : q.since \in Sinces
  /\ TTL \in [Sinces -> 0..MaxTTL]
  /\ MaxTTL \in Nat /\ MaxSpan \in Nat /\ MaxVersion \in Nat
  /\ StoreFaults \in BOOLEAN
  /\ NoQuery \notin Queries
  /\ NoEntry \notin [query : Queries, version : Nat, age : Nat, lag : Nat]

\* The string since|lang|limit, lang being "*" for a request without filter.
CacheKey(q) == <<q.since, IF q.lang = NoFilter THEN Star ELSE q.lang, q.limit>>

CacheKeys  == {CacheKey(q) : q \in Queries}
KeySince(k) == k[1]

\* Ages beyond Horizon are not told apart: every TTL has passed by then.
Horizon == MaxSpan + MaxTTL + 1
Older(n) == IF n < Horizon THEN n + 1 ELSE n

Payload == [query   : Queries,
            version : 0..MaxVersion,  \* of the period when the store was read
            age     : 0..Horizon,     \* ticks since builtAt, the call of Set
            lag     : 0..Horizon]     \* ticks since the store was read

VARIABLES
  version,  \* what the store holds of each period
  items,    \* TrendingCache.items
  pc,       \* where each handler is
  query,    \* the request it serves
  got,      \* the payload it has, or NoEntry
  \* The last three only serve to state properties.
  due,      \* the version of each period when it was last invalidated
  firm,     \* the same, leaving out invalidations that a read straddled
  owed      \* due and firm of its period when the request came in

vars == <<version, items, pc, query, got, due, firm, owed>>

TypeOK ==
  /\ version \in [Sinces -> 0..MaxVersion]
  /\ items \in [CacheKeys -> Payload \cup {NoEntry}]
  /\ pc \in [Handlers -> {"idle", "get", "read", "set", "respond"}]
  /\ query \in [Handlers -> Queries \cup {NoQuery}]
  /\ got \in [Handlers -> Payload \cup {NoEntry}]
  /\ \A h \in Handlers : got[h] = NoEntry <=> pc[h] \notin {"set", "respond"}
  /\ \A h \in Handlers : query[h] = NoQuery <=> pc[h] = "idle"
  /\ due \in [Sinces -> 0..MaxVersion]
  /\ firm \in [Sinces -> 0..MaxVersion]
  /\ owed \in [Handlers -> [due : 0..MaxVersion, firm : 0..MaxVersion]]

Nothing == [due |-> 0, firm |-> 0]

Init ==
  /\ version = [s \in Sinces |-> 0]
  /\ items = [k \in CacheKeys |-> NoEntry]
  /\ pc = [h \in Handlers |-> "idle"]
  /\ query = [h \in Handlers |-> NoQuery]
  /\ got = [h \in Handlers |-> NoEntry]
  /\ due = [s \in Sinces |-> 0]
  /\ firm = [s \in Sinces |-> 0]
  /\ owed = [h \in Handlers |-> Nothing]

Goto(h, label) == pc' = [pc EXCEPT ![h] = label]

----------------------------------------------------------------------------
(***************************************************************************)
(* The request handler.  Parameters that are answered with 400 touch no    *)
(* state and are left out.                                                 *)
(***************************************************************************)
Ask(h) ==
  /\ pc[h] = "idle"
  /\ \E q \in Queries :
       /\ query' = [query EXCEPT ![h] = q]
       /\ owed' = [owed EXCEPT ![h] = [due |-> due[q.since], firm |-> firm[q.since]]]
  /\ Goto(h, "get")
  /\ UNCHANGED <<version, items, got, due, firm>>

\* Get without the comparison with TTLFor.
ValidWhilePresent(k) == items[k] # NoEntry

\* TrendingCache.Get: the entry, unless its TTL has passed.
Valid(k) == items[k] # NoEntry /\ items[k].age <= TTL[KeySince(k)]

Hit(h) ==
  /\ pc[h] = "get"
  /\ Valid(CacheKey(query[h]))
  /\ got' = [got EXCEPT ![h] = items[CacheKey(query[h])]]
  /\ Goto(h, "respond")
  /\ UNCHANGED <<version, items, query, due, firm, owed>>

Miss(h) ==
  /\ pc[h] = "get"
  /\ ~ Valid(CacheKey(query[h]))
  /\ Goto(h, "read")
  /\ UNCHANGED <<version, items, query, got, due, firm, owed>>

\* GetRepos: one SELECT, hence the rows of one moment.
Read(h) ==
  /\ pc[h] = "read"
  /\ got' = [got EXCEPT ![h] = [query |-> query[h],
                                version |-> version[query[h].since],
                                age |-> 0, lag |-> 0]]
  /\ Goto(h, "set")
  /\ UNCHANGED <<version, items, query, due, firm, owed>>

\* The return after writeError is missing.
ReadFailsOn(h) ==
  /\ StoreFaults
  /\ pc[h] = "read"
  /\ Goto(h, "set")
  /\ UNCHANGED <<version, items, query, got, due, firm, owed>>

\* GetRepos fails: 500, and the cache is left alone.
ReadFails(h) ==
  /\ StoreFaults
  /\ pc[h] = "read"
  /\ query' = [query EXCEPT ![h] = NoQuery]
  /\ owed' = [owed EXCEPT ![h] = Nothing]
  /\ Goto(h, "idle")
  /\ UNCHANGED <<version, items, got, due, firm>>

\* TrendingCache.Set stamps builtAt with the time of the call, not of the read.
Set(h) ==
  /\ pc[h] = "set"
  /\ items' = [items EXCEPT ![CacheKey(query[h])] = got[h]]
  /\ Goto(h, "respond")
  /\ UNCHANGED <<version, query, got, due, firm, owed>>

Respond(h) ==
  /\ pc[h] = "respond"
  /\ got' = [got EXCEPT ![h] = NoEntry]
  /\ query' = [query EXCEPT ![h] = NoQuery]
  /\ owed' = [owed EXCEPT ![h] = Nothing]
  /\ Goto(h, "idle")
  /\ UNCHANGED <<version, items, due, firm>>

----------------------------------------------------------------------------
(***************************************************************************)
(* The rest of the program.                                                *)
(***************************************************************************)

\* A row of the period that clients see appears, changes or goes.
Change(s) ==
  /\ version[s] < MaxVersion
  /\ version' = [version EXCEPT ![s] = @ + 1]
  /\ UNCHANGED <<items, pc, query, got, due, firm, owed>>

\* Invalidate with the prefix test turned round: only other periods go.
InvalidatedOthers(s) ==
  [k \in CacheKeys |-> IF KeySince(k) = s THEN items[k] ELSE NoEntry]

\* Every key that begins with the period.
Invalidated(s) ==
  [k \in CacheKeys |-> IF KeySince(k) = s THEN NoEntry ELSE items[k]]

\* A handler has read the period and not yet put the payload into the cache.
Straddled(s) == \E h \in Handlers : pc[h] = "set" /\ query[h].since = s

Invalidate(s) ==
  /\ items' = Invalidated(s)
  /\ due' = [due EXCEPT ![s] = version[s]]
  /\ firm' = IF Straddled(s) THEN firm ELSE [firm EXCEPT ![s] = version[s]]
  /\ UNCHANGED <<version, pc, query, got, owed>>

\* Time passes, for a reader between read and Set at most MaxSpan ticks.  What
\* it carries has been read, but builtAt is taken by Set.  The lag of an answer
\* is what it is when the answer is written out.
Tick ==
  /\ \A h \in Handlers : pc[h] = "set" => got[h].lag < MaxSpan
  /\ items' = [k \in CacheKeys |->
                 IF items[k] = NoEntry
                   THEN NoEntry
                   ELSE [items[k] EXCEPT !.age = Older(@), !.lag = Older(@)]]
  /\ got' = [h \in Handlers |->
               IF pc[h] = "set" THEN [got[h] EXCEPT !.lag = Older(@)] ELSE got[h]]
  /\ UNCHANGED <<version, pc, query, due, firm, owed>>

Handle(h) == Hit(h) \/ Miss(h) \/ Read(h) \/ ReadFails(h) \/ Set(h) \/ Respond(h)

Next ==
  \/ \E h \in Handlers : Ask(h) \/ Handle(h)
  \/ \E s \in Sinces : Change(s) \/ Invalidate(s)
  \/ Tick

Spec == Init /\ [][Next]_vars

(***************************************************************************)
(* net/http runs every handler, and time passes.  No client has to ask, no *)
(* sync has to come.                                                       *)
(***************************************************************************)
FairSpec == Spec /\ (\A h \in Handlers : WF_vars(Handle(h))) /\ WF_vars(Tick)

----------------------------------------------------------------------------
(***************************************************************************)
(* Properties                                                              *)
(***************************************************************************)

(* No answer shows the store as it was more than the TTL of its period,    *)
(* plus the time of one request, ago, even if the entry was set by a slow  *)
(* reader or replaced a newer one: half of what the comment on TTLFor      *)
(* allows ("at worst TTL x 2"), with or without Invalidate.                *)
LagIsBounded ==
  \A h \in Handlers :
    pc[h] = "respond" => got[h].lag <= TTL[query[h].since] + MaxSpan

(* A request that comes in after the end of a sync shows at least what the *)
(* sync left, if no handler was between its read and its Set when the sync *)
(* invalidated the period.  Later syncs and slow readers do not undo it.   *)
FreshAfterQuietInvalidate ==
  \A h \in Handlers : pc[h] = "respond" => got[h].version >= owed[h].firm

(* Once the store stops changing, stale answers stop too: no entry, not    *)
(* even one set after the last Invalidate by a slow reader, is served for  *)
(* ever.                                                                   *)
StaleEntriesExpire ==
  \A s \in Sinces :
    <>[](\A k \in CacheKeys :
           KeySince(k) = s /\ Valid(k) => items[k].version = version[s])

(* trending_cache.go: after Invalidate, "the client's next request gets    *)
(* the new data, 100 %".                                                   *)
FreshAfterInvalidate ==
  \A h \in Handlers : pc[h] = "respond" => got[h].version >= owed[h].due

=============================================================================
