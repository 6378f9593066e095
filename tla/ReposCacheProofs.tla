-------------------------- MODULE ReposCacheProofs --------------------------
(***************************************************************************)
(* Theorems about ReposCache, for every number of handlers, periods and    *)
(* requests, and whatever the times to live are.                           *)
(***************************************************************************)
EXTENDS ReposCache, TLAPS

\* An entry is stamped by Set with at most MaxSpan ticks delay: what it shows
\* is at most so much older than the entry itself.
LagOK ==
  /\ \A k \in CacheKeys : items[k] # NoEntry => items[k].lag <= items[k].age + MaxSpan
  /\ \A h \in Handlers : pc[h] = "set" => got[h].lag <= MaxSpan /\ got[h].age = 0
  /\ LagIsBounded

\* Whatever is in the cache or on its way into it shows at least what the last
\* quiet invalidation of its period found, and no request is owed more.
FirmOK ==
  /\ \A s \in Sinces : firm[s] <= version[s]
  /\ \A k \in CacheKeys : items[k] # NoEntry => items[k].version >= firm[KeySince(k)]
  /\ \A h \in Handlers : pc[h] = "set" => got[h].version >= firm[query[h].since]
  /\ \A h \in Handlers : query[h] # NoQuery => owed[h].firm <= firm[query[h].since]
  /\ FreshAfterQuietInvalidate

----------------------------------------------------------------------------
(* A request has a period, its key has the same, and NoEntry is no payload. *)
LEMMA RequestFacts ==
  /\ \A q \in Queries : q.since \in Sinces
  /\ \A q \in Queries : CacheKey(q) \in CacheKeys /\ KeySince(CacheKey(q)) = q.since
  /\ \A k \in CacheKeys : KeySince(k) \in Sinces
  /\ NoEntry \notin Payload
  /\ NoQuery \notin Queries
<1>1. \A q \in Queries : q.since \in Sinces
  BY CacheAssumption
<1>2. \A q \in Queries : CacheKey(q) \in CacheKeys /\ KeySince(CacheKey(q)) = q.since
  BY DEF CacheKey, CacheKeys, KeySince
<1>3. \A k \in CacheKeys : KeySince(k) \in Sinces
  BY <1>1, <1>2 DEF CacheKeys
<1>4. Payload \subseteq [query : Queries, version : Nat, age : Nat, lag : Nat]
  BY CacheAssumption DEF Payload, Horizon
<1> QED
  BY <1>1, <1>2, <1>3, <1>4, CacheAssumption

(* One tick more, unless the age is not told apart any more.               *)
LEMMA OlderFacts ==
  /\ Horizon \in Nat
  /\ \A n \in 0..Horizon : Older(n) \in 0..Horizon /\ n <= Older(n) /\ Older(n) <= n + 1
  /\ \A n, m \in 0..Horizon : n <= m + MaxSpan => Older(n) <= Older(m) + MaxSpan
<1>1. Horizon \in Nat /\ MaxSpan \in Nat
  BY CacheAssumption DEF Horizon
<1> QED
  BY <1>1 DEF Older

----------------------------------------------------------------------------
(* The values have their types at first.                                   *)
LEMMA CacheTypeInit == Init => TypeOK
  BY CacheAssumption DEF Init, TypeOK, Nothing

(* Every step keeps the types.                                             *)
LEMMA CacheTypeStep == TypeOK /\ [Next]_vars => TypeOK'
<1> SUFFICES ASSUME TypeOK, [Next]_vars PROVE TypeOK'
  OBVIOUS
<1> USE RequestFacts DEF TypeOK
<1>1. ASSUME NEW h \in Handlers, Ask(h) PROVE TypeOK'
  BY <1>1 DEF Ask, Goto
<1>2. ASSUME NEW h \in Handlers, Hit(h) PROVE TypeOK'
  <2>1. query[h] \in Queries
    BY <1>2 DEF Hit
  <2>2. items[CacheKey(query[h])] \in Payload
    BY <1>2, <2>1 DEF Hit, Valid
  <2> QED
    BY <1>2, <2>2 DEF Hit, Goto
<1>3. ASSUME NEW h \in Handlers, Miss(h) PROVE TypeOK'
  BY <1>3 DEF Miss, Goto
<1>4. ASSUME NEW h \in Handlers, Read(h) PROVE TypeOK'
  <2>1. query[h] \in Queries
    BY <1>4 DEF Read
  <2>2. got'[h] \in Payload
    BY <1>4, <2>1, OlderFacts DEF Read, Payload
  <2> QED
    BY <1>4, <2>2 DEF Read, Goto
<1>5. ASSUME NEW h \in Handlers, ReadFails(h) PROVE TypeOK'
  BY <1>5, CacheAssumption DEF ReadFails, Goto, Nothing
<1>6. ASSUME NEW h \in Handlers, Set(h) PROVE TypeOK'
  <2>1. query[h] \in Queries /\ got[h] \in Payload
    BY <1>6 DEF Set
  <2> QED
    BY <1>6, <2>1 DEF Set, Goto
<1>7. ASSUME NEW h \in Handlers, Respond(h) PROVE TypeOK'
  BY <1>7, CacheAssumption DEF Respond, Goto, Nothing
<1>8. ASSUME NEW s \in Sinces, Change(s) PROVE TypeOK'
  BY <1>8, CacheAssumption DEF Change
<1>9. ASSUME NEW s \in Sinces, Invalidate(s) PROVE TypeOK'
  BY <1>9 DEF Invalidate, Invalidated
<1>10. CASE Tick
  <2>1. \A e \in Payload : /\ [e EXCEPT !.age = Older(@), !.lag = Older(@)] \in Payload
                           /\ [e EXCEPT !.lag = Older(@)] \in Payload
    BY OlderFacts DEF Payload
  <2>2. items' \in [CacheKeys -> Payload \cup {NoEntry}]
    BY <1>10, <2>1 DEF Tick
  <2>3. /\ got' \in [Handlers -> Payload \cup {NoEntry}]
        /\ \A h \in Handlers : got'[h] = NoEntry <=> got[h] = NoEntry
    <3>1. ASSUME NEW h \in Handlers
          PROVE  /\ pc[h] = "set" => got[h] \in Payload /\ got'[h] \in Payload
                 /\ pc[h] # "set" => got'[h] = got[h]
      BY <1>10, <2>1 DEF Tick
    <3>2. got' = [h \in Handlers |-> got'[h]]
      BY <1>10 DEF Tick
    <3> QED
      BY <3>1, <3>2
  <2> QED
    BY <1>10, <2>2, <2>3 DEF Tick
<1>11. CASE UNCHANGED vars
  BY <1>11 DEF vars
<1> QED
  BY <1>1, <1>2, <1>3, <1>4, <1>5, <1>6, <1>7, <1>8, <1>9, <1>10, <1>11 DEF Next, Handle

(* Type correctness of the cache and its readers.                          *)
THEOREM CacheTyping == Spec => []TypeOK
  BY CacheTypeInit, CacheTypeStep, PTL DEF Spec

----------------------------------------------------------------------------
(***************************************************************************)
(* How old an answer may be.                                               *)
(***************************************************************************)
(* Nothing has an age at first.                                            *)
LEMMA LagInit == Init => LagOK
  BY DEF Init, LagOK, LagIsBounded

(* Every step keeps what is cached or on its way young enough.             *)
LEMMA LagStep == TypeOK /\ LagOK /\ [Next]_vars => LagOK'
<1> SUFFICES ASSUME TypeOK, LagOK, [Next]_vars PROVE LagOK'
  OBVIOUS
<1>types. /\ \A h \in Handlers : pc[h] # "idle" => query[h] \in Queries
          /\ \A h \in Handlers : pc[h] \in {"set", "respond"} => got[h] \in Payload
          /\ \A k \in CacheKeys : items[k] # NoEntry => items[k] \in Payload
          /\ \A e \in Payload : e.age \in 0..Horizon /\ e.lag \in 0..Horizon
          /\ MaxSpan \in Nat /\ \A s \in Sinces : TTL[s] \in Nat
  BY CacheAssumption, RequestFacts DEF TypeOK, Payload
<1> USE RequestFacts DEF LagOK, LagIsBounded
<1>1. ASSUME NEW h \in Handlers, Ask(h) PROVE LagOK'
  BY <1>1 DEF Ask, Goto, TypeOK
<1>2. ASSUME NEW h \in Handlers, Hit(h) PROVE LagOK'
  <2>1. items[CacheKey(query[h])].lag <= TTL[query[h].since] + MaxSpan
    BY <1>2, <1>types, OlderFacts DEF Hit, Valid
  <2> QED
    BY <1>2, <2>1 DEF Hit, Goto, TypeOK
<1>3. ASSUME NEW h \in Handlers, Miss(h) PROVE LagOK'
  BY <1>3 DEF Miss, Goto, TypeOK
<1>4. ASSUME NEW h \in Handlers, Read(h) PROVE LagOK'
  BY <1>4, <1>types DEF Read, Goto, TypeOK
<1>5. ASSUME NEW h \in Handlers, ReadFails(h) PROVE LagOK'
  BY <1>5 DEF ReadFails, Goto, TypeOK
<1>6. ASSUME NEW h \in Handlers, Set(h) PROVE LagOK'
  <2>1. got[h].lag <= TTL[query[h].since] + MaxSpan
    BY <1>6, <1>types, OlderFacts DEF Set
  <2>2. got[h].lag <= got[h].age + MaxSpan
    BY <1>6, <1>types DEF Set
  <2> QED
    BY <1>6, <2>1, <2>2 DEF Set, Goto, TypeOK
<1>7. ASSUME NEW h \in Handlers, Respond(h) PROVE LagOK'
  BY <1>7 DEF Respond, Goto, TypeOK
<1>8. ASSUME NEW s \in Sinces, Change(s) PROVE LagOK'
  BY <1>8 DEF Change
<1>9. ASSUME NEW s \in Sinces, Invalidate(s) PROVE LagOK'
  BY <1>9 DEF Invalidate, Invalidated
<1>10. CASE Tick
  <2>1. ASSUME NEW k \in CacheKeys, items'[k] # NoEntry
        PROVE  items'[k].lag <= items'[k].age + MaxSpan
    <3>1. items[k] \in Payload /\ items[k].lag <= items[k].age + MaxSpan
      BY <1>10, <1>types, <2>1 DEF Tick
    <3>2. items'[k].lag = Older(items[k].lag) /\ items'[k].age = Older(items[k].age)
      BY <1>10, <3>1 DEF Tick, Payload
    <3> QED
      BY <1>types, <3>1, <3>2, OlderFacts
  <2>2. ASSUME NEW h \in Handlers, pc[h] = "set"
        PROVE  got'[h].lag <= MaxSpan /\ got'[h].age = 0
    <3>1. got[h] \in Payload /\ got[h].lag < MaxSpan /\ got[h].age = 0
      BY <1>10, <1>types, <2>2 DEF Tick
    <3>2. got'[h].lag = Older(got[h].lag) /\ got'[h].age = got[h].age
      BY <1>10, <2>2, <3>1 DEF Tick, Payload
    <3>3. got[h].lag \in 0..Horizon /\ Older(got[h].lag) \in Nat
          /\ Older(got[h].lag) <= got[h].lag + 1
      BY <1>types, <3>1, OlderFacts
    <3> QED
      BY <1>types, <3>1, <3>2, <3>3
  <2>3. \A h \in Handlers : pc[h] = "respond" => got'[h] = got[h]
    BY <1>10 DEF Tick
  <2> QED
    BY <1>10, <2>1, <2>2, <2>3 DEF Tick
<1>11. CASE UNCHANGED vars
  BY <1>11 DEF vars
<1> QED
  BY <1>1, <1>2, <1>3, <1>4, <1>5, <1>6, <1>7, <1>8, <1>9, <1>10, <1>11 DEF Next, Handle

(* No answer is older than the time to live of its period and one request, *)
(* however many handlers race for an entry (trending_cache.go, TTLFor).    *)
THEOREM LagBounded == Spec => []LagIsBounded
<1>1. LagOK => LagIsBounded
  BY DEF LagOK
<1> QED
  BY <1>1, CacheTypeInit, CacheTypeStep, LagInit, LagStep, PTL DEF Spec

----------------------------------------------------------------------------
(***************************************************************************)
(* What a request may rely on after an invalidation.                       *)
(***************************************************************************)
(* Nothing is owed at first.                                               *)
LEMMA FirmInit == Init => FirmOK
  BY CacheAssumption DEF Init, FirmOK, FreshAfterQuietInvalidate

(* No step puts less into the cache than a quiet invalidation left.        *)
LEMMA FirmStep == TypeOK /\ FirmOK /\ [Next]_vars => FirmOK'
<1> SUFFICES ASSUME TypeOK, FirmOK, [Next]_vars PROVE FirmOK'
  OBVIOUS
<1>types. /\ \A h \in Handlers : pc[h] # "idle" => query[h] \in Queries
          /\ \A h \in Handlers : pc[h] \in {"set", "respond"} => got[h] \in Payload
          /\ \A k \in CacheKeys : items[k] # NoEntry => items[k] \in Payload
          /\ \A e \in Payload : e.version \in Nat
          /\ \A s \in Sinces : version[s] \in Nat /\ firm[s] \in Nat
          /\ \A h \in Handlers : owed[h].firm \in Nat
  BY CacheAssumption, RequestFacts DEF TypeOK, Payload
<1> USE RequestFacts DEF FirmOK, FreshAfterQuietInvalidate
<1>1. ASSUME NEW h \in Handlers, Ask(h) PROVE FirmOK'
  BY <1>1, <1>types DEF Ask, Goto, TypeOK
<1>2. ASSUME NEW h \in Handlers, Hit(h) PROVE FirmOK'
  <2>1. items[CacheKey(query[h])].version >= owed[h].firm
    BY <1>2, <1>types DEF Hit, Valid, TypeOK
  <2> QED
    BY <1>2, <2>1 DEF Hit, Goto, TypeOK
<1>3. ASSUME NEW h \in Handlers, Miss(h) PROVE FirmOK'
  BY <1>3 DEF Miss, Goto, TypeOK
<1>4. ASSUME NEW h \in Handlers, Read(h) PROVE FirmOK'
  BY <1>4, <1>types DEF Read, Goto, TypeOK
<1>5. ASSUME NEW h \in Handlers, ReadFails(h) PROVE FirmOK'
  BY <1>5 DEF ReadFails, Goto, TypeOK
<1>6. ASSUME NEW h \in Handlers, Set(h) PROVE FirmOK'
  <2>1. got[h].version >= owed[h].firm
    BY <1>6, <1>types DEF Set, TypeOK
  <2> QED
    BY <1>6, <1>types, <2>1 DEF Set, Goto, TypeOK
<1>7. ASSUME NEW h \in Handlers, Respond(h) PROVE FirmOK'
  BY <1>7 DEF Respond, Goto, TypeOK
<1>8. ASSUME NEW s \in Sinces, Change(s) PROVE FirmOK'
  BY <1>8, <1>types DEF Change, TypeOK
<1>9. ASSUME NEW s \in Sinces, Invalidate(s) PROVE FirmOK'
  <2>1. \A u \in Sinces : /\ firm'[u] \in Nat
                           /\ firm[u] <= firm'[u] /\ firm'[u] <= version[u]
    BY <1>9, <1>types DEF Invalidate, TypeOK
  <2>2. \A u \in Sinces : u # s => firm'[u] = firm[u]
    BY <1>9 DEF Invalidate, TypeOK
  <2>3. \A h \in Handlers : pc[h] = "set" => firm'[query[h].since] = firm[query[h].since]
    BY <1>9, <1>types, <2>2 DEF Invalidate, Straddled
  <2>4. \A k \in CacheKeys : items'[k] # NoEntry => items'[k] = items[k] /\ KeySince(k) # s
    BY <1>9 DEF Invalidate, Invalidated
  <2>5. \A h \in Handlers : query[h] # NoQuery => owed[h].firm <= firm'[query[h].since]
    <3> SUFFICES ASSUME NEW h \in Handlers, query[h] # NoQuery
                 PROVE  owed[h].firm <= firm'[query[h].since]
      OBVIOUS
    <3>1. query[h].since \in Sinces /\ owed[h].firm <= firm[query[h].since]
      BY DEF TypeOK
    <3> QED
      BY <1>types, <2>1, <3>1
  <2>6. version' = version /\ pc' = pc /\ query' = query /\ got' = got /\ owed' = owed
    BY <1>9 DEF Invalidate
  <2>7. \A k \in CacheKeys : items'[k] # NoEntry => items'[k].version >= firm'[KeySince(k)]
    BY <2>2, <2>4
  <2>8. \A h \in Handlers : pc'[h] = "set" => got'[h].version >= firm'[query'[h].since]
    <3>1. \A h \in Handlers : pc[h] = "set" => got[h].version >= firm[query[h].since]
      BY DEF FirmOK
    <3> QED
      BY <2>3, <2>6, <3>1
  <2>9. FreshAfterQuietInvalidate'
    BY <2>6
  <2>10. \A h \in Handlers : query'[h] # NoQuery => owed'[h].firm <= firm'[query'[h].since]
    BY <2>5, <2>6
  <2> QED
    BY <2>1, <2>6, <2>7, <2>8, <2>9, <2>10
<1>10. CASE Tick
  <2>1. ASSUME NEW k \in CacheKeys, items'[k] # NoEntry
        PROVE  items[k] # NoEntry /\ items'[k].version = items[k].version
    BY <1>10, <1>types, <2>1 DEF Tick, Payload
  <2>2. ASSUME NEW h \in Handlers, pc[h] \in {"set", "respond"}
        PROVE  got'[h].version = got[h].version
    BY <1>10, <1>types, <2>2 DEF Tick, Payload
  <2> QED
    BY <1>10, <2>1, <2>2 DEF Tick
<1>11. CASE UNCHANGED vars
  BY <1>11 DEF vars
<1> QED
  BY <1>1, <1>2, <1>3, <1>4, <1>5, <1>6, <1>7, <1>8, <1>9, <1>10, <1>11 DEF Next, Handle

(* Once a sync has invalidated its period with no reader between its read  *)
(* and its Set, no later request is answered with less than the sync left. *)
THEOREM QuietInvalidateHolds == Spec => []FreshAfterQuietInvalidate
<1>1. FirmOK => FreshAfterQuietInvalidate
  BY DEF FirmOK
<1> QED
  BY <1>1, CacheTypeInit, CacheTypeStep, FirmInit, FirmStep, PTL DEF Spec

=============================================================================
