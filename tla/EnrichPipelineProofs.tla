------------------------ MODULE EnrichPipelineProofs ------------------------
(***************************************************************************)
(* Theorems about EnrichPipeline, for every number of repos, periods,      *)
(* workers and tasks, with crashes, store faults and forced enrichment.    *)
(***************************************************************************)
EXTENDS EnrichPipeline, TrendingStoreProofs, SequenceTheorems

(***************************************************************************)
(* Where processes may be: workers are always in the enricher, a task      *)
(* outside "jobs" has a current job, and only a sync has the sync labels.  *)
(* A process holds a snapshot exactly at the labels between tryAcquire and *)
(* release.                                                                *)
(***************************************************************************)
LabelsOK ==
  /\ \A w \in Workers : pc[w] \in EnrichLabels
  /\ \A g \in Tasks : pc[g] # "jobs" => todo[g] # <<>>
  /\ \A g \in Tasks : pc[g] \in SyncLabels => Head(todo[g]) \in Sinces
  /\ \A p \in Processes : cur[p] \in Snapshot <=> Holding(p)

TypeInv == TypeOK /\ LabelsOK

----------------------------------------------------------------------------
(* The current job of a task, and the plan without it.                     *)
LEMMA CurrentJob ==
  ASSUME TypeOK, NEW g \in Tasks, todo[g] # <<>>
  PROVE  /\ Head(todo[g]) \in Jobs
         /\ Tail(todo[g]) \in Seq(Jobs)
  BY HeadTailProperties DEF TypeOK

(* A job that is not a sweep is a period.                                  *)
LEMMA SyncJob ==
  ASSUME TypeOK, NEW g \in Tasks, todo[g] # <<>>, Head(todo[g]) # Sweep
  PROVE  Head(todo[g]) \in Sinces
  BY CurrentJob DEF Jobs

(* What a row looks like to the process that fetches it.                   *)
LEMMA SnapshotType ==
  ASSUME TypeOK, NEW k \in Pending(rows)
  PROVE  SnapshotOf(k) \in Snapshot
<1>1. k \in Keys /\ Stored(rows, k) /\ rows \in Table
  BY DEF Pending, Available, TypeOK
<1>2. rows[k].language \in Language /\ rows[k].priority \in Priorities
  BY <1>1, StoredRow
<1> QED
  BY <1>1, <1>2 DEF SnapshotOf, Snapshot

(* NoRepo is no snapshot, and the answers that are errors are no language. *)
LEMMA NoRepoIsNoSnapshot == NoRepo \notin Snapshot
  BY PipelineAssumption DEF Snapshot

----------------------------------------------------------------------------
(***************************************************************************)
(* Two tables that differ at most in their priorities.                     *)
(***************************************************************************)
SameButPriority(t, u) ==
  \A k \in Keys : /\ Stored(u, k) <=> Stored(t, k)
                  /\ Stored(t, k) => /\ u[k].enriched = t[k].enriched
                                     /\ u[k].available = t[k].available
                                     /\ u[k].language = t[k].language

(* RecomputePriorities, every statement of it, with or without a fault.    *)
LEMMA RecomputeStep ==
  ASSUME TypeInv, NEW g \in Tasks,
         RecomputeZero(g) \/ RecomputeTop(g) \/ RecomputeNext(g) \/ RecomputeRest(g)
  PROVE  rows' \in Table /\ SameButPriority(rows, rows')
<1>1. rows \in Table
  BY DEF TypeInv, TypeOK
<1>2. {0, 10, 50, 100} \subseteq Priorities
  BY DEF Priorities
<1>3. CASE UNCHANGED rows
  BY <1>1, <1>3 DEF SameButPriority
<1>4. ASSUME NEW K \in SUBSET Keys, NEW prio \in Priorities,
             \A k \in K : Stored(rows, k), rows' = SetPriority(rows, K, prio)
      PROVE  rows' \in Table /\ SameButPriority(rows, rows')
  BY <1>1, <1>4, PriorityRows DEF SameButPriority
<1>5. CASE RecomputeZero(g)
  BY <1>2, <1>3, <1>4, <1>5 DEF RecomputeZero, ZeroPriorities, InSince
<1>6. CASE RecomputeTop(g)
  BY <1>2, <1>3, <1>4, <1>6 DEF RecomputeTop, PromoteTop, Promotions, InSince
<1>7. CASE RecomputeNext(g)
  BY <1>2, <1>3, <1>4, <1>7 DEF RecomputeNext, PromoteNext, Promotions, InSince
<1>8. CASE RecomputeRest(g)
  BY <1>2, <1>3, <1>4, <1>8 DEF RecomputeRest, RestPriorities, InSince
<1> QED
  BY <1>5, <1>6, <1>7, <1>8

----------------------------------------------------------------------------
(* Steps of the enricher keep the types and the labels.                    *)
LEMMA EnrichKeepsTypes ==
  ASSUME TypeInv, NEW p \in Processes, Enrich(p)
  PROVE  TypeInv'
<1> USE DEF TypeInv, TypeOK, LabelsOK, Holding, At, Goto, Processes,
            TaskVars, EnricherVars, HoldLabels, EnrichLabels, SyncLabels
<1>1. CASE Fetch(p)
  <2>1. \A k \in Pending(rows) : SnapshotOf(k) \in Snapshot
    BY SnapshotType
  <2>2. batch' \in [Processes -> SUBSET Snapshot]
    BY <1>1, <2>1 DEF Fetch, GetUnenrichedRepos
  <2> QED
    BY <1>1, <2>2 DEF Fetch
<1>2. CASE Take(p)
  <2>1. PICK snap \in Foremost(p) :
          /\ batch' = [batch EXCEPT ![p] = @ \ {snap}]
          /\ Acquire(p, snap) \/ Busy(snap)
    BY <1>2 DEF Take
  <2>2. snap \in Snapshot
    BY DEF Foremost
  <2>3. CASE Acquire(p, snap)
    BY <1>2, <2>1, <2>2, <2>3 DEF Take, Acquire, Snapshot
  <2>4. CASE Busy(snap)
    BY <1>2, <2>1, <2>4 DEF Take, Busy
  <2> QED
    BY <2>1, <2>3, <2>4
<1>3. CASE EndBatch(p)
  BY <1>3 DEF EndBatch
<1>4. CASE Reply(p)
  <2>1. cur[p] \in Snapshot
    BY <1>4 DEF Reply
  <2>2. cur[p].key[1] \in Repos
    BY <2>1 DEF Snapshot, Keys
  <2>3. Answers[cur[p].key[1]] \ {Failure} \subseteq Language \cup {NotFound}
    BY <2>2, PipelineAssumption
  <2>4. answer' \in [Processes -> Language \cup {NotFound}]
    BY <1>4, <2>3 DEF Reply
  <2> QED
    BY <1>4, <2>4 DEF Reply
<1>5. CASE Fail(p)
  BY <1>5 DEF Fail
<1>6. CASE Write(p)
  <2>1. cur[p] \in Snapshot /\ answer[p] \in Language \cup {NotFound}
    BY <1>6 DEF Write
  <2>2. cur[p].key \in Keys /\ cur[p].language \in Language
    BY <2>1 DEF Snapshot
  <2>3. Written(rows, cur[p], answer[p]) \in Table
    <3>1. CASE answer[p] = NotFound
      BY <2>2, <3>1, UnavailableRow DEF Written
    <3>2. CASE answer[p] # NotFound
      BY <2>1, <2>2, <3>2, EnrichedRow, CoalesceType DEF Written
    <3> QED
      BY <3>1, <3>2
  <2> QED
    BY <1>6, <2>3 DEF Write
<1>7. CASE Release(p)
  <2>1. NoLang \in Language
    BY DEF Language
  <2> QED
    BY <1>7, <2>1, NoRepoIsNoSnapshot DEF Release
<1> QED
  BY <1>1, <1>2, <1>3, <1>4, <1>5, <1>6, <1>7 DEF Enrich

(* Steps of a task keep the types and the labels.                          *)
LEMMA SyncKeepsTypes ==
  ASSUME TypeInv, NEW g \in Tasks, Sync(g)
  PROVE  TypeInv'
<1>1. g \notin Workers /\ g \in Processes
  BY PipelineAssumption DEF Processes
<1>2. todo[g] # <<>> => Head(todo[g]) \in Jobs /\ Tail(todo[g]) \in Seq(Jobs)
  BY CurrentJob DEF TypeInv
<1>3. todo[g] # <<>> /\ Head(todo[g]) # Sweep => Head(todo[g]) \in Sinces
  BY SyncJob DEF TypeInv
<1> USE DEF TypeInv, TypeOK, LabelsOK, Holding, At, Goto, Processes,
            TaskVars, EnricherVars, HoldLabels, EnrichLabels, SyncLabels
<1>4. CASE BeginSync(g)
  <2>1. page' \in [Tasks -> SUBSET (Repos \X Language)]
    <3>1. PICK items \in Pages : page' = [page EXCEPT ![g] = items]
      BY <1>4 DEF BeginSync
    <3>2. items \in SUBSET (Repos \X Language)
      BY PipelineAssumption DEF Language
    <3> QED
      BY <3>1, <3>2
  <2> QED
    BY <1>1, <1>3, <1>4, <2>1 DEF BeginSync
<1>5. CASE SkipSync(g)
  BY <1>1, <1>2, <1>5 DEF SkipSync
<1>6. CASE Upsert(g)
  <2>1. Head(todo[g]) \in Sinces
    BY <1>6 DEF Upsert
  <2>2. \A item \in page[g] :
          UpsertRepo(rows, <<item[1], Head(todo[g])>>, item[2]) \in Table
    BY <2>1, UpsertRow DEF Keys
  <2> QED
    BY <1>1, <1>6, <2>2 DEF Upsert
<1>7. CASE EndUpserts(g)
  BY <1>1, <1>7 DEF EndUpserts
<1>8. CASE RecomputeZero(g) \/ RecomputeTop(g) \/ RecomputeNext(g) \/ RecomputeRest(g)
  <2>1. rows' \in Table
    BY <1>8, RecomputeStep
  <2> QED
    BY <1>1, <1>8, <2>1 DEF RecomputeZero, RecomputeTop, RecomputeNext, RecomputeRest
<1>9. CASE Invalidate(g)
  BY <1>1, <1>9 DEF Invalidate
<1>10. CASE Unlock(g)
  BY <1>1, <1>2, <1>10 DEF Unlock
<1>11. CASE BeginSweep(g)
  BY <1>1, <1>11 DEF BeginSweep
<1>12. CASE EndSweep(g)
  BY <1>1, <1>2, <1>3, <1>12 DEF EndSweep
<1> QED
  BY <1>4, <1>5, <1>6, <1>7, <1>8, <1>9, <1>10, <1>11, <1>12 DEF Sync

\* A program that has just started on some table.
Started ==
  /\ rows \in Table /\ crashes \in 0..MaxCrashes
  /\ inflight = {} /\ running = {}
  /\ pc     = StartLabel
  /\ todo   = [g \in Tasks |-> <<>>]
  /\ page   = [g \in Tasks |-> {}]
  /\ batch  = [p \in Processes |-> {}]
  /\ cur    = [p \in Processes |-> NoRepo]
  /\ answer = [p \in Processes |-> NoLang]

(* A program that has just started has the types.                          *)
LEMMA StartHasTypes == Started => TypeInv
<1> SUFFICES ASSUME Started PROVE TypeInv
  OBVIOUS
<1>1. <<>> \in Seq(Jobs) /\ NoLang \in Language
  BY DEF Language
<1>2. TypeOK
  BY <1>1 DEF Started, TypeOK, StartLabel, EnrichLabels
<1>3. LabelsOK
  BY PipelineAssumption, NoRepoIsNoSnapshot
     DEF Started, LabelsOK, StartLabel, EnrichLabels, SyncLabels, HoldLabels, Holding, Processes
<1> QED
  BY <1>2, <1>3 DEF TypeInv

(* The same of the state after a crash.                                    *)
LEMMA StartsTyped == Started' => TypeInv'
  BY StartHasTypes, PTL

(* A program that starts for the first time has the types.                 *)
LEMMA TypeInit == Init => TypeInv
<1> SUFFICES ASSUME Init PROVE TypeInv
  OBVIOUS
<1>1. rows \in Table /\ crashes \in 0..MaxCrashes
  BY PipelineAssumption DEF Init, Table
<1> QED
  BY <1>1, StartHasTypes DEF Init, Started

(* Every step of the program, a crash included, keeps TypeInv.             *)
LEMMA TypeStep == TypeInv /\ [Next]_vars => TypeInv'
<1> SUFFICES ASSUME TypeInv, [Next]_vars PROVE TypeInv'
  OBVIOUS
<1>1. CASE UNCHANGED vars
  BY <1>1 DEF TypeInv, TypeOK, LabelsOK, Holding, vars
<1>2. CASE \E p \in Processes : Enrich(p)
  BY <1>2, EnrichKeepsTypes
<1>3. CASE \E g \in Tasks : Sync(g)
  BY <1>3, SyncKeepsTypes
<1>4. ASSUME NEW g \in Tasks, Launch(g) PROVE TypeInv'
  <2>1. todo' \in [Tasks -> Seq(Jobs)]
    BY <1>4, PipelineAssumption DEF Launch, TypeInv, TypeOK, Jobs
  <2>2. pc[g] = "jobs" /\ UNCHANGED <<rows, inflight, running, pc, page, batch, cur, answer, crashes>>
    BY <1>4 DEF Launch, Idle, At, EnricherVars
  <2>3. \A h \in Tasks \ {g} : todo'[h] = todo[h]
    BY <1>4 DEF Launch, TypeInv, TypeOK
  <2> QED
    BY <2>1, <2>2, <2>3 DEF TypeInv, TypeOK, LabelsOK, Holding, SyncLabels
<1>5. ASSUME NEW g \in Tasks, ForceEnrich(g) PROVE TypeInv'
  <2>1. <<Sweep>> \in Seq(Jobs)
    BY DEF Jobs
  <2>2. todo' \in [Tasks -> Seq(Jobs)] /\ \A h \in Tasks \ {g} : todo'[h] = todo[h]
    BY <1>5, <2>1 DEF ForceEnrich, TypeInv, TypeOK
  <2>3. pc[g] = "jobs" /\ UNCHANGED <<inflight, running, pc, page, batch, cur, answer, crashes>>
    BY <1>5 DEF ForceEnrich, Idle, At, EnricherVars
  <2>4. rows' \in Table
    BY <1>5, ResetRows DEF ForceEnrich, TypeInv, TypeOK
  <2> QED
    BY <2>2, <2>3, <2>4 DEF TypeInv, TypeOK, LabelsOK, Holding, SyncLabels
<1>6. CASE Crash
  <2>1. rows' \in Table /\ crashes' \in 0..MaxCrashes
    BY <1>6, PipelineAssumption DEF Crash, TypeInv, TypeOK
  <2>2. Started'
    BY <1>6, <2>1 DEF Crash, Started, StartLabel, Processes
  <2> QED
    BY <2>2, StartsTyped
<1> QED
  BY <1>1, <1>2, <1>3, <1>4, <1>5, <1>6 DEF Next

(* Type correctness: every variable keeps its type, whatever happens.      *)
THEOREM Typing == Spec => []TypeOK
<1>1. TypeInv => TypeOK
  BY DEF TypeInv
<1> QED
  BY <1>1, TypeInit, TypeStep, PTL DEF Spec

----------------------------------------------------------------------------
(***************************************************************************)
(* Mutual exclusion per key.                                               *)
(***************************************************************************)

(* Steps that change neither who holds what nor inflight keep it.          *)
LEMMA HoldersKept ==
  ASSUME OneHolderPerKey,
         inflight' = inflight,
         \A p \in Processes : Holding(p)' <=> Holding(p),
         \A p \in Processes : Holding(p) => cur'[p] = cur[p]
  PROVE  OneHolderPerKey'
  BY DEF OneHolderPerKey

(* Nobody else holds a key that is not in inflight, and a holder's key is. *)
LEMMA InflightHolders ==
  ASSUME OneHolderPerKey, NEW p \in Processes
  PROVE  Holding(p) => cur[p].key \in inflight
  BY DEF OneHolderPerKey

(* A step of the enricher keeps the holders apart: tryAcquire is the only  *)
(* one that adds one, and it looks into inflight first.                    *)
LEMMA EnrichKeepsHolders ==
  ASSUME TypeInv, OneHolderPerKey, NEW p \in Processes, Enrich(p)
  PROVE  OneHolderPerKey'
<1> USE DEF Holding, HoldLabels, At, Goto, EnricherVars
<1>1. pc \in [Processes -> {"jobs"} \cup SyncLabels \cup EnrichLabels]
      /\ cur \in [Processes -> Snapshot \cup {NoRepo}]
  BY DEF TypeInv, TypeOK
<1>2. CASE Fetch(p) \/ EndBatch(p) \/ Reply(p) \/ Fail(p) \/ Write(p)
  BY <1>1, <1>2, HoldersKept DEF Fetch, EndBatch, Reply, Fail, Write
<1>3. CASE Take(p)
  <2>1. PICK snap \in Foremost(p) : Acquire(p, snap) \/ Busy(snap)
    BY <1>3 DEF Take
  <2>2. CASE Acquire(p, snap)
    <3>1. /\ snap.key \notin inflight
          /\ inflight' = inflight \cup {snap.key}
          /\ Holding(p)' /\ cur'[p] = snap /\ ~ Holding(p)
      BY <1>1, <1>3, <2>2 DEF Take, Acquire
    <3>2. \A q \in Processes \ {p} : (Holding(q)' <=> Holding(q)) /\ cur'[q] = cur[q]
      BY <1>1, <2>2 DEF Acquire
    <3>3. \A q \in Processes \ {p} : Holding(q) => cur[q].key # snap.key
      BY <3>1, InflightHolders
    <3> HIDE DEF Holding
    <3>4. (\A q, r \in Processes : Holding(q) /\ Holding(r) /\ q # r => cur[q].key # cur[r].key)'
      BY <3>1, <3>2, <3>3 DEF OneHolderPerKey
    <3>5. (inflight = {cur[q].key : q \in {r \in Processes : Holding(r)}})'
      BY <3>1, <3>2 DEF OneHolderPerKey
    <3> QED
      BY <3>4, <3>5 DEF OneHolderPerKey
  <2>3. CASE Busy(snap)
    BY <2>3, HoldersKept DEF Busy
  <2> QED
    BY <2>1, <2>2, <2>3
<1>4. CASE Release(p)
  <2>1. /\ inflight' = inflight \ {cur[p].key}
        /\ Holding(p) /\ ~ Holding(p)'
    BY <1>1, <1>4 DEF Release
  <2>2. \A q \in Processes \ {p} : (Holding(q)' <=> Holding(q)) /\ cur'[q] = cur[q]
    BY <1>1, <1>4 DEF Release
  <2> HIDE DEF Holding
  <2>3. (\A q, r \in Processes : Holding(q) /\ Holding(r) /\ q # r => cur[q].key # cur[r].key)'
    BY <2>1, <2>2 DEF OneHolderPerKey
  <2>4. (inflight = {cur[q].key : q \in {r \in Processes : Holding(r)}})'
    BY <2>1, <2>2 DEF OneHolderPerKey
  <2> QED
    BY <2>3, <2>4 DEF OneHolderPerKey
<1> QED
  BY <1>2, <1>3, <1>4 DEF Enrich

(* A step of a sync changes neither the holders nor inflight.              *)
LEMMA SyncKeepsHolders ==
  ASSUME TypeInv, OneHolderPerKey, NEW g \in Tasks, Sync(g)
  PROVE  OneHolderPerKey'
<1> USE DEF Holding, HoldLabels, At, Goto, EnricherVars, Processes
<1>1. pc \in [Processes -> {"jobs"} \cup SyncLabels \cup EnrichLabels]
  BY DEF TypeInv, TypeOK
<1>2. CASE BeginSync(g) \/ SkipSync(g) \/ Upsert(g) \/ EndUpserts(g)
  BY <1>1, <1>2, HoldersKept DEF BeginSync, SkipSync, Upsert, EndUpserts
<1>3. CASE RecomputeZero(g) \/ RecomputeTop(g) \/ RecomputeNext(g) \/ RecomputeRest(g)
  BY <1>1, <1>3, HoldersKept
     DEF RecomputeZero, RecomputeTop, RecomputeNext, RecomputeRest
<1>4. CASE Invalidate(g) \/ Unlock(g) \/ BeginSweep(g) \/ EndSweep(g)
  BY <1>1, <1>4, HoldersKept DEF Invalidate, Unlock, BeginSweep, EndSweep
<1> QED
  BY <1>2, <1>3, <1>4 DEF Sync

(* At the start nobody holds a key.                                        *)
LEMMA HolderInit == Init => OneHolderPerKey
  BY DEF Init, OneHolderPerKey, Holding, HoldLabels, StartLabel

(* Every step of the program, a crash included, keeps the holders apart.   *)
LEMMA HolderStep == TypeInv /\ OneHolderPerKey /\ [Next]_vars => OneHolderPerKey'
<1> SUFFICES ASSUME TypeInv, OneHolderPerKey, [Next]_vars PROVE OneHolderPerKey'
  OBVIOUS
<1>1. CASE UNCHANGED vars
  BY <1>1, HoldersKept DEF vars, Holding
<1>2. CASE \E p \in Processes : Enrich(p)
  BY <1>2, EnrichKeepsHolders
<1>3. CASE \E g \in Tasks : Sync(g)
  BY <1>3, SyncKeepsHolders
<1>4. CASE \E g \in Tasks : Launch(g) \/ ForceEnrich(g)
  BY <1>4, HoldersKept DEF Launch, ForceEnrich, EnricherVars, Holding
<1>5. CASE Crash
  BY <1>5 DEF Crash, OneHolderPerKey, Holding, HoldLabels, StartLabel
<1> QED
  BY <1>1, <1>2, <1>3, <1>4, <1>5 DEF Next

(* No two goroutines enrich the same key at the same time, and inflight    *)
(* holds exactly the keys being enriched, so that none is blocked for good.*)
THEOREM HolderExclusion == Spec => []OneHolderPerKey
  BY TypeInit, TypeStep, HolderInit, HolderStep, PTL DEF Spec

----------------------------------------------------------------------------
(***************************************************************************)
(* Mutual exclusion per period.                                            *)
(***************************************************************************)

(* Steps that neither take nor give back a lock keep it.                   *)
LEMMA LocksKept ==
  ASSUME OneSyncPerPeriod,
         running' = running,
         \A g \in Tasks, s \in Sinces : InSync(g, s)' <=> InSync(g, s)
  PROVE  OneSyncPerPeriod'
  BY DEF OneSyncPerPeriod

(* A step of a sync keeps the locks: BeginSync takes one that nobody has,  *)
(* and Unlock gives back the one it has.                                   *)
LEMMA SyncKeepsLocks ==
  ASSUME TypeInv, OneSyncPerPeriod, NEW g \in Tasks, Sync(g)
  PROVE  OneSyncPerPeriod'
<1> DEFINE s0 == Head(todo[g])
<1>1. /\ pc \in [Processes -> {"jobs"} \cup SyncLabels \cup EnrichLabels]
      /\ todo \in [Tasks -> Seq(Jobs)]
      /\ Tasks \subseteq Processes
      /\ pc[g] # "jobs" => todo[g] # <<>>
      /\ Sweep \notin Sinces
      /\ todo[g] # <<>> /\ s0 # Sweep => s0 \in Sinces
  BY PipelineAssumption, SyncJob DEF TypeInv, TypeOK, LabelsOK, Processes
<1> USE DEF At, Goto, TaskVars
<1>2. CASE BeginSync(g)
  <2>1. /\ s0 \in Sinces \ running /\ running' = running \cup {s0}
        /\ \A s \in Sinces : ~ InSync(g, s) /\ (InSync(g, s)' <=> s = s0)
    BY <1>1, <1>2 DEF BeginSync, InSync
  <2>2. \A h \in Tasks \ {g}, s \in Sinces : InSync(h, s)' <=> InSync(h, s)
    BY <1>1, <1>2 DEF BeginSync, InSync
  <2> HIDE DEF s0
  <2> QED
    BY <2>1, <2>2 DEF OneSyncPerPeriod
<1>3. CASE Unlock(g)
  <2>1. /\ s0 \in Sinces /\ running' = running \ {s0}
        /\ \A s \in Sinces : (InSync(g, s) <=> s = s0) /\ ~ InSync(g, s)'
    BY <1>1, <1>3 DEF Unlock, InSync, TypeInv, LabelsOK, SyncLabels
  <2>2. \A h \in Tasks \ {g}, s \in Sinces : InSync(h, s)' <=> InSync(h, s)
    BY <1>1, <1>3 DEF Unlock, InSync
  <2> HIDE DEF s0
  <2> QED
    BY <2>1, <2>2 DEF OneSyncPerPeriod
<1>4. CASE SkipSync(g) \/ Upsert(g) \/ EndUpserts(g)
  BY <1>1, <1>4, LocksKept DEF SkipSync, Upsert, EndUpserts, InSync
<1>5. CASE RecomputeZero(g) \/ RecomputeTop(g) \/ RecomputeNext(g) \/ RecomputeRest(g)
  BY <1>1, <1>5, LocksKept
     DEF RecomputeZero, RecomputeTop, RecomputeNext, RecomputeRest, InSync
<1>6. CASE Invalidate(g) \/ BeginSweep(g) \/ EndSweep(g)
  BY <1>1, <1>6, LocksKept DEF Invalidate, BeginSweep, EndSweep, InSync
<1> QED
  BY <1>2, <1>3, <1>4, <1>5, <1>6 DEF Sync

(* A step of the enricher neither takes nor gives back a lock.             *)
LEMMA EnrichKeepsLocks ==
  ASSUME TypeInv, OneSyncPerPeriod, NEW p \in Processes, Enrich(p)
  PROVE  OneSyncPerPeriod'
<1>1. pc \in [Processes -> {"jobs"} \cup SyncLabels \cup EnrichLabels]
  BY DEF TypeInv, TypeOK
<1>2. pc[p] # "jobs" /\ pc'[p] # "jobs" /\ running' = running /\ todo' = todo
      /\ \A q \in Processes \ {p} : pc'[q] = pc[q]
  BY <1>1 DEF Enrich, Fetch, Take, Acquire, Busy, EndBatch, Reply, Fail, Write, Release,
              At, Goto, TaskVars
<1>3. Tasks \subseteq Processes
  BY DEF Processes
<1> QED
  BY <1>2, <1>3, LocksKept DEF InSync, At

(* At the start no period is locked.                                       *)
LEMMA LockInit == Init => OneSyncPerPeriod
  BY DEF Init, OneSyncPerPeriod, InSync

(* Every step of the program, a crash included, keeps the locks.           *)
LEMMA LockStep == TypeInv /\ OneSyncPerPeriod /\ [Next]_vars => OneSyncPerPeriod'
<1> SUFFICES ASSUME TypeInv, OneSyncPerPeriod, [Next]_vars PROVE OneSyncPerPeriod'
  OBVIOUS
<1>1. CASE UNCHANGED vars
  BY <1>1, LocksKept DEF vars, InSync, At
<1>2. CASE \E p \in Processes : Enrich(p)
  BY <1>2, EnrichKeepsLocks
<1>3. CASE \E g \in Tasks : Sync(g)
  BY <1>3, SyncKeepsLocks
<1>4. ASSUME NEW g \in Tasks, Launch(g) \/ ForceEnrich(g) PROVE OneSyncPerPeriod'
  <2>1. /\ pc[g] = "jobs" /\ pc' = pc /\ running' = running
        /\ \A h \in Tasks \ {g} : todo'[h] = todo[h]
    BY <1>4 DEF Launch, ForceEnrich, Idle, At, TypeInv, TypeOK
  <2> QED
    BY <2>1, LocksKept DEF InSync, At
<1>5. CASE Crash
  BY <1>5 DEF Crash, OneSyncPerPeriod, InSync
<1> QED
  BY <1>1, <1>2, <1>3, <1>4, <1>5 DEF Next

(* At most one goroutine syncs a period, and a period is marked running    *)
(* exactly while one does, so that tryLock neither lets two in nor locks   *)
(* later syncs out.                                                        *)
THEOREM SyncExclusion == Spec => []OneSyncPerPeriod
  BY TypeInit, TypeStep, LockInit, LockStep, PTL DEF Spec

----------------------------------------------------------------------------
(***************************************************************************)
(* What a step does to the table.                                          *)
(***************************************************************************)
\* Process p writes what GitHub has answered, or the language of its snapshot.
WritesBy(p) ==
  LET lang == Coalesce(answer[p], cur[p].language)
  IN  /\ cur[p] \in Snapshot /\ cur[p].key \in Keys /\ lang \in Language
      /\ Write(p)
      /\ rows' = UpdateEnriched(rows, cur[p].key, lang)

(* A step leaves everything but priorities alone, or it is one of the      *)
(* four other statements on the table: an upsert by a task in its period,  *)
(* the two writes of the enricher, and the reset.                          *)
LEMMA TableSteps ==
  ASSUME TypeInv, [Next]_vars
  PROVE  \/ SameButPriority(rows, rows')
         \/ \E g \in Tasks, k \in Keys, lang \in Language :
              /\ pc[g] = "upsert" /\ SinceOf(k) = Head(todo[g])
              /\ <<k[1], lang>> \in page[g]
              /\ rows' = UpsertRepo(rows, k, lang)
         \/ \E p \in Processes : WritesBy(p)
         \/ \E k \in Keys : rows' = MarkUnavailable(rows, k)
         \/ AllowForce /\ rows' = ResetAllEnriched(rows)
<1>1. CASE UNCHANGED rows
  BY <1>1 DEF SameButPriority
<1>2. CASE UNCHANGED vars
  BY <1>1, <1>2 DEF vars
<1>3. ASSUME NEW p \in Processes, Fetch(p) \/ Take(p) \/ EndBatch(p) \/ Reply(p) \/ Fail(p) \/ Release(p)
      PROVE  UNCHANGED rows
  BY <1>3 DEF Fetch, Take, EndBatch, Reply, Fail, Release
<1>4. ASSUME NEW p \in Processes, Write(p), ~ UNCHANGED rows
      PROVE  \/ WritesBy(p)
             \/ \E k \in Keys : rows' = MarkUnavailable(rows, k)
  <2>1. rows' = Written(rows, cur[p], answer[p])
    BY <1>4 DEF Write
  <2>2. cur[p] \in Snapshot /\ answer[p] \in Language \cup {NotFound}
    BY <1>4 DEF Write, At, TypeInv, TypeOK, LabelsOK, Holding, HoldLabels
  <2>3. cur[p].key \in Keys /\ cur[p].language \in Language
    BY <2>2 DEF Snapshot
  <2>4. answer[p] # NotFound => Coalesce(answer[p], cur[p].language) \in Language
    BY <2>2, <2>3, CoalesceType
  <2> QED
    BY <1>4, <2>1, <2>2, <2>3, <2>4 DEF Written, WritesBy
<1>5. ASSUME NEW g \in Tasks,
             \/ BeginSync(g) \/ SkipSync(g) \/ EndUpserts(g) \/ Invalidate(g)
             \/ Unlock(g) \/ BeginSweep(g) \/ EndSweep(g) \/ Launch(g)
      PROVE  UNCHANGED rows
  BY <1>5 DEF BeginSync, SkipSync, EndUpserts, Invalidate, Unlock, BeginSweep, EndSweep, Launch
<1>6. ASSUME NEW g \in Tasks, Upsert(g), ~ UNCHANGED rows
      PROVE  \E k \in Keys, lang \in Language :
               /\ pc[g] = "upsert" /\ SinceOf(k) = Head(todo[g])
               /\ <<k[1], lang>> \in page[g]
               /\ rows' = UpsertRepo(rows, k, lang)
  <2>1. PICK item \in page[g] : rows' = UpsertRepo(rows, <<item[1], Head(todo[g])>>, item[2])
    BY <1>6 DEF Upsert
  <2>2. pc[g] = "upsert" /\ Head(todo[g]) \in Sinces
    BY <1>6 DEF Upsert, At, TypeInv, LabelsOK, SyncLabels
  <2>3. item[1] \in Repos /\ item[2] \in Language
    BY DEF TypeInv, TypeOK
  <2>4. <<item[1], Head(todo[g])>> \in Keys /\ SinceOf(<<item[1], Head(todo[g])>>) = Head(todo[g])
    BY <2>2, <2>3 DEF Keys, SinceOf
  <2>5. <<item[1], item[2]>> = item
    BY DEF TypeInv, TypeOK
  <2> QED
    BY <2>1, <2>2, <2>3, <2>4, <2>5
<1>7. ASSUME NEW g \in Tasks,
             RecomputeZero(g) \/ RecomputeTop(g) \/ RecomputeNext(g) \/ RecomputeRest(g)
      PROVE  SameButPriority(rows, rows')
  BY <1>7, RecomputeStep
<1>8. ASSUME NEW g \in Tasks, ForceEnrich(g)
      PROVE  AllowForce /\ rows' = ResetAllEnriched(rows)
  BY <1>8 DEF ForceEnrich
<1>9. CASE Crash
  BY <1>1, <1>9 DEF Crash
<1> QED
  BY <1>1, <1>2, <1>3, <1>4, <1>5, <1>6, <1>7, <1>8, <1>9 DEF Next, Enrich, Sync

----------------------------------------------------------------------------
(***************************************************************************)
(* A language, once stored, is erased only by the '' of an old snapshot.   *)
(***************************************************************************)
LanguageKept ==
  \A k \in Keys :
    HasLanguage(rows, k) => HasLanguage(rows', k) \/ \E p \in Processes : WritesBlank(p, k)

(* COALESCE of a name and anything, or of a name or NULL and a name, is a  *)
(* name.                                                                   *)
LEMMA CoalesceNames ==
  ASSUME NEW a \in Language, NEW b \in Language
  PROVE  /\ a # Empty /\ b \in Langs => Coalesce(a, b) \in Langs
         /\ Coalesce(NullIf(a), b) \in Langs \/ b \notin Langs
         /\ Coalesce(a, b) = NoLang => b = NoLang
  BY StoreAssumption DEF Coalesce, NullIf, Language

(* No step loses a language, but for a write of ''.                        *)
LEMMA LanguageStep == TypeInv /\ [Next]_vars => LanguageKept
<1> SUFFICES ASSUME TypeInv, [Next]_vars, NEW k \in Keys, HasLanguage(rows, k)
             PROVE  HasLanguage(rows', k) \/ \E p \in Processes : WritesBlank(p, k)
  BY DEF LanguageKept
<1>1. rows \in Table /\ Stored(rows, k) /\ rows[k].language \in Langs
      /\ rows[k].language \in Language
  BY DEF TypeInv, TypeOK, HasLanguage, Language
<1>2. CASE SameButPriority(rows, rows')
  BY <1>1, <1>2 DEF SameButPriority, HasLanguage
<1>3. ASSUME NEW j \in Keys, NEW lang \in Language, rows' = UpsertRepo(rows, j, lang)
      PROVE  HasLanguage(rows', k)
  <2>1. CASE k = j
    BY <1>1, <1>3, <2>1, UpsertRow, CoalesceNames DEF HasLanguage
  <2>2. CASE k # j
    BY <1>1, <1>3, <2>2, UpsertRow DEF HasLanguage, Stored
  <2> QED
    BY <2>1, <2>2
<1>4. ASSUME NEW p \in Processes, WritesBy(p)
      PROVE  HasLanguage(rows', k) \/ WritesBlank(p, k)
  <2> DEFINE j == cur[p].key
             lang == Coalesce(answer[p], cur[p].language)
  <2>1. j \in Keys /\ lang \in Language /\ Write(p) /\ rows' = UpdateEnriched(rows, j, lang)
    BY <1>4 DEF WritesBy
  <2>2. CASE k # j
    BY <1>1, <2>1, <2>2, EnrichedRow DEF HasLanguage, Stored
  <2>3. CASE k = j /\ lang = Empty
    BY <2>1, <2>3 DEF WritesBlank
  <2>4. CASE k = j /\ lang # Empty
    <3>1. Stored(rows', k) /\ rows'[k].language = Coalesce(lang, rows[k].language)
      <4> HIDE DEF j, lang
      <4> QED
        BY <1>1, <2>1, <2>4, EnrichedRow
    <3> QED
      BY <1>1, <2>1, <2>4, <3>1, CoalesceNames DEF HasLanguage
  <2> QED
    BY <2>2, <2>3, <2>4
<1>5. ASSUME NEW j \in Keys, rows' = MarkUnavailable(rows, j)
      PROVE  HasLanguage(rows', k)
  <2>1. CASE k = j
    BY <1>1, <1>5, <2>1, UnavailableRow DEF HasLanguage
  <2>2. CASE k # j
    BY <1>1, <1>5, <2>2, UnavailableRow DEF HasLanguage, Stored
  <2> QED
    BY <2>1, <2>2
<1>6. CASE rows' = ResetAllEnriched(rows)
  BY <1>1, <1>6, ResetRows DEF HasLanguage
<1> QED
  BY <1>2, <1>3, <1>4, <1>5, <1>6, TableSteps

(* No crawl, no GitHub answer and no crash erases a stored language, on    *)
(* whatever database the program is started, except where the enricher     *)
(* writes back a '' that it has fetched before the language came.          *)
THEOREM LanguageSafe == Spec => LanguageNeverErased
<1>1. LanguageKept => [LanguageKept]_vars
  OBVIOUS
<1>2. TypeInv /\ [Next]_vars => [LanguageKept]_vars
  BY LanguageStep
<1>3. Spec => [][LanguageKept]_vars
  BY <1>2, TypeInit, TypeStep, PTL DEF Spec
<1> QED
  BY <1>3 DEF LanguageNeverErased, LanguageKept

\* No '' anywhere: neither stored nor in a snapshot, on a page or in an answer.
NoBlanks ==
  /\ \A k \in Keys : Stored(rows, k) => rows[k].language # Empty
  /\ \A g \in Tasks : \A item \in page[g] : item[2] # Empty
  /\ \A p \in Processes : /\ \A snap \in batch[p] : snap.language # Empty
                          /\ cur[p] # NoRepo => cur[p].language # Empty
                          /\ answer[p] # Empty

\* None comes in: no old row and no answer of GitHub has it.
NoOldBlanks ==
  /\ \A t \in OldTables : \A k \in Keys : Stored(t, k) => t[k].language # Empty
  /\ \A r \in Repos : Empty \notin Answers[r]

(* A program on a database without '' starts without any.                  *)
LEMMA NoBlanksInit == NoOldBlanks /\ Init => NoBlanks
  BY StoreAssumption DEF NoOldBlanks, Init, NoBlanks

(* The statements bring none into the table.                               *)
LEMMA NoBlanksInTable ==
  ASSUME TypeInv, NoBlanks, [Next]_vars, NEW k \in Keys, Stored(rows', k)
  PROVE  rows'[k].language # Empty
<1>1. rows \in Table /\ (Stored(rows, k) => rows[k].language # Empty)
  BY DEF TypeInv, TypeOK, NoBlanks
<1>2. CASE SameButPriority(rows, rows')
  BY <1>1, <1>2 DEF SameButPriority
<1>3. ASSUME NEW g \in Tasks, NEW j \in Keys, NEW lang \in Language,
             <<j[1], lang>> \in page[g], rows' = UpsertRepo(rows, j, lang)
      PROVE  rows'[k].language # Empty
  <2>1. lang # Empty
    BY <1>3 DEF NoBlanks
  <2>2. CASE k = j
    BY <1>1, <1>3, <2>1, <2>2, UpsertRow DEF Coalesce, NullIf
  <2>3. CASE k # j
    BY <1>1, <1>3, <2>3, UpsertRow DEF Stored
  <2> QED
    BY <2>2, <2>3
<1>4. ASSUME NEW p \in Processes, WritesBy(p)
      PROVE  rows'[k].language # Empty
  <2> DEFINE j == cur[p].key
             lang == Coalesce(answer[p], cur[p].language)
  <2>1. j \in Keys /\ lang \in Language /\ rows' = UpdateEnriched(rows, j, lang)
    BY <1>4 DEF WritesBy
  <2>2. lang # Empty
    <3>1. answer[p] # Empty /\ cur[p].language # Empty
      BY <1>4, NoRepoIsNoSnapshot DEF WritesBy, NoBlanks
    <3> QED
      BY <3>1 DEF Coalesce
  <2> HIDE DEF j, lang
  <2>3. CASE k = j
    BY <1>1, <2>1, <2>2, <2>3, EnrichedRow DEF Coalesce
  <2>4. CASE k # j
    BY <1>1, <2>1, <2>4, EnrichedRow DEF Stored
  <2> QED
    BY <2>3, <2>4
<1>5. ASSUME NEW j \in Keys, rows' = MarkUnavailable(rows, j)
      PROVE  rows'[k].language # Empty
  <2>1. CASE k = j
    BY <1>1, <1>5, <2>1, UnavailableRow
  <2>2. CASE k # j
    BY <1>1, <1>5, <2>2, UnavailableRow DEF Stored
  <2> QED
    BY <2>1, <2>2
<1>6. CASE rows' = ResetAllEnriched(rows)
  BY <1>1, <1>6, ResetRows
<1> QED
  BY <1>2, <1>3, <1>4, <1>5, <1>6, TableSteps

(* And no process brings one into its locals.                              *)
LEMMA NoBlanksStep ==
  NoOldBlanks /\ TypeInv /\ NoBlanks /\ [Next]_vars => NoBlanks'
<1> SUFFICES ASSUME NoOldBlanks, TypeInv, NoBlanks, [Next]_vars PROVE NoBlanks'
  OBVIOUS
<1>1. (\A k \in Keys : Stored(rows, k) => rows[k].language # Empty)'
  BY NoBlanksInTable
<1>2. CASE UNCHANGED <<page, batch, cur, answer>>
  BY <1>1, <1>2 DEF NoBlanks
<1>3. ASSUME NEW g \in Tasks, BeginSync(g) PROVE NoBlanks'
  <2>1. PICK items \in Pages : page' = [page EXCEPT ![g] = items]
    BY <1>3 DEF BeginSync
  <2>2. \A item \in items : item[2] # Empty
    BY PipelineAssumption, StoreAssumption
  <2>3. page \in [Tasks -> SUBSET (Repos \X Language)]
    BY DEF TypeInv, TypeOK
  <2>4. \A i \in Tasks : \A item \in page'[i] : item[2] # Empty
    BY <2>1, <2>2, <2>3 DEF NoBlanks
  <2> QED
    BY <1>1, <1>3, <2>4 DEF BeginSync, EnricherVars, NoBlanks
<1>4. ASSUME NEW g \in Tasks, Upsert(g) PROVE NoBlanks'
  <2>1. \A i \in Tasks : page'[i] \subseteq page[i]
    BY <1>4 DEF Upsert, TypeInv, TypeOK
  <2> QED
    BY <1>1, <1>4, <2>1 DEF Upsert, EnricherVars, NoBlanks
<1>5. ASSUME NEW p \in Processes, Fetch(p) PROVE NoBlanks'
  <2>1. PICK B \in GetUnenrichedRepos(rows, FetchLimit(p)) :
          batch' = [batch EXCEPT ![p] = {SnapshotOf(k) : k \in B}]
    BY <1>5 DEF Fetch
  <2>2. \A k \in B : k \in Keys /\ Stored(rows, k)
    BY DEF GetUnenrichedRepos, Pending, Available
  <2>3. \A k \in B : SnapshotOf(k).language # Empty
    BY <2>2 DEF SnapshotOf, NoBlanks
  <2>4. batch \in [Processes -> SUBSET Snapshot]
    BY DEF TypeInv, TypeOK
  <2>5. \A q \in Processes : \A snap \in batch'[q] : snap.language # Empty
    BY <2>1, <2>3, <2>4 DEF NoBlanks
  <2> QED
    BY <1>1, <1>5, <2>5 DEF Fetch, TaskVars, NoBlanks
<1>6. ASSUME NEW p \in Processes, Take(p) PROVE NoBlanks'
  <2>1. PICK snap \in batch[p] : /\ batch' = [batch EXCEPT ![p] = @ \ {snap}]
                                 /\ Acquire(p, snap) \/ Busy(snap)
    BY <1>6 DEF Take, Foremost
  <2>2. \A q \in Processes : batch'[q] \subseteq batch[q]
    BY <2>1 DEF TypeInv, TypeOK
  <2>3. \A q \in Processes : cur'[q] = cur[q] \/ cur'[q] = snap
    BY <2>1 DEF Acquire, Busy, TypeInv, TypeOK
  <2> QED
    BY <1>1, <1>6, <2>1, <2>2, <2>3 DEF Take, TaskVars, NoBlanks
<1>7. ASSUME NEW p \in Processes, Reply(p) PROVE NoBlanks'
  <2>1. cur[p] \in Snapshot
    BY <1>7 DEF Reply, At, TypeInv, TypeOK, LabelsOK, Holding, HoldLabels
  <2>2. cur[p].key[1] \in Repos
    BY <2>1 DEF Snapshot, Keys
  <2>3. \A q \in Processes : answer'[q] = answer[q] \/ answer'[q] \in Answers[cur[p].key[1]]
    BY <1>7 DEF Reply, TypeInv, TypeOK
  <2>4. \A q \in Processes : answer'[q] # Empty
    BY <2>2, <2>3 DEF NoOldBlanks, NoBlanks
  <2> QED
    BY <1>1, <1>7, <2>4 DEF Reply, TaskVars, NoBlanks
<1>8. ASSUME NEW p \in Processes, Release(p) PROVE NoBlanks'
  <2>1. \A q \in Processes : /\ cur'[q] = cur[q] \/ cur'[q] = NoRepo
                             /\ answer'[q] = answer[q] \/ answer'[q] = NoLang
    BY <1>8 DEF Release, TypeInv, TypeOK
  <2> QED
    BY <1>1, <1>8, <2>1, StoreAssumption DEF Release, TaskVars, NoBlanks
<1>9. CASE Crash
  BY <1>1, <1>9, StoreAssumption DEF Crash, NoBlanks
<1>10. ASSUME NEW p \in Processes, EndBatch(p) \/ Fail(p) \/ Write(p)
       PROVE  UNCHANGED <<page, batch, cur, answer>>
  BY <1>10 DEF EndBatch, Fail, Write, TaskVars, EnricherVars
<1>11. ASSUME NEW g \in Tasks,
              \/ SkipSync(g) \/ EndUpserts(g) \/ RecomputeZero(g) \/ RecomputeTop(g)
              \/ RecomputeNext(g) \/ RecomputeRest(g) \/ Invalidate(g) \/ Unlock(g)
              \/ BeginSweep(g) \/ EndSweep(g) \/ Launch(g) \/ ForceEnrich(g)
       PROVE  UNCHANGED <<page, batch, cur, answer>>
  BY <1>11 DEF SkipSync, EndUpserts, RecomputeZero, RecomputeTop, RecomputeNext,
       RecomputeRest, Invalidate, Unlock, BeginSweep, EndSweep, Launch, ForceEnrich,
       TaskVars, EnricherVars
<1>12. CASE UNCHANGED vars
  BY <1>2, <1>12 DEF vars
<1> QED
  BY <1>2, <1>3, <1>4, <1>5, <1>6, <1>7, <1>8, <1>9, <1>10, <1>11, <1>12
     DEF Next, Enrich, Sync

(* On a database without '' and with a GitHub that does not answer '', no  *)
(* stored language is ever erased: the exception of LanguageNeverErased    *)
(* needs a row of an earlier version.                                      *)
THEOREM LanguageNeverErasedWithoutBlanks ==
  ASSUME NoOldBlanks
  PROVE  Spec => [][\A k \in Keys : HasLanguage(rows, k) => HasLanguage(rows', k)]_vars
<1> DEFINE Kept == \A k \in Keys : HasLanguage(rows, k) => HasLanguage(rows', k)
<1>1. TypeInv /\ NoBlanks /\ [Next]_vars => [Kept]_vars
  <2> SUFFICES ASSUME TypeInv, NoBlanks, [Next]_vars, NEW k \in Keys, HasLanguage(rows, k)
               PROVE  HasLanguage(rows', k)
    OBVIOUS
  <2>1. ASSUME NEW p \in Processes, WritesBlank(p, k) PROVE FALSE
    <3>1. cur[p] \in Snapshot
      BY <2>1 DEF WritesBlank, Write, At, TypeInv, TypeOK, LabelsOK, Holding, HoldLabels
    <3>2. cur[p].language # Empty /\ answer[p] # Empty
      BY <3>1, NoRepoIsNoSnapshot DEF NoBlanks
    <3> QED
      BY <2>1, <3>2 DEF WritesBlank, Coalesce
  <2> QED
    BY <2>1, LanguageStep DEF LanguageKept
<1>2. Init => NoBlanks
  BY NoBlanksInit
<1>3. TypeInv /\ NoBlanks /\ [Next]_vars => NoBlanks'
  BY NoBlanksStep
<1> HIDE DEF Kept
<1>4. Spec => [][Kept]_vars
  BY <1>1, <1>2, <1>3, TypeInit, TypeStep, PTL DEF Spec
<1> QED
  BY <1>4 DEF Kept

----------------------------------------------------------------------------
(***************************************************************************)
(* The pipeline implements RowLifecycle.                                   *)
(***************************************************************************)

(* The stage of one row, as LifeOf gives it.                               *)
LEMMA StageOf ==
  ASSUME NEW t, NEW k \in Keys
  PROVE  /\ ~ Stored(t, k) => LifeOf(t)[k] = "absent"
         /\ Stored(t, k) /\ ~ t[k].available => LifeOf(t)[k] = "gone"
         /\ Stored(t, k) /\ t[k].available /\ t[k].enriched => LifeOf(t)[k] = "visible"
         /\ Stored(t, k) /\ t[k].available /\ ~ t[k].enriched => LifeOf(t)[k] = "pending"
  BY DEF LifeOf

(* Two tables whose rows are in the same stages.                           *)
LEMMA SameStages ==
  ASSUME NEW t, NEW u, \A k \in Keys : LifeOf(u)[k] = LifeOf(t)[k]
  PROVE  LifeOf(u) = LifeOf(t)
  BY DEF LifeOf

(* A table in which at most the row of one key went to another stage.      *)
LEMMA OneStage ==
  ASSUME NEW t, NEW u, NEW k \in Keys,
         \A j \in Keys \ {k} : LifeOf(u)[j] = LifeOf(t)[j]
  PROVE  LifeOf(u) = [LifeOf(t) EXCEPT ![k] = LifeOf(u)[k]]
<1> DEFINE f == LifeOf(t)
           h == LifeOf(u)
<1>1. f = [j \in Keys |-> f[j]] /\ h = [j \in Keys |-> h[j]]
  BY DEF LifeOf
<1>2. \A j \in Keys \ {k} : h[j] = f[j]
  OBVIOUS
<1> HIDE DEF f, h
<1>3. h = [f EXCEPT ![k] = h[k]]
  BY <1>1, <1>2
<1> QED
  BY <1>3 DEF f, h

(* RowLifecycle may start with the rows of any old database.               *)
LEMMA LifecycleInit == Init => Lifecycle!Init
  BY DEF Init, Lifecycle!Init, Lifecycle!Stages, LifeOf

(* Every step of the program is a step of RowLifecycle or leaves all the   *)
(* stages alone.                                                           *)
LEMMA LifecycleStep ==
  TypeInv /\ [Next]_vars => [Lifecycle!Next]_(LifeOf(rows))
<1> SUFFICES ASSUME TypeInv, [Next]_vars
             PROVE  Lifecycle!Next \/ LifeOf(rows)' = LifeOf(rows)
  OBVIOUS
<1> DEFINE f == LifeOf(rows)
           h == LifeOf(rows')
<1>1. rows \in Table
  BY DEF TypeInv, TypeOK
<1>2. LifeOf(rows)' = h
  BY DEF LifeOf, Stored
\* Steps on one row: the row stays in its stage, or takes a step of RowLifecycle.
<1>3. ASSUME NEW k \in Keys,
             \A j \in Keys \ {k} : h[j] = f[j],
             \/ h[k] = f[k]
             \/ f[k] = "absent" /\ h[k] = "pending"
             \/ f[k] = "pending" /\ h[k] = "visible"
             \/ f[k] \in {"pending", "visible"} /\ h[k] = "gone"
      PROVE  Lifecycle!Next \/ h = f
  <2>1. h = [f EXCEPT ![k] = h[k]]
    BY <1>3, OneStage
  <2>2. CASE h[k] = f[k]
    BY <1>3, <2>2, SameStages
  <2> HIDE DEF f
  <2>3. CASE f[k] = "absent" /\ h[k] = "pending"
    BY <1>2, <2>1, <2>3 DEF Lifecycle!Next, Lifecycle!Discover, f
  <2>4. CASE f[k] = "pending" /\ h[k] = "visible"
    BY <1>2, <2>1, <2>4 DEF Lifecycle!Next, Lifecycle!Enrich, f
  <2>5. CASE f[k] \in {"pending", "visible"} /\ h[k] = "gone"
    BY <1>2, <2>1, <2>5 DEF Lifecycle!Next, Lifecycle!Drop, f
  <2> QED
    BY <1>3, <2>2, <2>3, <2>4, <2>5
<1>4. ASSUME SameButPriority(rows, rows')
      PROVE  Lifecycle!Next \/ h = f
  BY <1>4, SameStages DEF SameButPriority, LifeOf
<1>5. ASSUME NEW k \in Keys, NEW lang \in Language, rows' = UpsertRepo(rows, k, lang)
      PROVE  Lifecycle!Next \/ h = f
  <2>1. \A j \in Keys \ {k} : h[j] = f[j]
    BY <1>1, <1>5, UpsertRow DEF LifeOf, Stored
  <2>2. Stored(rows, k) => h[k] = f[k]
    BY <1>1, <1>5, UpsertRow DEF LifeOf
  <2>3. ~ Stored(rows, k) => f[k] = "absent" /\ h[k] = "pending"
    BY <1>1, <1>5, UpsertRow, StageOf
  <2> QED
    BY <1>3, <2>1, <2>2, <2>3
<1>6. ASSUME NEW p \in Processes, WritesBy(p)
      PROVE  Lifecycle!Next \/ h = f
  <2> DEFINE k    == cur[p].key
             lang == Coalesce(answer[p], cur[p].language)
  <2> k \in Keys /\ lang \in Language /\ rows' = UpdateEnriched(rows, k, lang)
    BY <1>6 DEF WritesBy
  <2> HIDE DEF k, lang
  <2>1. \A j \in Keys \ {k} : h[j] = f[j]
    BY <1>1, <1>6, EnrichedRow DEF LifeOf, Stored
  <2>2. \/ h[k] = f[k]
        \/ f[k] = "pending" /\ h[k] = "visible"
    BY <1>1, <1>6, EnrichedRow DEF LifeOf
  <2> QED
    BY <1>3, <2>1, <2>2
<1>7. ASSUME NEW k \in Keys, rows' = MarkUnavailable(rows, k)
      PROVE  Lifecycle!Next \/ h = f
  <2>1. \A j \in Keys \ {k} : h[j] = f[j]
    BY <1>1, <1>7, UnavailableRow DEF LifeOf, Stored
  <2>2. \/ h[k] = f[k]
        \/ f[k] \in {"pending", "visible"} /\ h[k] = "gone"
    BY <1>1, <1>7, UnavailableRow DEF LifeOf
  <2> QED
    BY <1>3, <2>1, <2>2
<1>8. ASSUME rows' = ResetAllEnriched(rows)
      PROVE  Lifecycle!Next \/ h = f
  <2>1. \A k \in Keys : h[k] = IF f[k] = "visible" THEN "pending" ELSE f[k]
    BY <1>1, <1>8, ResetRows DEF LifeOf
  <2>2. h = [k \in Keys |-> IF f[k] = "visible" THEN "pending" ELSE f[k]]
    BY <2>1 DEF LifeOf
  <2> HIDE DEF f
  <2> QED
    BY <1>2, <2>2 DEF Lifecycle!Next, Lifecycle!ForceAll, f
<1> HIDE DEF f, h
<1>9. Lifecycle!Next \/ h = f
  BY <1>4, <1>5, <1>6, <1>7, <1>8, TableSteps
<1> QED
  BY <1>2, <1>9 DEF f

(* Whatever the goroutines do, every row goes through its stages in the    *)
(* order of RowLifecycle: gone is for good, and visible rows are taken     *)
(* from the clients by ForceAll or a 404 only.                             *)
THEOREM Refinement == Spec => ImplementsLifecycle
  BY LifecycleInit, LifecycleStep, TypeInit, TypeStep, PTL
     DEF Spec, ImplementsLifecycle, Lifecycle!Spec

----------------------------------------------------------------------------
(***************************************************************************)
(* When a sync invalidates the cache, nothing of its period is pending.    *)
(***************************************************************************)

(* A task at Invalidate was there before with the same job, or got there   *)
(* by finding nothing to enrich.                                           *)
LEMMA ReachingInvalidate ==
  ASSUME TypeInv, [Next]_vars, ~ StoreFaults, NEW g \in Tasks, pc'[g] = "invalidate"
  PROVE  \/ pc[g] = "invalidate" /\ todo'[g] = todo[g]
         \/ Pending(rows) = {} /\ rows' = rows
<1>1. /\ pc \in [Processes -> {"jobs"} \cup SyncLabels \cup EnrichLabels]
      /\ todo \in [Tasks -> Seq(Jobs)]
      /\ g \in Processes /\ g \notin Workers
  BY PipelineAssumption DEF TypeInv, TypeOK, Processes
<1> USE DEF At, Goto, TaskVars
<1>2. CASE UNCHANGED vars
  BY <1>2 DEF vars
<1>3. ASSUME NEW p \in Processes, Enrich(p)
      PROVE  pc[g] = "invalidate" /\ todo'[g] = todo[g]
  BY <1>1, <1>3 DEF Enrich, Fetch, Take, Acquire, Busy, EndBatch, Reply, Fail, Write, Release
<1>4. ASSUME NEW h \in Tasks, Launch(h) \/ ForceEnrich(h)
      PROVE  pc[g] = "invalidate" /\ todo'[g] = todo[g]
  <2>1. pc' = pc /\ pc[h] = "jobs" /\ \A q \in Tasks \ {h} : todo'[q] = todo[q]
    BY <1>1, <1>4 DEF Launch, ForceEnrich, Idle
  <2> QED
    BY <2>1
<1>5. ASSUME NEW h \in Tasks, SkipSync(h) \/ Unlock(h) \/ BeginSync(h)
      PROVE  pc[g] = "invalidate" /\ todo'[g] = todo[g]
  BY <1>1, <1>5 DEF SkipSync, Unlock, BeginSync, Processes
<1>6. ASSUME NEW h \in Tasks,
             \/ Upsert(h) \/ EndUpserts(h) \/ RecomputeZero(h) \/ RecomputeTop(h)
             \/ RecomputeNext(h) \/ RecomputeRest(h) \/ Invalidate(h) \/ BeginSweep(h)
      PROVE  pc[g] = "invalidate" /\ todo'[g] = todo[g]
  BY <1>1, <1>6 DEF Upsert, EndUpserts, RecomputeZero, RecomputeTop, RecomputeNext,
                    RecomputeRest, Invalidate, BeginSweep, Processes
<1>7. ASSUME NEW h \in Tasks, EndSweep(h)
      PROVE  Pending(rows) = {} /\ rows' = rows
  BY <1>7 DEF EndSweep
<1>8. CASE Crash
  BY <1>1, <1>8 DEF Crash, StartLabel
<1> QED
  BY <1>2, <1>3, <1>4, <1>5, <1>6, <1>7, <1>8 DEF Next, Sync

(* No step but an upsert of the period, or a forced enrichment, makes a    *)
(* row of the period pending.                                              *)
LEMMA BecomingPending ==
  ASSUME TypeInv, [Next]_vars, ~ AllowForce,
         NEW k \in Keys, k \in Pending(rows'), k \notin Pending(rows)
  PROVE  \E g \in Tasks : pc[g] = "upsert" /\ SinceOf(k) = Head(todo[g])
<1>1. rows \in Table
  BY DEF TypeInv, TypeOK
<1>2. CASE SameButPriority(rows, rows')
  BY <1>2 DEF SameButPriority, Pending, Available
<1>3. ASSUME NEW g \in Tasks, NEW j \in Keys, NEW lang \in Language,
             pc[g] = "upsert", SinceOf(j) = Head(todo[g]),
             rows' = UpsertRepo(rows, j, lang)
      PROVE  pc[g] = "upsert" /\ SinceOf(k) = Head(todo[g])
  <2>1. k = j
    BY <1>1, <1>3, UpsertRow DEF Pending, Available, Stored
  <2> QED
    BY <1>3, <2>1
<1>4. ASSUME NEW p \in Processes, WritesBy(p)
      PROVE  FALSE
  <2>1. PICK j \in Keys, lang \in Language : rows' = UpdateEnriched(rows, j, lang)
    BY <1>4 DEF WritesBy
  <2> QED
    BY <1>1, <2>1, EnrichedRow DEF Pending, Available, Stored
<1>5. ASSUME NEW j \in Keys, rows' = MarkUnavailable(rows, j)
      PROVE  FALSE
  BY <1>1, <1>5, UnavailableRow DEF Pending, Available, Stored
<1> QED
  BY <1>2, <1>3, <1>4, <1>5, TableSteps

(* A task that is at Invalidate keeps the others from adding rows to its   *)
(* period, because it still has the lock.                                  *)
LEMMA SettledStep ==
  ASSUME ~ AllowForce, ~ StoreFaults
  PROVE  TypeInv /\ OneSyncPerPeriod /\ SettledWhenInvalidated /\ [Next]_vars
           => SettledWhenInvalidated'
<1> SUFFICES ASSUME TypeInv, OneSyncPerPeriod, SettledWhenInvalidated, [Next]_vars,
                    NEW g \in Tasks, pc'[g] = "invalidate",
                    NEW k \in Keys, k \in Pending(rows')
             PROVE  SinceOf(k) # Head(todo'[g])
  BY DEF SettledWhenInvalidated, At, Pending, Available, Stored, SinceOf
<1>1. CASE Pending(rows) = {} /\ rows' = rows
  BY <1>1
<1>2. CASE pc[g] = "invalidate" /\ todo'[g] = todo[g]
  <2>1. CASE k \in Pending(rows)
    BY <1>2, <2>1 DEF SettledWhenInvalidated, At
  <2>2. CASE k \notin Pending(rows)
    <3>1. PICK h \in Tasks : pc[h] = "upsert" /\ SinceOf(k) = Head(todo[h])
      BY <2>2, BecomingPending
    <3>2. SinceOf(k) \in Sinces
      BY DEF Keys, SinceOf
    <3>3. InSync(h, SinceOf(k))
      BY <3>1 DEF InSync, At, TypeInv, LabelsOK
    <3>4. SinceOf(k) = Head(todo[g]) => InSync(g, SinceOf(k))
      BY <1>2 DEF InSync, At, TypeInv, LabelsOK
    <3>5. g # h
      BY <1>2, <3>1
    <3> QED
      BY <1>2, <3>2, <3>3, <3>4, <3>5 DEF OneSyncPerPeriod
  <2> QED
    BY <2>1, <2>2
<1> QED
  BY <1>1, <1>2, ReachingInvalidate

(* When no statement fails and nobody forces a new enrichment, a sync that *)
(* invalidates the cached pages of its period has left no row of it        *)
(* waiting, whatever the other syncs and the workers do meanwhile.         *)
THEOREM SyncSettles ==
  ASSUME ~ AllowForce, ~ StoreFaults
  PROVE  Spec => []SettledWhenInvalidated
<1>1. Init => SettledWhenInvalidated
  BY DEF Init, SettledWhenInvalidated, At, StartLabel, Processes
<1> QED
  BY <1>1, TypeInit, TypeStep, LockInit, LockStep, SettledStep, PTL DEF Spec

============================================================================
