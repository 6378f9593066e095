------------------------- MODULE StoreQueriesProofs -------------------------
(***************************************************************************)
(* A proof that the queries agree on every table, and so on every table    *)
(* that the goroutines of EnrichPipeline can make.                         *)
(***************************************************************************)
EXTENDS MCPipeline, TrendingServiceProofs, FiniteSetTheorems

(* The language key of a visible row, and the list that row is in.         *)
LEMMA KeyOfRow ==
  ASSUME NEW t \in Table, NEW k \in Visible(t)
  PROVE  /\ SinceOf(k) \in Sinces
         /\ AggregateKey(t, k) \in LanguageKeys
         /\ \A s : k \in Listed(t, s, Empty) <=> SinceOf(k) = s
         /\ \A s : \A l \in LanguageKeys :
              k \in Listed(t, s, l) <=> SinceOf(k) = s /\ AggregateKey(t, k) = l
<1>1. k \in Keys /\ SinceOf(k) \in Sinces
  BY DEF Visible, Keys, SinceOf
<1>2. t[k].language \in Language
  BY <1>1, StoredRow DEF Visible, Available
<1>3. AggregateKey(t, k) =
        IF t[k].language \in {NoLang, Empty} THEN Uncategorized ELSE t[k].language
  BY StoreAssumption DEF AggregateKey, Coalesce, NullIf
<1>4. ASSUME NEW s PROVE k \in Listed(t, s, Empty) <=> SinceOf(k) = s
  BY QueriesAssumption DEF Listed, Language
<1>5. ASSUME NEW s, NEW l \in LanguageKeys
      PROVE  k \in Listed(t, s, l) <=> SinceOf(k) = s /\ AggregateKey(t, k) = l
  <2>1. l # Empty /\ (l = Uncategorized \/ l \in Langs)
    BY QueriesAssumption, StoreAssumption DEF LanguageKeys, Language
  <2>2. CASE l = Uncategorized
    <3>1. AggregateKey(t, k) = l <=> t[k].language \in {NoLang, Empty}
      BY <1>2, <1>3, <2>2, QueriesAssumption
    <3> QED
      BY <2>2, <3>1 DEF Listed
  <2>3. CASE l \in Langs
    <3>1. l # Uncategorized /\ l # NoLang
      BY <2>3, QueriesAssumption, StoreAssumption DEF Language
    <3>2. AggregateKey(t, k) = l <=> t[k].language = l
      BY <1>3, <2>1, <3>1
    <3> QED
      BY <2>1, <3>1, <3>2 DEF Listed
  <2> QED
    BY <2>1, <2>2, <2>3
<1>6. AggregateKey(t, k) \in LanguageKeys
  BY <1>2, <1>3 DEF LanguageKeys, Language
<1> QED
  BY <1>1, <1>4, <1>5, <1>6

(* Every stored row is visible, pending or unavailable, and but one of     *)
(* them.                                                                   *)
LEMMA StatsAddUp ==
  ASSUME IsFiniteSet(Keys), NEW t \in Table
  PROVE  LET stats == GetOperationalStats(t)
         IN  stats.stored = stats.visible + stats.pending + stats.unavailable
<1> DEFINE stored == {k \in Keys : Stored(t, k)}
           gone   == {k \in Keys : Stored(t, k) /\ ~ t[k].available}
           alive  == {k \in Keys : Available(t, k)}
<1>1. stored = gone \cup alive /\ gone \cap alive = {}
  BY DEF Available
<1>2. alive = Visible(t) \cup Pending(t) /\ Visible(t) \cap Pending(t) = {}
  BY DEF Visible, Pending
<1>3. stored \subseteq Keys /\ gone \subseteq Keys /\ alive \subseteq Keys
      /\ Visible(t) \subseteq Keys /\ Pending(t) \subseteq Keys
  BY DEF Visible, Pending
<1>4. /\ GetOperationalStats(t).stored = Cardinality(stored)
      /\ GetOperationalStats(t).visible = Cardinality(Visible(t))
      /\ GetOperationalStats(t).pending = Cardinality(Pending(t))
      /\ GetOperationalStats(t).unavailable = Cardinality(gone)
  BY DEF GetOperationalStats
<1> HIDE DEF stored, gone, alive
<1>5. /\ IsFiniteSet(gone) /\ IsFiniteSet(alive)
      /\ IsFiniteSet(Visible(t)) /\ IsFiniteSet(Pending(t))
  BY <1>3, FS_Subset
<1>6. /\ Cardinality(gone) \in Nat /\ Cardinality(alive) \in Nat
      /\ Cardinality(Visible(t)) \in Nat /\ Cardinality(Pending(t)) \in Nat
  BY <1>5, FS_CardinalityType
<1>7. Cardinality(stored) = Cardinality(gone) + Cardinality(alive)
  <2>1. Cardinality(gone \cup alive) =
          Cardinality(gone) + Cardinality(alive) - Cardinality(gone \cap alive)
    BY <1>5, FS_Union
  <2>2. Cardinality(gone \cap alive) = 0
    BY <1>1, FS_EmptySet
  <2> QED
    BY <1>1, <1>6, <2>1, <2>2
<1>8. Cardinality(alive) = Cardinality(Visible(t)) + Cardinality(Pending(t))
  <2>1. Cardinality(Visible(t) \cup Pending(t)) =
          Cardinality(Visible(t)) + Cardinality(Pending(t)) - Cardinality(Visible(t) \cap Pending(t))
    BY <1>5, FS_Union
  <2>2. Cardinality(Visible(t) \cap Pending(t)) = 0
    BY <1>2, FS_EmptySet
  <2> QED
    BY <1>2, <1>6, <2>1, <2>2
<1> QED
  BY <1>4, <1>6, <1>7, <1>8

(* The queries agree on every table.                                       *)
LEMMA AgreeOnTable ==
  ASSUME IsFiniteSet(Keys), NEW t \in Table
  PROVE  QueriesAgreeOn(t)
<1> SUFFICES
      /\ \A a \in GetAggregatedLanguages(t) :
           /\ a.count = Cardinality(UNION {Listed(t, s, a.key) : s \in Sinces})
           /\ a.count > 0
      /\ \A s \in Sinces :
           /\ Listed(t, s, Empty) =
                UNION {Listed(t, s, a.key) : a \in GetAggregatedLanguages(t)}
           /\ CountReposBySince(t)[s] = Cardinality(Listed(t, s, Empty))
  BY StatsAddUp DEF QueriesAgreeOn
<1> DEFINE sidebar == GetAggregatedLanguages(t)
           rowsOf(l) == {k \in Visible(t) : AggregateKey(t, k) = l}
           entry(l) == [key |-> l, count |-> Cardinality(rowsOf(l))]
<1>1. \A s, l : Listed(t, s, l) \subseteq Visible(t)
  BY DEF Listed
<1>2. sidebar = {entry(l) : l \in {AggregateKey(t, k) : k \in Visible(t)}}
  BY DEF GetAggregatedLanguages
<1>3. ASSUME NEW a \in sidebar
      PROVE  /\ a.count = Cardinality(UNION {Listed(t, s, a.key) : s \in Sinces})
             /\ a.count > 0
  <2>1. PICK k \in Visible(t) : a = entry(AggregateKey(t, k))
    BY <1>2
  <2> DEFINE l == AggregateKey(t, k)
  <2>2. a.key = l /\ a.count = Cardinality(rowsOf(l)) /\ l \in LanguageKeys
    BY <2>1, KeyOfRow
  <2>3. k \in rowsOf(l) /\ rowsOf(l) \subseteq Keys
    BY DEF Visible
  <2> HIDE DEF l
  <2>4. UNION {Listed(t, s, l) : s \in Sinces} = rowsOf(l)
    <3>1. ASSUME NEW j \in Visible(t)
          PROVE  j \in rowsOf(l) <=> \E s \in Sinces : j \in Listed(t, s, l)
      BY <2>2, KeyOfRow
    <3> QED
      BY <1>1, <3>1
  <2> HIDE DEF rowsOf
  <2>5. IsFiniteSet(rowsOf(l)) /\ Cardinality(rowsOf(l)) \in Nat /\ rowsOf(l) # {}
    BY <2>3, FS_Subset, FS_CardinalityType
  <2>6. Cardinality(rowsOf(l)) # 0
    BY <2>5, FS_EmptySet
  <2>7. Cardinality(rowsOf(l)) > 0
    BY <2>5, <2>6
  <2>8. UNION {Listed(t, s, a.key) : s \in Sinces} = rowsOf(l)
    BY <2>2, <2>4
  <2> HIDE DEF sidebar
  <2> QED
    BY <2>2, <2>7, <2>8
<1>4. ASSUME NEW s \in Sinces
      PROVE  Listed(t, s, Empty) = UNION {Listed(t, s, a.key) : a \in sidebar}
  <2>1. ASSUME NEW k \in Listed(t, s, Empty)
        PROVE  \E a \in sidebar : k \in Listed(t, s, a.key)
    <3>1. k \in Visible(t)
      BY <1>1
    <3> DEFINE l == AggregateKey(t, k)
    <3>2. entry(l) \in sidebar /\ entry(l).key = l
      BY <1>2, <3>1
    <3>3. k \in Listed(t, s, l)
      BY <2>1, <3>1, KeyOfRow
    <3> HIDE DEF l, entry, sidebar
    <3> QED
      BY <3>2, <3>3
  <2>2. ASSUME NEW a \in sidebar, NEW k \in Listed(t, s, a.key)
        PROVE  k \in Listed(t, s, Empty)
    <3>1. k \in Visible(t) /\ SinceOf(k) = s
      BY DEF Listed
    <3> QED
      BY <3>1, KeyOfRow
  <2> HIDE DEF sidebar
  <2> QED
    BY <2>1, <2>2
<1>5. ASSUME NEW s \in Sinces
      PROVE  CountReposBySince(t)[s] = Cardinality(Listed(t, s, Empty))
  <2>1. {k \in Visible(t) : SinceOf(k) = s} = Listed(t, s, Empty)
    BY <1>1, KeyOfRow
  <2> QED
    BY <2>1 DEF CountReposBySince
<1> QED
  BY <1>3, <1>4, <1>5

(* At every moment, whatever workers, syncs, sweeps, force-enrichments and *)
(* restarts have made of the table: the count of each language in the      *)
(* sidebar is the number of rows in its lists and never 0, the lists of    *)
(* all languages make up the unfiltered one, and /internal/stats adds up.  *)
THEOREM QueriesConsistent ==
  ASSUME IsFiniteSet(Repos), IsFiniteSet(Sinces)
  PROVE  Spec => []QueriesAgree
<1>1. IsFiniteSet(Keys)
  BY FS_Product DEF Keys
<1>2. TypeOK => QueriesAgree
  BY <1>1, AgreeOnTable DEF TypeOK, QueriesAgree
<1> QED
  BY <1>2, Typing, PTL

(* The same with clients reading beside the pipeline, and after crashes of *)
(* the whole service.                                                      *)
THEOREM ServiceQueriesConsistent ==
  ASSUME IsFiniteSet(Repos), IsFiniteSet(Sinces)
  PROVE  ServiceSpec => []QueriesAgree
  BY QueriesConsistent, ServiceRunsPipeline, PTL

=============================================================================
