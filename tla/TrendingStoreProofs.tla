------------------------ MODULE TrendingStoreProofs ------------------------
(***************************************************************************)
(* Facts about the statements of TrendingStore: each keeps the table well  *)
(* formed, and none but MarkUnavailable and ResetAllEnriched takes a row   *)
(* away from the clients.                                                  *)
(***************************************************************************)
EXTENDS TrendingStore, TLAPS

(* A key of the table with a row has a proper row.                         *)
LEMMA StoredRow ==
  ASSUME NEW t \in Table, NEW k \in Keys, Stored(t, k)
  PROVE  /\ t[k] \in Row
         /\ t[k].enriched \in BOOLEAN /\ t[k].available \in BOOLEAN
         /\ t[k].priority \in Priorities /\ t[k].language \in Language
  BY DEF Stored, Table, Row

(* COALESCE of two nullable languages is one.                              *)
LEMMA CoalesceType ==
  ASSUME NEW a \in Language, NEW b \in Language
  PROVE  Coalesce(a, b) \in Language
  BY DEF Coalesce

(* So is NULLIF of one and ''.                                             *)
LEMMA NullIfType ==
  ASSUME NEW a \in Language
  PROVE  NullIf(a) \in Language
  BY DEF NullIf, Language

(* UpsertRepo touches one row; what a stored row keeps, and what a new one is. *)
LEMMA UpsertRow ==
  ASSUME NEW t \in Table, NEW k \in Keys, NEW lang \in Language,
         NEW u, u = UpsertRepo(t, k, lang)
  PROVE  /\ u \in Table
         /\ \A j \in Keys \ {k} : u[j] = t[j]
         /\ Stored(u, k)
         /\ Stored(t, k) => /\ u[k].enriched = t[k].enriched
                            /\ u[k].available = t[k].available
                            /\ u[k].language = Coalesce(NullIf(lang), t[k].language)
         /\ ~ Stored(t, k) => /\ ~ u[k].enriched /\ u[k].available
                              /\ u[k].language = lang
<1> DEFINE new == [enriched |-> FALSE, available |-> TRUE, priority |-> 0, language |-> lang]
           upd == [t[k] EXCEPT !.language = Coalesce(NullIf(lang), t[k].language),
                               !.priority = 0]
<1>1. u = [t EXCEPT ![k] = IF Stored(t, k) THEN upd ELSE new]
  BY DEF UpsertRepo
<1>2. new \in Row /\ ~ new.enriched /\ new.available /\ new.language = lang
  BY DEF Row, Priorities
<1>3. Stored(t, k) => /\ upd \in Row /\ upd.enriched = t[k].enriched
                      /\ upd.available = t[k].available
                      /\ upd.language = Coalesce(NullIf(lang), t[k].language)
  <2> SUFFICES ASSUME Stored(t, k)
               PROVE  /\ upd \in Row /\ upd.enriched = t[k].enriched
                      /\ upd.available = t[k].available
                      /\ upd.language = Coalesce(NullIf(lang), t[k].language)
    OBVIOUS
  <2>1. t[k] \in Row /\ t[k].language \in Language
    BY StoredRow
  <2>2. Coalesce(NullIf(lang), t[k].language) \in Language
    BY <2>1, CoalesceType, NullIfType
  <2>3. 0 \in Priorities
    BY DEF Priorities
  <2> QED
    BY <2>1, <2>2, <2>3 DEF Row
<1>4. u[k] = IF Stored(t, k) THEN upd ELSE new
  BY <1>1 DEF Table
<1>5. Stored(u, k)
  BY <1>2, <1>3, <1>4, StoreAssumption DEF Stored
<1>6. u \in Table /\ \A j \in Keys \ {k} : u[j] = t[j]
  BY <1>1, <1>2, <1>3 DEF Table
<1> HIDE DEF new, upd
<1> QED
  BY <1>2, <1>3, <1>4, <1>5, <1>6

(* UpdateEnriched marks an existing row; only NULL keeps its language.     *)
LEMMA EnrichedRow ==
  ASSUME NEW t \in Table, NEW k \in Keys, NEW lang \in Language,
         NEW u, u = UpdateEnriched(t, k, lang)
  PROVE  /\ u \in Table
         /\ \A j \in Keys \ {k} : u[j] = t[j]
         /\ Stored(u, k) <=> Stored(t, k)
         /\ Stored(t, k) => /\ u[k].enriched
                            /\ u[k].available = t[k].available
                            /\ u[k].priority = t[k].priority
                            /\ u[k].language = Coalesce(lang, t[k].language)
<1> DEFINE upd == [t[k] EXCEPT !.language = Coalesce(lang, t[k].language), !.enriched = TRUE]
<1>1. CASE ~ Stored(t, k)
  BY <1>1 DEF UpdateEnriched
<1>2. CASE Stored(t, k)
  <2>1. u = [t EXCEPT ![k] = upd]
    BY <1>2 DEF UpdateEnriched
  <2>2. /\ upd \in Row /\ upd.enriched
        /\ upd.available = t[k].available /\ upd.priority = t[k].priority
        /\ upd.language = Coalesce(lang, t[k].language)
    BY <1>2, StoredRow, CoalesceType DEF Row
  <2>3. u[k] = upd
    BY <2>1 DEF Table
  <2>4. Stored(u, k)
    BY <2>2, <2>3, StoreAssumption DEF Stored
  <2>5. u \in Table /\ \A j \in Keys \ {k} : u[j] = t[j]
    BY <2>1, <2>2 DEF Table
  <2> HIDE DEF upd
  <2> QED
    BY <1>2, <2>2, <2>3, <2>4, <2>5
<1> QED
  BY <1>1, <1>2

(* MarkUnavailable changes is_available of an existing row.                *)
LEMMA UnavailableRow ==
  ASSUME NEW t \in Table, NEW k \in Keys, NEW u, u = MarkUnavailable(t, k)
  PROVE  /\ u \in Table
         /\ \A j \in Keys \ {k} : u[j] = t[j]
         /\ Stored(u, k) <=> Stored(t, k)
         /\ Stored(t, k) => /\ ~ u[k].available
                            /\ u[k].enriched = t[k].enriched
                            /\ u[k].priority = t[k].priority
                            /\ u[k].language = t[k].language
<1> DEFINE upd == [t[k] EXCEPT !.available = FALSE]
<1>1. CASE ~ Stored(t, k)
  BY <1>1 DEF MarkUnavailable
<1>2. CASE Stored(t, k)
  <2>1. u = [t EXCEPT ![k] = upd]
    BY <1>2 DEF MarkUnavailable
  <2>2. /\ upd \in Row /\ ~ upd.available
        /\ upd.enriched = t[k].enriched /\ upd.language = t[k].language
        /\ upd.priority = t[k].priority
    BY <1>2, StoredRow DEF Row
  <2>3. u[k] = upd
    BY <2>1 DEF Table
  <2>4. Stored(u, k)
    BY <2>2, <2>3, StoreAssumption DEF Stored
  <2>5. u \in Table /\ \A j \in Keys \ {k} : u[j] = t[j]
    BY <2>1, <2>2 DEF Table
  <2> HIDE DEF upd
  <2> QED
    BY <1>2, <2>2, <2>3, <2>4, <2>5
<1> QED
  BY <1>1, <1>2

(* ResetAllEnriched clears enriched_at of every row and nothing else.      *)
LEMMA ResetRows ==
  ASSUME NEW t \in Table, NEW u, u = ResetAllEnriched(t)
  PROVE  /\ u \in Table
         /\ \A k \in Keys : /\ Stored(u, k) <=> Stored(t, k)
                            /\ Stored(t, k) => /\ ~ u[k].enriched
                                               /\ u[k].available = t[k].available
                                               /\ u[k].language = t[k].language
<1> SUFFICES ASSUME NEW k \in Keys
             PROVE  /\ u[k] \in Row \cup {NoRow}
                    /\ Stored(u, k) <=> Stored(t, k)
                    /\ Stored(t, k) => /\ ~ u[k].enriched
                                       /\ u[k].available = t[k].available
                                       /\ u[k].language = t[k].language
  BY DEF ResetAllEnriched, Table
<1>1. CASE ~ Stored(t, k)
  BY <1>1 DEF ResetAllEnriched, Stored
<1>2. CASE Stored(t, k)
  <2> DEFINE upd == [t[k] EXCEPT !.enriched = FALSE]
  <2>1. u[k] = upd
    BY <1>2 DEF ResetAllEnriched
  <2>2. /\ upd \in Row /\ ~ upd.enriched
        /\ upd.available = t[k].available /\ upd.language = t[k].language
    BY <1>2, StoredRow DEF Row
  <2>3. upd # NoRow
    BY <2>2, StoreAssumption
  <2> HIDE DEF upd
  <2> QED
    BY <1>2, <2>1, <2>2, <2>3 DEF Stored
<1> QED
  BY <1>1, <1>2

(* A change of priorities leaves the rest of every row alone, provided it  *)
(* only addresses existing rows.                                           *)
LEMMA PriorityRows ==
  ASSUME NEW t \in Table, NEW K \in SUBSET Keys, NEW prio \in Priorities,
         \A k \in K : Stored(t, k),
         NEW u, u = SetPriority(t, K, prio)
  PROVE  /\ u \in Table
         /\ \A k \in Keys : /\ Stored(u, k) <=> Stored(t, k)
                            /\ Stored(t, k) => /\ u[k].enriched = t[k].enriched
                                               /\ u[k].available = t[k].available
                                               /\ u[k].language = t[k].language
<1> SUFFICES ASSUME NEW k \in Keys
             PROVE  /\ u[k] \in Row \cup {NoRow}
                    /\ Stored(u, k) <=> Stored(t, k)
                    /\ Stored(t, k) => /\ u[k].enriched = t[k].enriched
                                       /\ u[k].available = t[k].available
                                       /\ u[k].language = t[k].language
  BY DEF SetPriority, Table
<1>1. CASE k \notin K
  BY <1>1 DEF SetPriority, Stored, Table
<1>2. CASE k \in K
  <2> DEFINE upd == [t[k] EXCEPT !.priority = prio]
  <2>1. u[k] = upd
    BY <1>2 DEF SetPriority
  <2>2. /\ upd \in Row /\ upd.enriched = t[k].enriched
        /\ upd.available = t[k].available /\ upd.language = t[k].language
    BY <1>2, StoredRow DEF Row
  <2>3. upd # NoRow
    BY <2>2, StoreAssumption
  <2> HIDE DEF upd
  <2> QED
    BY <1>2, <2>1, <2>2, <2>3 DEF Stored
<1> QED
  BY <1>1, <1>2

(* It changes the priorities of the rows it addresses, and of no others.   *)
LEMMA PriorityOf ==
  ASSUME NEW t \in Table, NEW K \in SUBSET Keys, NEW prio \in Priorities,
         \A k \in K : Stored(t, k),
         NEW u, u = SetPriority(t, K, prio), NEW k \in Keys
  PROVE  /\ k \in K => u[k].priority = prio
         /\ k \notin K => u[k] = t[k]
<1>1. CASE k \in K
  <2>1. t[k] \in Row /\ u[k] = [t[k] EXCEPT !.priority = prio]
    BY <1>1, StoredRow DEF SetPriority
  <2> QED
    BY <1>1, <2>1 DEF Row
<1>2. CASE k \notin K
  BY <1>2 DEF SetPriority
<1> QED
  BY <1>1, <1>2

============================================================================
