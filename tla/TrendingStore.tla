--------------------------- MODULE TrendingStore ---------------------------
(***************************************************************************)
(* The trending_repos table of internal/store/sqlite.go: what one SQL      *)
(* statement reads or writes, as operators on a table value t.  SQLite     *)
(* runs with a single connection, so a statement is atomic and everything  *)
(* between two statements may interleave with other goroutines.            *)
(*                                                                         *)
(* The key is (full_name, since).  Of the columns only those that decide   *)
(* control flow or visibility are kept: enriched_at (NULL or not),         *)
(* is_available, enrich_priority and language.                             *)
(***************************************************************************)
EXTENDS Naturals, FiniteSets

CONSTANTS
  Repos,    \* full_name values
  Sinces,   \* the periods daily, weekly, monthly
  Langs,    \* language names
  Empty,    \* '', which earlier versions stored for a page without language
  NoLang,   \* NULL, which this one stores, and "no language" of a page or of GitHub
  NoRow     \* t[k] = NoRow: the table has no row with key k

Keys       == Repos \X Sinces
Language   == Langs \cup {Empty, NoLang}
Priorities == {0, 10, 50, 100}

Row == [enriched  : BOOLEAN,     \* enriched_at IS NOT NULL
        available : BOOLEAN,     \* is_available = 1
        priority  : Priorities,  \* enrich_priority
        language  : Language]

Table == [Keys -> Row \cup {NoRow}]

ASSUME StoreAssumption == /\ NoLang \notin Langs /\ Empty \notin Langs /\ Empty # NoLang
                          /\ NoRow \notin Row

SinceOf(k)      == k[2]
Stored(t, k)    == t[k] # NoRow
Available(t, k) == Stored(t, k) /\ t[k].available

\* WHERE enriched_at IS NULL AND is_available = 1: the rows the enricher asks for.
Pending(t) == {k \in Keys : Available(t, k) /\ ~ t[k].enriched}

\* COALESCE(a, b) and NULLIF(a, ''): only NULL is replaced by the one, only '' by
\* the other.
Coalesce(a, b) == IF a # NoLang THEN a ELSE b
NullIf(a)      == IF a = Empty THEN NoLang ELSE a

\* The row has a language by name.
HasLanguage(t, k) == Stored(t, k) /\ t[k].language \in Langs

----------------------------------------------------------------------------
(***************************************************************************)
(* Variants of the statements below with one plausible bug each.  The      *)
(* specification does not use them; PROJECT.json substitutes them to show  *)
(* that the checked properties depend on what the statements really do.    *)
(***************************************************************************)

\* ON CONFLICT also writes is_available = excluded.is_available.
UpsertRevives(t, k, lang) ==
  [t EXCEPT ![k] = IF Stored(t, k)
                     THEN [t[k] EXCEPT !.language = Coalesce(NullIf(lang), t[k].language),
                                       !.priority = 0, !.available = TRUE]
                     ELSE [enriched |-> FALSE, available |-> TRUE,
                           priority |-> 0, language |-> lang]]

\* enriched_at = ? is missing from the SET list.
UpdateWithoutMark(t, k, lang) ==
  IF Stored(t, k)
    THEN [t EXCEPT ![k] = [t[k] EXCEPT !.language = Coalesce(lang, t[k].language)]]
    ELSE t

----------------------------------------------------------------------------
(***************************************************************************)
(* UpsertRepo.  A new row takes the column defaults; a conflict updates    *)
(* the spider columns only: enriched_at and is_available keep their value, *)
(* NULL and '' keep the stored language, and enrich_priority becomes the 0 *)
(* the scheduler passes.                                                   *)
(***************************************************************************)
UpsertRepo(t, k, lang) ==
  [t EXCEPT ![k] = IF Stored(t, k)
                     THEN [t[k] EXCEPT !.language = Coalesce(NullIf(lang), t[k].language),
                                       !.priority = 0]
                     ELSE [enriched |-> FALSE, available |-> TRUE,
                           priority |-> 0, language |-> lang]]

\* UpdateEnriched: language = COALESCE(?, language), without NULLIF, so that ''
\* overwrites a name; enriched_at = now.
UpdateEnriched(t, k, lang) ==
  IF Stored(t, k)
    THEN [t EXCEPT ![k] = [t[k] EXCEPT !.language = Coalesce(lang, t[k].language),
                                     !.enriched = TRUE]]
    ELSE t

\* MarkUnavailable: is_available = 0, nothing else.
MarkUnavailable(t, k) ==
  IF Stored(t, k) THEN [t EXCEPT ![k] = [t[k] EXCEPT !.available = FALSE]] ELSE t

\* ResetAllEnriched: UPDATE trending_repos SET enriched_at = NULL, no WHERE.
ResetAllEnriched(t) ==
  [k \in Keys |-> IF Stored(t, k) THEN [t[k] EXCEPT !.enriched = FALSE] ELSE t[k]]

(***************************************************************************)
(* GetUnenrichedRepos(limit): the sets of keys the SELECT may return.      *)
(* ORDER BY enrich_priority DESC leaves ties to SQLite, so every choice    *)
(* that respects the priorities is allowed.                                *)
(***************************************************************************)
GetUnenrichedRepos(t, limit) ==
  {B \in SUBSET Pending(t) :
     /\ Cardinality(B) = IF Cardinality(Pending(t)) < limit
                           THEN Cardinality(Pending(t)) ELSE limit
     /\ \A k \in B : \A j \in Pending(t) \ B : t[k].priority >= t[j].priority}

----------------------------------------------------------------------------
(***************************************************************************)
(* The four UPDATE statements of RecomputePriorities(since), which do not  *)
(* run in a transaction.  The second and third pick at most limit rows by  *)
(* captured_at DESC; captured_at is not modelled here, so they pick any.   *)
(***************************************************************************)
SetPriority(t, K, prio) ==
  [k \in Keys |-> IF k \in K THEN [t[k] EXCEPT !.priority = prio] ELSE t[k]]

InSince(t, s) == {k \in Keys : Stored(t, k) /\ SinceOf(k) = s}

ZeroPriorities(t, s) == SetPriority(t, InSince(t, s), 0)

Promotions(t, candidates, limit, prio) ==
  {SetPriority(t, K, prio) :
     K \in {B \in SUBSET candidates :
              Cardinality(B) = IF Cardinality(candidates) < limit
                                 THEN Cardinality(candidates) ELSE limit}}

PromoteTop(t, s, limit) ==
  Promotions(t, InSince(t, s) \cap Pending(t), limit, 100)

PromoteNext(t, s, limit) ==
  Promotions(t, {k \in InSince(t, s) \cap Pending(t) : t[k].priority = 0}, limit, 50)

\* The last statement has no is_available condition.
RestPriorities(t, s) ==
  SetPriority(t, {k \in InSince(t, s) : t[k].priority = 0 /\ ~ t[k].enriched}, 10)

============================================================================
