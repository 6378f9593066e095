---------------------------- MODULE StoreQueries ----------------------------
(***************************************************************************)
(* The queries of internal/store/sqlite.go that answer clients and the     *)
(* operator: the list of one period, the languages of the sidebar and the  *)
(* counts of /internal/stats.  Each is one SELECT and so sees the table of *)
(* one moment.                                                             *)
(***************************************************************************)
EXTENDS TrendingStore

CONSTANT Uncategorized   \* model.UncategorizedLanguageKey

ASSUME QueriesAssumption == Uncategorized \notin Language

LanguageKeys == Langs \cup {Uncategorized}

\* WHERE is_available = 1 AND enriched_at IS NOT NULL
Visible(t) == {k \in Keys : Available(t, k) /\ t[k].enriched}

\* The rows that GetRepos(since, lang, limit) chooses from; lang = '' is no filter.
Listed(t, s, lang) ==
  {k \in Visible(t) :
     /\ SinceOf(k) = s
     /\ lang = Uncategorized => t[k].language \in {NoLang, Empty}
     /\ lang \notin {Empty, Uncategorized} => t[k].language = lang}

\* ORDER BY enrich_priority DESC, captured_at DESC LIMIT ?: as many rows as the
\* limit allows, by priority.  captured_at is not modelled and leaves ties open.
GetRepos(t, s, lang, limit) ==
  LET rowsOf == Listed(t, s, lang)
  IN  {B \in SUBSET rowsOf :
         /\ Cardinality(B) = IF Cardinality(rowsOf) < limit
                               THEN Cardinality(rowsOf) ELSE limit
         /\ \A k \in B : \A j \in rowsOf \ B : t[k].priority >= t[j].priority}

\* Every period has a count, 0 without rows.
CountReposBySince(t) ==
  [s \in Sinces |-> Cardinality({k \in Visible(t) : SinceOf(k) = s})]

----------------------------------------------------------------------------
(***************************************************************************)
(* Variants with one plausible bug each, used by PROJECT.json only.        *)
(***************************************************************************)

\* COALESCE(language, key) without NULLIF: '' is a language of its own.
KeyWithoutNullIf(t, k) == Coalesce(t[k].language, Uncategorized)

----------------------------------------------------------------------------
\* COALESCE(NULLIF(language, ''), key)
AggregateKey(t, k) == Coalesce(NullIf(t[k].language), Uncategorized)

\* The sidebar: the keys with rows, over all periods, and how many.  The order
\* is left out.
GetAggregatedLanguages(t) ==
  {[key   |-> l,
    count |-> Cardinality({k \in Visible(t) : AggregateKey(t, k) = l})] :
       l \in {AggregateKey(t, k) : k \in Visible(t)}}

\* The columns of GetOperationalStats that the model has.
GetOperationalStats(t) ==
  [stored      |-> Cardinality({k \in Keys : Stored(t, k)}),
   visible     |-> Cardinality(Visible(t)),
   pending     |-> Cardinality(Pending(t)),
   unavailable |-> Cardinality({k \in Keys : Stored(t, k) /\ ~ t[k].available})]

(* The queries agree on what clients can see, however NULL and '' are      *)
(* spread over the rows without language (sqlite.go: "both steps are       *)
(* needed"): the count of a language in the sidebar is the number of rows  *)
(* that the lists of the periods have for it, never 0; the lists of all    *)
(* languages make up the unfiltered list, whose length /internal/stats     *)
(* gives; and every stored row is visible, pending or unavailable.         *)
QueriesAgreeOn(t) ==
  LET sidebar      == GetAggregatedLanguages(t)
      stats        == GetOperationalStats(t)
      inList(s, l) == Listed(t, s, l)
  IN  /\ \A a \in sidebar :
           /\ a.count = Cardinality(UNION {inList(s, a.key) : s \in Sinces})
           /\ a.count > 0
      /\ \A s \in Sinces :
           /\ inList(s, Empty) = UNION {inList(s, a.key) : a \in sidebar}
           /\ CountReposBySince(t)[s] = Cardinality(inList(s, Empty))
      /\ stats.stored = stats.visible + stats.pending + stats.unavailable

=============================================================================
