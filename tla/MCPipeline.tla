----------------------------- MODULE MCPipeline -----------------------------
(***************************************************************************)
(* Values for the constants of EnrichPipeline that a .cfg cannot write.    *)
(***************************************************************************)
EXTENDS EnrichPipeline, StoreQueries, TLC

\* A page that lists every repo without a language, one that lists a single
\* repo with every possible language, and the empty page of a failed scrape.
AnyPage ==
  {{}} \cup {Repos \X {NoLang}} \cup {{<<r, l>>} : r \in Repos, l \in Langs}

FullPage == {Repos \X {NoLang}}

\* The database is new.
NewDatabase == {[k \in Keys |-> NoRow]}

\* Or it has a visible row from the time when '' was stored.
OldDatabase ==
  LET old == [enriched |-> TRUE, available |-> TRUE, priority |-> 0, language |-> Empty]
  IN  NewDatabase \cup {[k \in Keys |-> IF k = j THEN old ELSE NoRow] : j \in Keys}

\* Every repo may be answered with a language, with none, with 404 or an error.
AnyAnswer    == [r \in Repos |-> Langs \cup {NoLang, NotFound, Failure}]
\* GitHub always answers, and knows every repo or has lost it.
SettlingAnswer == [r \in Repos |-> Langs \cup {NotFound}]
\* GitHub has one language for every repo.
KnownAnswer  == [r \in Repos |-> Langs]
\* One repo fails on every request, for instance because it is blocked (451).
PoisonedAnswer ==
  LET poison == CHOOSE r \in Repos : TRUE
  IN  [r \in Repos |-> IF r = poison THEN {Failure} ELSE Langs]

\* A cron tick or cold start of each period, or an EnrichAll alone.
SingleJobs == {<<s>> : s \in Sinces} \cup {<<Sweep>>}
SyncsOnly  == {<<s>> : s \in Sinces}

\* Cold start of one period, and a SyncAll over all of them in some order.
SyncAllPlans ==
  SyncsOnly \cup {q \in [1..Cardinality(Sinces) -> Sinces] :
                    \A i, j \in DOMAIN q : i # j => q[i] # q[j]}

(* Whatever the goroutines have made of the table, the queries agree on it. *)
QueriesAgree == QueriesAgreeOn(rows)

Symmetry == Permutations(Repos) \cup Permutations(Tasks) \cup Permutations(Workers)
============================================================================
