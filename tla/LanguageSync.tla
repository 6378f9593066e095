---------------------------- MODULE LanguageSync ----------------------------
(***************************************************************************)
(* syncLanguages (internal/scheduler/cron.go): the menu of languages on    *)
(* the GitHub page is scraped, the table trending_languages is overwritten *)
(* in one transaction, and the scheduler's language cache is set.          *)
(*                                                                         *)
(* The store opens one connection (SetMaxOpenConns(1)).  A transaction     *)
(* keeps it from Begin to Commit or Rollback, with an INSERT for each      *)
(* language in between, and a SELECT keeps it until its rows are closed;   *)
(* whoever else needs it waits.  syncLanguages takes no lock: the cold     *)
(* start, SyncAll and POST /internal/sync/languages may overlap.           *)
(***************************************************************************)
EXTENDS Naturals, Sequences, Functions

CONSTANTS
  Syncs,        \* goroutines that run syncLanguages
  Others,       \* goroutines that run other statements
  Menus,        \* what a scrape may give: sequences of language keys
  Nobody,       \* conn when the connection is free
  StoreFaults,  \* whether a statement may fail
  MaxCrashes    \* bound on the number of crashes

ASSUME LanguageAssumption ==
  /\ Menus \subseteq Seq(UNION {Range(m) : m \in Menus})
  /\ Syncs \cap Others = {} /\ Nobody \notin Syncs \cup Others
  /\ StoreFaults \in BOOLEAN /\ MaxCrashes \in Nat

Languages == UNION {Range(m) : m \in Menus}

VARIABLES
  table,    \* keys of trending_languages, as committed
  draft,    \* the same as the open transaction sees it
  conn,     \* who holds the connection
  pc,       \* where each goroutine is
  menu,     \* what a sync has scraped
  left,     \* what it still has to insert
  cached,   \* languageCache.languages
  crashes   \* how often the program crashed

vars == <<table, draft, conn, pc, menu, left, cached, crashes>>

InTransaction == {"delete", "insert", "rollback"}

TypeOK ==
  /\ table \subseteq Languages /\ draft \subseteq Languages
  /\ conn \in Syncs \cup Others \cup {Nobody}
  /\ pc \in [Syncs \cup Others -> {"idle", "begin", "cache", "rows"} \cup InTransaction]
  /\ menu \in [Syncs -> Menus \cup {<<>>}]
  /\ left \in [Syncs -> Seq(Languages)]
  /\ cached \in Menus \cup {<<>>}
  /\ crashes \in 0..MaxCrashes
  /\ draft = {} \/ conn \in Syncs
  /\ \A p \in Syncs \cup Others : conn = p <=> pc[p] \in InTransaction \cup {"rows"}

Init ==
  /\ table = {} /\ draft = {}
  /\ conn = Nobody
  /\ pc = [p \in Syncs \cup Others |-> "idle"]
  /\ menu = [g \in Syncs |-> <<>>] /\ left = [g \in Syncs |-> <<>>]
  /\ cached = <<>>
  /\ crashes = 0

Goto(p, label) == pc' = [pc EXCEPT ![p] = label]

\* What a statement does, or its failure, after which goroutine g goes on at label.
OrFails(effect, g, label) ==
  \/ effect
  \/ StoreFaults /\ Goto(g, label) /\ UNCHANGED <<table, draft, left>>

----------------------------------------------------------------------------
\* A failed scrape gives the empty menu, which is stored like any other.
Scrape(g) ==
  /\ pc[g] = "idle"
  /\ \E m \in Menus : menu' = [menu EXCEPT ![g] = m] /\ left' = [left EXCEPT ![g] = m]
  /\ Goto(g, "begin")
  /\ UNCHANGED <<table, draft, conn, cached, crashes>>

\* db.Begin waits for the connection.
Begin(g) ==
  /\ pc[g] = "begin" /\ conn = Nobody
  /\ \/ conn' = g /\ draft' = table /\ Goto(g, "delete")
     \/ StoreFaults /\ Goto(g, "cache") /\ UNCHANGED <<conn, draft>>
  /\ UNCHANGED <<table, menu, left, cached, crashes>>

\* DELETE FROM trending_languages, and the Prepare after it.
Delete(g) ==
  /\ pc[g] = "delete"
  /\ OrFails(draft' = {} /\ Goto(g, "insert") /\ UNCHANGED <<table, left>>, g, "rollback")
  /\ UNCHANGED <<conn, menu, cached, crashes>>

\* There is no transaction: every INSERT is committed by itself.
InsertAtOnce(g) ==
  /\ pc[g] = "insert" /\ left[g] # <<>> /\ Head(left[g]) \notin table
  /\ table' = table \cup {Head(left[g])}
  /\ left' = [left EXCEPT ![g] = Tail(@)]
  /\ UNCHANGED <<draft, pc, conn, menu, cached, crashes>>

Insert(g) ==
  /\ pc[g] = "insert" /\ left[g] # <<>> /\ Head(left[g]) \notin draft
  /\ OrFails(/\ draft' = draft \cup {Head(left[g])}
             /\ left' = [left EXCEPT ![g] = Tail(@)]
             /\ UNCHANGED <<pc, table>>, g, "rollback")
  /\ UNCHANGED <<conn, menu, cached, crashes>>

\* The transaction is tried again from its first statement.
DuplicateRetried(g) ==
  /\ pc[g] = "insert" /\ left[g] # <<>> /\ Head(left[g]) \in draft
  /\ left' = [left EXCEPT ![g] = menu[g]]
  /\ Goto(g, "delete")
  /\ UNCHANGED <<table, draft, conn, menu, cached, crashes>>

\* Two items of the page with one key: the second violates PRIMARY KEY.
Duplicate(g) ==
  /\ pc[g] = "insert" /\ left[g] # <<>> /\ Head(left[g]) \in draft
  /\ Goto(g, "rollback")
  /\ UNCHANGED <<table, draft, conn, menu, left, cached, crashes>>

\* database/sql takes the connection back whether Commit succeeds or not.
Commit(g) ==
  /\ pc[g] = "insert" /\ left[g] = <<>>
  /\ table' = draft \/ (StoreFaults /\ UNCHANGED table)
  /\ conn' = Nobody /\ draft' = {}
  /\ Goto(g, "cache")
  /\ UNCHANGED <<menu, left, cached, crashes>>

\* There is no defer tx.Rollback().
ReturnOnly(g) ==
  /\ pc[g] = "rollback"
  /\ Goto(g, "cache")
  /\ UNCHANGED <<table, draft, conn, menu, left, cached, crashes>>

\* The deferred Rollback.
Rollback(g) ==
  /\ pc[g] = "rollback"
  /\ conn' = Nobody /\ draft' = {}
  /\ Goto(g, "cache")
  /\ UNCHANGED <<table, menu, left, cached, crashes>>

\* The cache is set whatever UpsertLanguages returned.
SetCache(g) ==
  /\ pc[g] = "cache"
  /\ cached' = menu[g]
  /\ menu' = [menu EXCEPT ![g] = <<>>] /\ left' = [left EXCEPT ![g] = <<>>]
  /\ Goto(g, "idle")
  /\ UNCHANGED <<table, draft, conn, crashes>>

\* Another statement waits for the connection, and gives it back when it is done.
OpenRows(o) ==
  /\ pc[o] = "idle" /\ conn = Nobody
  /\ conn' = o /\ Goto(o, "rows")
  /\ UNCHANGED <<table, draft, menu, left, cached, crashes>>

CloseRows(o) ==
  /\ pc[o] = "rows"
  /\ conn' = Nobody /\ Goto(o, "idle")
  /\ UNCHANGED <<table, draft, menu, left, cached, crashes>>

\* What is not committed is lost with the process.
Crash ==
  /\ crashes < MaxCrashes
  /\ crashes' = crashes + 1
  /\ draft' = {} /\ conn' = Nobody
  /\ pc' = [p \in Syncs \cup Others |-> "idle"]
  /\ menu' = [g \in Syncs |-> <<>>] /\ left' = [g \in Syncs |-> <<>>]
  /\ cached' = <<>>
  /\ UNCHANGED table

----------------------------------------------------------------------------
Finish(g) ==
  Delete(g) \/ Insert(g) \/ Duplicate(g) \/ Commit(g) \/ Rollback(g) \/ SetCache(g)

Next ==
  \/ \E g \in Syncs : Scrape(g) \/ Begin(g) \/ Finish(g)
  \/ \E o \in Others : OpenRows(o) \/ CloseRows(o)
  \/ Crash

Spec == Init /\ [][Next]_vars

(***************************************************************************)
(* Whoever holds the connection goes on.  database/sql hands a connection  *)
(* that is given back to one of those who wait, so a sync that waits again *)
(* and again gets it: strong fairness.  Nobody has to start a sync.        *)
(***************************************************************************)
FairSpec ==
  /\ Spec
  /\ \A g \in Syncs : SF_vars(Begin(g)) /\ WF_vars(Finish(g))
  /\ \A o \in Others : WF_vars(CloseRows(o))

----------------------------------------------------------------------------
(***************************************************************************)
(* Properties                                                              *)
(***************************************************************************)

(* The committed table is always the whole menu of one scrape: a failure   *)
(* or a crash half way through 700 inserts, a key that the page lists      *)
(* twice, or two syncs at a time leave the table as one of them found or   *)
(* made it.                                                                *)
MenuIsWhole ==
  table = {} \/ \E m \in Menus : IsInjective(m) /\ table = Range(m)

(* Every sync ends, and with it every hold on the connection: no failing   *)
(* statement may leave a transaction open, since the next statement of any *)
(* goroutine would wait for ever.                                          *)
SyncsEnd == \A g \in Syncs : pc[g] # "idle" ~> pc[g] = "idle"

=============================================================================
