------------------------------ MODULE PageFlow ------------------------------
(***************************************************************************)
(* What becomes of one trending page: the spider takes the hrefs from the  *)
(* articles (internal/spider/repo.go), scrapeAndPersist checks and stores  *)
(* them (internal/scheduler/cron.go), RecomputePriorities ranks what is    *)
(* pending by captured_at (internal/store/sqlite.go), and the wiki-api is  *)
(* told in batches by a goroutine of its own (internal/notifier/wiki.go).  *)
(* Meanwhile the enricher completes rows, and rows of earlier pages that   *)
(* it has not got to yet are still there.                                  *)
(*                                                                         *)
(* A path is the sequence of what "/" separates: "/o/r" is <<Blank, o, r>>.*)
(* The table is that of TrendingStore; captured_at, which it leaves out,   *)
(* is added here as an age in syncs.  Items of one page have captured_at   *)
(* in page order, but equal ones within a second: their order is left      *)
(* open.  Languages are left to EnrichPipeline.                            *)
(***************************************************************************)
EXTENDS TrendingStore, Sequences, Functions

CONSTANTS
  Blank,        \* the empty string
  Segments,     \* the other strings between slashes
  Pages,        \* what the spider may find: sequences of hrefs
  since,        \* the period of the sync
  Notices,      \* goroutines of the notifier
  BatchSize,    \* 50 in the code
  TopLimit,     \* LIMIT 30 of RecomputePriorities
  NextLimit,    \* LIMIT 70
  MayFail,      \* the statements that may fail
  MaxAge        \* ages from here on are not told apart

Path == Seq(Segments \cup {Blank})

ASSUME PageAssumption ==
  /\ Blank \notin Segments
  /\ Pages \subseteq Seq(Path)
  /\ Repos \subseteq Path /\ since \in Sinces
  /\ BatchSize \in Nat \ {0} /\ TopLimit \in Nat /\ NextLimit \in Nat
  /\ MayFail \subseteq {"upsert", "zero", "top", "next", "rest"}
  /\ MaxAge \in Nat \ {0}

VARIABLES
  rows,      \* trending_repos
  age,       \* how many syncs ago each repo was last captured
  pc,        \* where the sync is
  items,     \* hrefs of the page that the sync has not come to
  repos,     \* what scrapeAndPersist has stored so far
  unsent,    \* what a notifier goroutine still has to send
  sent,      \* the batches it has sent or failed to send
  \* The last three only serve to state properties.
  page,      \* all hrefs of the page
  failed,    \* repos whose upsert failed
  due        \* the repos a notifier goroutine was started for

vars == <<rows, age, pc, items, repos, unsent, sent, page, failed, due>>

syncVars   == <<items, repos, page, failed>>
noticeVars == <<unsent, sent, due>>

RowOf(r) == <<r, since>>

TypeOK ==
  /\ rows \in Table
  /\ age \in [Repos -> 0..MaxAge]
  /\ pc \in {"idle", "upsert", "zero", "top", "next", "rest", "enrich"}
  /\ page \in Pages \cup {<<>>}
  /\ items \in {SubSeq(page, i, Len(page)) : i \in 1..Len(page) + 1}
  /\ repos \in Seq(Repos) /\ \A r \in Range(repos) : Stored(rows, RowOf(r))
  /\ unsent \in [Notices -> Seq(Path)] /\ sent \in [Notices -> Seq(Seq(Path))]
  /\ due \in [Notices -> SUBSET Repos] /\ failed \subseteq Repos

Init ==
  /\ rows = [k \in Keys |-> NoRow] /\ age = [r \in Repos |-> MaxAge]
  /\ pc = "idle" /\ items = <<>> /\ repos = <<>> /\ page = <<>> /\ failed = {}
  /\ unsent = [n \in Notices |-> <<>>] /\ sent = [n \in Notices |-> <<>>]
  /\ due = [n \in Notices |-> {}]

----------------------------------------------------------------------------
(***************************************************************************)
(* Paths                                                                   *)
(***************************************************************************)

\* The spider keeps the href as it is.
HrefAsIs(href) == href

\* strings.TrimPrefix(href, "/")
RepoOf(href) == IF Len(href) > 1 /\ Head(href) = Blank THEN Tail(href) ELSE href

\* SplitN(repo, "/", 2) gives two parts, and neither is empty.
WellFormed(repo) == Len(repo) >= 2 /\ Head(repo) # Blank /\ Tail(repo) # <<Blank>>

\* strings.Trim(name, "/")
Trimmed(name) ==
  LET solid == {i \in DOMAIN name : name[i] # Blank}
  IN  IF solid = {} THEN <<>>
      ELSE SubSeq(name, CHOOSE i \in solid : \A j \in solid : i <= j,
                        CHOOSE i \in solid : \A j \in solid : j <= i)

\* What NotifyRepos passes on, in order: names with a slash left in them.
Cleaned(names) ==
  LET kept   == {i \in DOMAIN names : Len(Trimmed(names[i])) >= 2}
      nth(m) == CHOOSE i \in kept : Cardinality({j \in kept : j <= i}) = m
  IN  [m \in 1..Cardinality(kept) |-> Trimmed(names[nth(m)])]

\* Repos, the values of full_name, has every name that a page can bring.
ASSUME NamesAssumption ==
  \A p \in Pages : \A i \in DOMAIN p : WellFormed(RepoOf(p[i])) => RepoOf(p[i]) \in Repos

(***************************************************************************)
(* What the code leaves to GitHub: a path that is not malformed has an     *)
(* owner and a name and no more, and no page names a repo twice.  Nothing  *)
(* in the code removes a duplicate.                                        *)
(***************************************************************************)
TidyPages ==
  \A p \in Pages : \A i, j \in DOMAIN p :
    WellFormed(RepoOf(p[i])) => /\ Len(RepoOf(p[i])) = 2
                                /\ RepoOf(p[i]) = RepoOf(p[j]) => i = j

----------------------------------------------------------------------------
(***************************************************************************)
(* The sync                                                                *)
(***************************************************************************)
Goto(label) == pc' = label

\* Scraping takes time: what was captured before is older than what comes.
BeginSync ==
  /\ pc = "idle"
  /\ age' = [r \in Repos |-> IF age[r] < MaxAge THEN age[r] + 1 ELSE MaxAge]
  /\ page' \in Pages /\ items' = page'
  /\ UNCHANGED <<repos, failed>>
  /\ Goto("upsert")
  /\ UNCHANGED <<rows, noticeVars>>

\* Parse drops an article whose path is empty, the scheduler one that is malformed.
Skip ==
  /\ pc = "upsert" /\ items # <<>> /\ ~ WellFormed(RepoOf(Head(items)))
  /\ items' = Tail(items)
  /\ UNCHANGED <<rows, age, pc, repos, page, failed, noticeVars>>

\* The continue after a failed upsert is missing.
UpsertGoesOn ==
  /\ pc = "upsert" /\ items # <<>>
  /\ items' = Tail(items)
  /\ LET repo == RepoOf(Head(items))
     IN  /\ WellFormed(repo)
         /\ \/ /\ rows' = UpsertRepo(rows, RowOf(repo), NoLang)
               /\ age' = [age EXCEPT ![repo] = 0]
               /\ UNCHANGED failed
            \/ /\ "upsert" \in MayFail
               /\ failed' = failed \cup {repo}
               /\ UNCHANGED <<rows, age>>
         /\ repos' = Append(repos, repo)
  /\ UNCHANGED <<pc, page, noticeVars>>

\* One item of the page, captured now.
Upsert ==
  /\ pc = "upsert" /\ items # <<>>
  /\ items' = Tail(items)
  /\ LET repo == RepoOf(Head(items))
     IN  /\ WellFormed(repo)
         /\ \/ /\ rows' = UpsertRepo(rows, RowOf(repo), NoLang)
               /\ age' = [age EXCEPT ![repo] = 0]
               /\ repos' = Append(repos, repo)
               /\ UNCHANGED failed
            \/ /\ "upsert" \in MayFail
               /\ failed' = failed \cup {repo}
               /\ UNCHANGED <<rows, age, repos>>
  /\ UNCHANGED <<pc, page, noticeVars>>

\* A statement of RecomputePriorities, or its failure.
Statement(label, effect, done, onError) ==
  /\ pc = label
  /\ \/ effect /\ Goto(done)
     \/ label \in MayFail /\ UNCHANGED rows /\ Goto(onError)
  /\ UNCHANGED <<age, syncVars, noticeVars>>

\* ORDER BY captured_at LIMIT: the oldest come first.
Earliest(candidates, limit) ==
  {K \in SUBSET candidates :
     /\ Cardinality(K) = IF Cardinality(candidates) < limit THEN Cardinality(candidates) ELSE limit
     /\ \A k \in K, j \in candidates \ K : age[k[1]] >= age[j[1]]}

\* ORDER BY captured_at DESC LIMIT; equal times leave the choice open.
Latest(candidates, limit) ==
  {K \in SUBSET candidates :
     /\ Cardinality(K) = IF Cardinality(candidates) < limit THEN Cardinality(candidates) ELSE limit
     /\ \A k \in K, j \in candidates \ K : age[k[1]] <= age[j[1]]}

Waiting == InSince(rows, since) \cap Pending(rows)

EndUpserts ==
  /\ pc = "upsert" /\ items = <<>>
  /\ Goto("zero")
  /\ UNCHANGED <<rows, age, syncVars, noticeVars>>

RecomputeZero == Statement("zero", rows' = ZeroPriorities(rows, since), "top", "top")

RecomputeTop ==
  Statement("top", \E K \in Latest(Waiting, TopLimit) : rows' = SetPriority(rows, K, 100),
            "next", "enrich")

RecomputeNext ==
  Statement("next", \E K \in Latest({k \in Waiting : rows[k].priority = 0}, NextLimit) :
                      rows' = SetPriority(rows, K, 50),
            "rest", "enrich")

RecomputeRest == Statement("rest", rows' = RestPriorities(rows, since), "enrich", "enrich")

\* The enricher, at any time, in this sync or beside it.
Settle ==
  /\ \E k \in Pending(rows) :
       rows' = UpdateEnriched(rows, k, NoLang) \/ rows' = MarkUnavailable(rows, k)
  /\ UNCHANGED <<age, pc, syncVars, noticeVars>>

\* A path of the page is a repo if it has an owner and a name.
Found ==
  {href \in Range(page) : Len(href) = 2 /\ Blank \notin Range(href)}
    \cup {Tail(href) : href \in {h \in Range(page) : Len(h) = 3 /\ Head(h) = Blank
                                                    /\ Blank \notin Range(Tail(h))}}

\* EnrichAll returns; NotifyRepos starts a goroutine unless nothing is left to tell.
Notify ==
  /\ pc = "enrich"
  /\ \/ Cleaned(repos) = <<>> /\ UNCHANGED noticeVars
     \/ \E n \in Notices :
          /\ Cleaned(repos) # <<>> /\ due[n] = {}
          /\ unsent' = [unsent EXCEPT ![n] = Cleaned(repos)]
          /\ due' = [due EXCEPT ![n] = Found \ failed]
          /\ UNCHANGED sent
  /\ Goto("idle")
  /\ repos' = <<>> /\ page' = <<>> /\ failed' = {}
  /\ UNCHANGED <<rows, age, items>>

----------------------------------------------------------------------------
(***************************************************************************)
(* batchNotify                                                             *)
(***************************************************************************)

Batch(n) ==
  SubSeq(unsent[n], 1, IF Len(unsent[n]) < BatchSize THEN Len(unsent[n]) ELSE BatchSize)

\* A failed batch goes to the end of the list, to be tried again.
SendRequeueing(n) ==
  /\ unsent[n] # <<>>
  /\ LET rest == SubSeq(unsent[n], BatchSize + 1, Len(unsent[n]))
     IN  \/ /\ sent' = [sent EXCEPT ![n] = Append(@, Batch(n))]
            /\ unsent' = [unsent EXCEPT ![n] = rest]
         \/ unsent' = [unsent EXCEPT ![n] = rest \o Batch(n)] /\ UNCHANGED sent
  /\ UNCHANGED <<rows, age, pc, syncVars, due>>

\* A batch is sent once; a failure is only logged, so both outcomes are this step.
Send(n) ==
  /\ unsent[n] # <<>>
  /\ sent' = [sent EXCEPT ![n] = Append(@, Batch(n))]
  /\ unsent' = [unsent EXCEPT ![n] = SubSeq(@, BatchSize + 1, Len(@))]
  /\ UNCHANGED <<rows, age, pc, syncVars, due>>

Told(n) == due[n] # {} /\ unsent[n] = <<>>

EndNotice(n) ==
  /\ Told(n)
  /\ sent' = [sent EXCEPT ![n] = <<>>] /\ due' = [due EXCEPT ![n] = {}]
  /\ UNCHANGED <<rows, age, pc, syncVars, unsent>>

Sync ==
  \/ BeginSync \/ Skip \/ Upsert \/ EndUpserts \/ RecomputeZero \/ RecomputeTop
  \/ RecomputeNext \/ RecomputeRest \/ Notify

Next == Sync \/ Settle \/ \E n \in Notices : Send(n) \/ EndNotice(n)

Spec == Init /\ [][Next]_vars

(***************************************************************************)
(* A request to the wiki-api times out after 10 s, so a notifier goroutine *)
(* goes on.                                                                *)
(***************************************************************************)
FairSpec == Spec /\ \A n \in Notices : WF_vars(Send(n) \/ EndNotice(n))

----------------------------------------------------------------------------
(***************************************************************************)
(* Properties                                                              *)
(***************************************************************************)

Fresh(k) == age[k[1]] = 0

\* Where a name stands in the batches: which batch, and which position in it.
Places(batches) == UNION {{<<b, i>> : i \in DOMAIN batches[b]} : b \in DOMAIN batches}

(* After RecomputePriorities the enricher takes what the page has just     *)
(* brought before what earlier pages have left, however the limits cut the *)
(* page, whatever workers complete between the statements, and even if     *)
(* upserts or later statements fail.  The first statement must not fail:   *)
(* its error is dropped, and old priorities would stay.                    *)
PageFirst ==
  pc = "enrich" =>
    \A k, j \in Waiting : Fresh(k) /\ ~ Fresh(j) => rows[k].priority >= rows[j].priority

(* From the page to the wiki-api: a sync passes on exactly the repos that  *)
(* its page names and whose upsert did not fail, whatever slashes the      *)
(* hrefs have, and the notifier tells each of them in one batch, once, and *)
(* nothing else, while later syncs are on their way (repo.go: a leading    *)
(* slash once cost the whole table).                                       *)
ToldOnce ==
  /\ pc = "enrich" => Range(Cleaned(repos)) = Found \ failed
  /\ \A n \in Notices : Told(n) =>
       /\ {sent[n][q[1]][q[2]] : q \in Places(sent[n])} = due[n]
       /\ Cardinality(Places(sent[n])) = Cardinality(due[n])
       /\ \A b \in DOMAIN sent[n] : Len(sent[n][b]) \in 1..BatchSize

(* Every notification ends, also if the wiki-api fails on every batch.     *)
NoticesEnd == \A n \in Notices : due[n] # {} ~> due[n] = {}

=============================================================================
