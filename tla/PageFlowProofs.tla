--------------------------- MODULE PageFlowProofs ---------------------------
(***************************************************************************)
(* Proofs about PageFlow: that its variables are what TypeOK says, that    *)
(* the newest rows of a page rank before older ones, and that every repo   *)
(* of a page is told to the wiki-api exactly once.                         *)
(***************************************************************************)
EXTENDS PageFlow, TrendingStoreProofs, SequenceTheorems, FiniteSetTheorems,
        WellFoundedInduction, TLAPS

----------------------------------------------------------------------------
(***************************************************************************)
(* Positions in a sequence                                                 *)
(***************************************************************************)

(* A set of naturals that is not empty has a least element.                *)
LEMMA Least ==
  ASSUME NEW T \in SUBSET Nat, T # {}
  PROVE  \E i \in T : \A j \in T : i <= j
<1>1. IsWellFoundedOn(OpToRel(<, Nat), Nat)
  BY NatLessThanWellFounded
<1>2. PICK i \in T : \A j \in T : ~ (<<j, i>> \in OpToRel(<, Nat))
  BY <1>1, WFMin
<1>3. ASSUME NEW j \in T PROVE i <= j
  <2>1. i \in Nat /\ j \in Nat
    OBVIOUS
  <2>2. ~ (j < i)
    BY <1>2, <2>1 DEF OpToRel
  <2> QED
    BY <2>1, <2>2
<1> QED
  BY <1>3

(* One with an upper bound has a greatest element.                         *)
LEMMA Greatest ==
  ASSUME NEW n \in Nat, NEW T \in SUBSET (0..n), T # {}
  PROVE  \E i \in T : \A j \in T : j <= i
<1> DEFINE D == {n - i : i \in T}
<1>1. D \in SUBSET Nat /\ D # {}
  <2>1. ASSUME NEW i \in T PROVE n - i \in Nat
    OBVIOUS
  <2> QED
    BY <2>1
<1>2. PICK d \in D : \A e \in D : d <= e
  BY <1>1, Least
<1>3. PICK i \in T : d = n - i
  BY <1>2
<1>4. ASSUME NEW j \in T PROVE j <= i
  <2>1. n - j \in D
    OBVIOUS
  <2>2. n - i <= n - j
    BY <1>2, <1>3, <2>1
  <2> QED
    BY <2>2
<1> QED
  BY <1>3, <1>4

(* The m-th of the positions in K exists.                                  *)
LEMMA NthPosition ==
  ASSUME NEW n \in Nat, NEW K \in SUBSET (1..n), NEW m \in 1..Cardinality(K)
  PROVE  \E i \in K : Cardinality({j \in K : j <= i}) = m
<1> DEFINE upTo(i) == {j \in K : j <= i}
           S       == {i \in 0..n : Cardinality(upTo(i)) >= m}
<1>0. \A j \in K : j \in 1..n
  OBVIOUS
<1>1. IsFiniteSet(K) /\ Cardinality(K) \in Nat
  <2>1. IsFiniteSet(1..n)
    BY FS_Interval
  <2> QED
    BY <2>1, FS_Subset, FS_CardinalityType
<1>2. \A i : IsFiniteSet(upTo(i)) /\ Cardinality(upTo(i)) \in Nat
  <2> TAKE i
  <2>1. upTo(i) \subseteq K
    OBVIOUS
  <2> HIDE DEF upTo
  <2> QED
    BY <1>1, <2>1, FS_Subset, FS_CardinalityType
<1>3. upTo(0) = {} /\ upTo(n) = K
  <2>1. ASSUME NEW j \in K PROVE ~ (j <= 0) /\ j <= n
    BY <1>0
  <2> QED
    BY <2>1
<1>4. n \in S /\ 0 \notin S
  <2>1. Cardinality(upTo(0)) = 0 /\ Cardinality(upTo(n)) = Cardinality(K)
    BY <1>3, FS_EmptySet
  <2> HIDE DEF upTo
  <2> QED
    BY <1>1, <2>1
<1>5. PICK i \in S : \A j \in S : i <= j
  <2>1. S \in SUBSET Nat
    OBVIOUS
  <2>2. S # {}
    BY <1>4
  <2> HIDE DEF S
  <2> QED
    BY <2>1, <2>2, Least
<1>6. i \in 1..n /\ Cardinality(upTo(i)) >= m /\ i - 1 \in 0..n
  BY <1>4, <1>5
<1>7. Cardinality(upTo(i - 1)) < m
  <2>1. i - 1 \notin S
    <3> HIDE DEF S
    <3> QED
      BY <1>5, <1>6
  <2> HIDE DEF upTo
  <2> QED
    BY <1>2, <1>6, <2>1
<1>8. i \in K
  <2>1. i \notin K => upTo(i) = upTo(i - 1)
    <3>1. ASSUME i \notin K, NEW j \in K PROVE j <= i <=> j <= i - 1
      BY <1>0, <1>6, <3>1
    <3> QED
      BY <3>1
  <2> HIDE DEF upTo
  <2> QED
    BY <1>2, <1>6, <1>7, <2>1
<1>9. Cardinality(upTo(i)) = Cardinality(upTo(i - 1)) + 1
  <2>1. upTo(i) = upTo(i - 1) \cup {i} /\ i \notin upTo(i - 1)
    <3>1. ASSUME NEW j \in K PROVE j <= i <=> j <= i - 1 \/ j = i
      BY <1>0, <1>6, <3>1
    <3>2. ~ (i <= i - 1)
      BY <1>6
    <3> QED
      BY <1>8, <3>1, <3>2
  <2> HIDE DEF upTo
  <2> QED
    BY <1>2, <2>1, FS_AddElement
<1>10. Cardinality(upTo(i)) = m
  <2> HIDE DEF upTo
  <2> QED
    BY <1>2, <1>6, <1>7, <1>9
<1> QED
  BY <1>8, <1>10

(* The rest of a sequence begins with the first element not yet passed.    *)
LEMMA NextItem ==
  ASSUME NEW S, NEW p \in Seq(S), NEW i \in 1..Len(p) + 1,
         NEW rest, rest = SubSeq(p, i, Len(p)), rest # <<>>
  PROVE  /\ i \in 1..Len(p) /\ Head(rest) = p[i]
         /\ Tail(rest) = SubSeq(p, i + 1, Len(p))
<1>1. Len(p) \in Nat
  BY LenProperties
<1>2. i <= Len(p)
  BY <1>1, SubSeqEmpty
<1> QED
  BY <1>1, <1>2, HeadTailOfSubSeq

----------------------------------------------------------------------------
(***************************************************************************)
(* Paths                                                                   *)
(***************************************************************************)

(* Trimming a path leaves a path.                                          *)
LEMMA TrimmedType ==
  ASSUME NEW name \in Path
  PROVE  Trimmed(name) \in Path
<1> DEFINE solid == {i \in DOMAIN name : name[i] # Blank}
           a == CHOOSE i \in solid : \A j \in solid : i <= j
           b == CHOOSE i \in solid : \A j \in solid : j <= i
<1>1. Len(name) \in Nat /\ DOMAIN name = 1..Len(name)
      /\ \A i \in 1..Len(name) : name[i] \in Segments \cup {Blank}
  BY LenProperties, ElementOfSeq DEF Path
<1>2. CASE solid = {}
  BY <1>2, EmptySeq DEF Trimmed, Path
<1>3. CASE solid # {}
  <2>1. solid \in SUBSET (1..Len(name)) /\ solid \in SUBSET Nat /\ solid \in SUBSET (0..Len(name))
    BY <1>1
  <2> HIDE DEF solid
  <2>2. a \in solid /\ b \in solid
    <3>1. (\E i \in solid : \A j \in solid : i <= j) /\ (\E i \in solid : \A j \in solid : j <= i)
      BY <1>1, <1>3, <2>1, Least, Greatest
    <3> QED
      BY <3>1
  <2> HIDE DEF a, b
  <2>3. a \in 1..Len(name) /\ b \in 1..Len(name)
    BY <2>1, <2>2
  <2>4. \A i \in a..b : name[i] \in Segments \cup {Blank}
    BY <1>1, <2>3
  <2>5. SubSeq(name, a, b) \in Path
    BY <2>3, <2>4, SubSeqProperties DEF Path
  <2> QED
    BY <1>3, <2>5 DEF Trimmed, solid, a, b
<1> QED
  BY <1>2, <1>3

(* NotifyRepos passes on paths, and each of them is a trimmed name.        *)
LEMMA CleanedType ==
  ASSUME NEW names \in Seq(Path)
  PROVE  Cleaned(names) \in Seq(Path)
<1> DEFINE kept   == {i \in DOMAIN names : Len(Trimmed(names[i])) >= 2}
           nth(m) == CHOOSE i \in kept : Cardinality({j \in kept : j <= i}) = m
<1>1. Len(names) \in Nat /\ DOMAIN names = 1..Len(names)
      /\ \A i \in 1..Len(names) : names[i] \in Path
  BY LenProperties, ElementOfSeq
<1>2. kept \in SUBSET (1..Len(names)) /\ IsFiniteSet(kept) /\ Cardinality(kept) \in Nat
  <2>1. kept \in SUBSET (1..Len(names))
    BY <1>1
  <2>2. IsFiniteSet(1..Len(names))
    BY <1>1, FS_Interval
  <2> HIDE DEF kept
  <2> QED
    BY <2>1, <2>2, FS_Subset, FS_CardinalityType
<1>3. Cleaned(names) = [m \in 1..Cardinality(kept) |-> Trimmed(names[nth(m)])]
  BY DEF Cleaned
<1> HIDE DEF kept
<1>4. ASSUME NEW m \in 1..Cardinality(kept) PROVE Trimmed(names[nth(m)]) \in Path
  <2>1. \E i \in kept : Cardinality({j \in kept : j <= i}) = m
    BY <1>1, <1>2, NthPosition
  <2>2. nth(m) \in kept
    BY <2>1
  <2> HIDE DEF nth
  <2> QED
    BY <1>1, <1>2, <2>2, TrimmedType
<1> HIDE DEF nth
<1> QED
  BY <1>2, <1>3, <1>4

(* The head and the tail of a path with a slash.                           *)
LEMMA PathTail ==
  ASSUME NEW h \in Path, Len(h) >= 2
  PROVE  /\ Head(h) = h[1] /\ Tail(h) \in Path /\ Len(Tail(h)) = Len(h) - 1
         /\ \A i \in 1..Len(h) - 1 : Tail(h)[i] = h[i + 1]
<1>1. h \in Seq(Segments \cup {Blank})
  BY DEF Path
<1>2. h # <<>>
  <2>1. Len(<<>>) = 0
    BY EmptySeq
  <2> QED
    BY <2>1
<1> QED
  BY <1>1, <1>2, HeadTailProperties DEF Path

(* The repos of a page are named by its well-formed paths.                 *)
LEMMA FoundIsNamed ==
  ASSUME page \in Seq(Path)
  PROVE  Found \subseteq {RepoOf(page[i]) : i \in {j \in 1..Len(page) : WellFormed(RepoOf(page[j]))}}
<1>1. SUFFICES ASSUME NEW r \in Found
               PROVE  \E i \in 1..Len(page) : RepoOf(page[i]) = r /\ WellFormed(r)
  OBVIOUS
<1>2. PICK h \in Range(page) :
        \/ Len(h) = 2 /\ Blank \notin Range(h) /\ r = h
        \/ Len(h) = 3 /\ Head(h) = Blank /\ Blank \notin Range(Tail(h)) /\ r = Tail(h)
  BY <1>1 DEF Found
<1>3. PICK i \in 1..Len(page) : h = page[i]
  BY RangeEquality
<1>4. h \in Path
  BY <1>3, ElementOfSeq
<1>5. r = RepoOf(h) /\ r \in Path /\ Len(r) = 2 /\ Blank \notin Range(r)
  <2>1. CASE Len(h) = 2 /\ Blank \notin Range(h) /\ r = h
    <3>1. Head(h) = h[1] /\ h[1] \in Range(h)
      BY <1>4, <2>1, LenProperties DEF Path, Range
    <3> QED
      BY <1>4, <2>1, <3>1 DEF RepoOf
  <2>2. CASE Len(h) = 3 /\ Head(h) = Blank /\ Blank \notin Range(Tail(h)) /\ r = Tail(h)
    <3>0. Len(h) >= 2 /\ 3 - 1 = 2
      BY <2>2
    <3>1. Tail(h) \in Path /\ Len(Tail(h)) = 2
      BY <1>4, <2>2, <3>0, PathTail
    <3> QED
      BY <2>2, <3>1 DEF RepoOf
  <2> QED
    BY <1>2, <2>1, <2>2
<1>6. r[1] \in Range(r) /\ r[2] \in Range(r) /\ Head(r) = r[1]
  BY <1>5, LenProperties DEF Path, Range
<1>7. Tail(r) # <<Blank>>
  <2>0. Len(r) >= 2 /\ 1 \in 1..Len(r) - 1 /\ 1 + 1 = 2
    BY <1>5
  <2>1. Tail(r)[1] = r[1 + 1]
    BY <1>5, <2>0, PathTail, Zenon
  <2>2. <<Blank>>[1] = Blank
    OBVIOUS
  <2> QED
    BY <1>5, <1>6, <2>0, <2>1, <2>2
<1>8. WellFormed(r)
  BY <1>5, <1>6, <1>7 DEF WellFormed
<1> QED
  BY <1>3, <1>5, <1>8

----------------------------------------------------------------------------
(***************************************************************************)
(* Types                                                                   *)
(***************************************************************************)

\* Nothing of the page is left once the upserts are over.
PageDone == pc # "upsert" => items = <<>>

Typing == TypeOK /\ PageDone

(* The statements of RecomputePriorities set the priority of rows of the   *)
(* period; no row comes or goes, and none starts or stops to wait.         *)
LEMMA StatementRows ==
  ASSUME rows \in Table, NEW K \in SUBSET InSince(rows, since), NEW prio \in Priorities,
         rows' = SetPriority(rows, K, prio)
  PROVE  /\ rows' \in Table
         /\ \A k \in Keys : Stored(rows', k) <=> Stored(rows, k)
         /\ Pending(rows') = Pending(rows) /\ InSince(rows', since) = InSince(rows, since)
         /\ \A k \in K : rows'[k].priority = prio
         /\ \A k \in Keys \ K : rows'[k] = rows[k]
<1>1. K \in SUBSET Keys /\ \A k \in K : Stored(rows, k)
  BY DEF InSince
<1>2. /\ rows' \in Table
      /\ \A k \in Keys : /\ Stored(rows', k) <=> Stored(rows, k)
                         /\ Stored(rows, k) => /\ rows'[k].enriched = rows[k].enriched
                                               /\ rows'[k].available = rows[k].available
  BY <1>1, PriorityRows
<1>3. Pending(rows') = Pending(rows) /\ InSince(rows', since) = InSince(rows, since)
  BY <1>2 DEF Pending, Available, InSince
<1>4. \A k \in Keys : (k \in K => rows'[k].priority = prio) /\ (k \notin K => rows'[k] = rows[k])
  BY <1>1, PriorityOf
<1> QED
  BY <1>1, <1>2, <1>3, <1>4

(* What a failing or succeeding statement does to the rows.                *)
LEMMA StatementStep ==
  ASSUME rows \in Table,
         RecomputeZero \/ RecomputeTop \/ RecomputeNext \/ RecomputeRest
  PROVE  /\ \/ UNCHANGED rows
            \/ \E K \in SUBSET InSince(rows, since), prio \in Priorities :
                 rows' = SetPriority(rows, K, prio)
         /\ pc \in {"zero", "top", "next", "rest"} /\ pc' \in {"top", "next", "rest", "enrich"}
         /\ UNCHANGED <<age, syncVars, noticeVars>>
<1>1. {0, 10, 50, 100} = Priorities
  BY DEF Priorities
<1>2. CASE RecomputeZero
  <2>1. InSince(rows, since) \in SUBSET InSince(rows, since)
    OBVIOUS
  <2> QED
    BY <1>1, <1>2, <2>1 DEF RecomputeZero, Statement, Goto, ZeroPriorities
<1>3. CASE RecomputeTop
  <2>1. \A K \in Latest(Waiting, TopLimit) : K \in SUBSET InSince(rows, since)
    BY DEF Latest, Waiting
  <2> QED
    BY <1>1, <1>3, <2>1 DEF RecomputeTop, Statement, Goto
<1>4. CASE RecomputeNext
  <2>1. \A K \in Latest({k \in Waiting : rows[k].priority = 0}, NextLimit) :
          K \in SUBSET InSince(rows, since)
    BY DEF Latest, Waiting
  <2> QED
    BY <1>1, <1>4, <2>1 DEF RecomputeNext, Statement, Goto
<1>5. CASE RecomputeRest
  <2>1. {k \in InSince(rows, since) : rows[k].priority = 0 /\ ~ rows[k].enriched}
          \in SUBSET InSince(rows, since)
    OBVIOUS
  <2> QED
    BY <1>1, <1>5, <2>1 DEF RecomputeRest, Statement, Goto, RestPriorities
<1> QED
  BY <1>2, <1>3, <1>4, <1>5

(* The enricher takes at most one row from those that wait.                *)
LEMMA SettleRows ==
  ASSUME rows \in Table, Settle
  PROVE  /\ rows' \in Table
         /\ \A k \in Keys : Stored(rows', k) <=> Stored(rows, k)
         /\ Waiting' \subseteq Waiting
         /\ \A k \in Waiting' : rows'[k].priority = rows[k].priority
<1>1. PICK k \in Pending(rows) :
        rows' = UpdateEnriched(rows, k, NoLang) \/ rows' = MarkUnavailable(rows, k)
  BY DEF Settle
<1>2. k \in Keys /\ Stored(rows, k) /\ NoLang \in Language
  BY DEF Pending, Available, Language
<1>3. /\ rows' \in Table
      /\ \A j \in Keys \ {k} : rows'[j] = rows[j]
      /\ Stored(rows', k) /\ (rows'[k].enriched \/ ~ rows'[k].available)
  <2>1. CASE rows' = UpdateEnriched(rows, k, NoLang)
    BY <1>2, <2>1, EnrichedRow
  <2>2. CASE rows' = MarkUnavailable(rows, k)
    BY <1>2, <2>2, UnavailableRow
  <2> QED
    BY <1>1, <2>1, <2>2
<1>4. \A j \in Keys : Stored(rows', j) <=> Stored(rows, j)
  BY <1>2, <1>3 DEF Stored
<1>5. k \notin Waiting'
  BY <1>2, <1>3 DEF Waiting, Pending, Available
<1>6. \A j \in Waiting' : j \in Keys \ {k} /\ rows'[j] = rows[j] /\ j \in Waiting
  BY <1>3, <1>5 DEF Waiting, Pending, Available, InSince, Stored
<1> QED
  BY <1>3, <1>4, <1>6

(* The page is a sequence of paths, and what is left of it a part of it.   *)
LEMMA PageTypes ==
  ASSUME page \in Pages \cup {<<>>}
  PROVE  page \in Seq(Path) /\ Len(page) \in Nat
  BY PageAssumption, EmptySeq, LenProperties

(* What the next path of the page is, and what is left after it.           *)
LEMMA NextHref ==
  ASSUME Typing, pc = "upsert", items # <<>>, WellFormed(RepoOf(Head(items)))
  PROVE  RepoOf(Head(items)) \in Repos /\ RowOf(RepoOf(Head(items))) \in Keys
<1>1. page \in Seq(Path) /\ Len(page) \in Nat
  BY PageTypes DEF Typing, TypeOK
<1>2. PICK i \in 1..Len(page) + 1 : items = SubSeq(page, i, Len(page))
  BY DEF Typing, TypeOK
<1>3. i \in 1..Len(page) /\ Head(items) = page[i]
  BY <1>1, <1>2, NextItem
<1>4. page \in Pages /\ i \in DOMAIN page
  <2>1. page # <<>>
    BY <1>1, <1>3, EmptySeq
  <2> QED
    BY <1>1, <1>3, <2>1, LenProperties DEF Typing, TypeOK
<1>5. RepoOf(Head(items)) \in Repos
  BY <1>3, <1>4, NamesAssumption
<1> QED
  BY <1>5, PageAssumption DEF RowOf, Keys

(* Passing a path leaves a part of the page.                               *)
LEMMA TailOfPage ==
  ASSUME Typing, items # <<>>, items' = Tail(items), page' = page
  PROVE  items' \in {SubSeq(page', i, Len(page')) : i \in 1..Len(page') + 1}
<1>1. page \in Seq(Path) /\ Len(page) \in Nat
  BY PageTypes DEF Typing, TypeOK
<1>2. PICK i \in 1..Len(page) + 1 : items = SubSeq(page, i, Len(page))
  BY DEF Typing, TypeOK
<1>3. i \in 1..Len(page) /\ Tail(items) = SubSeq(page, i + 1, Len(page))
  BY <1>1, <1>2, NextItem
<1>4. i + 1 \in 1..Len(page') + 1 /\ items' = SubSeq(page', i + 1, Len(page'))
  BY <1>1, <1>3
<1> QED
  BY <1>4

(* The empty table, and no page and nothing to tell.                       *)
LEMMA TypeInit == Init => Typing
<1> SUFFICES ASSUME Init PROVE Typing
  OBVIOUS
<1>1. rows \in Table
  BY DEF Init, Table
<1>2. age \in [Repos -> 0..MaxAge]
  BY PageAssumption DEF Init
<1>3. items \in {SubSeq(page, i, Len(page)) : i \in 1..Len(page) + 1}
  <2>1. Len(<<>>) = 0
    BY EmptySeq
  <2>2. SubSeq(<<>>, 1, 0) = <<>> /\ 1 \in 1..0 + 1
    BY SubSeqEmpty
  <2>3. page = <<>> /\ items = <<>> /\ Len(page) = 0
    BY <2>1 DEF Init
  <2>4. items = SubSeq(page, 1, Len(page)) /\ 1 \in 1..Len(page) + 1
    BY <2>2, <2>3
  <2> QED
    BY <2>4
<1>4. repos \in Seq(Repos) /\ \A r \in Range(repos) : Stored(rows, RowOf(r))
  <2>1. repos = <<>> /\ <<>> \in Seq(Repos) /\ DOMAIN <<>> = {}
    BY EmptySeq DEF Init
  <2> QED
    BY <2>1 DEF Range
<1>5. unsent \in [Notices -> Seq(Path)] /\ sent \in [Notices -> Seq(Seq(Path))]
  <2>1. <<>> \in Seq(Path) /\ <<>> \in Seq(Seq(Path))
    BY EmptySeq
  <2> QED
    BY <2>1 DEF Init
<1>6. due \in [Notices -> SUBSET Repos] /\ failed \subseteq Repos
  BY DEF Init
<1>7. pc = "idle" /\ page = <<>> /\ items = <<>>
  BY DEF Init
<1> QED
  BY <1>1, <1>2, <1>3, <1>4, <1>5, <1>6, <1>7 DEF Typing, TypeOK, PageDone

(* Every step keeps the types.                                             *)
LEMMA TypeStep == Typing /\ [Next]_vars => Typing'
<1> SUFFICES ASSUME Typing, [Next]_vars PROVE Typing'
  OBVIOUS
<1> DEFINE Stays == \A r \in Range(repos) : Stored(rows, RowOf(r))
<1>1. /\ rows \in Table /\ age \in [Repos -> 0..MaxAge]
      /\ page \in Pages \cup {<<>>}
      /\ items \in {SubSeq(page, i, Len(page)) : i \in 1..Len(page) + 1}
      /\ repos \in Seq(Repos) /\ Stays
      /\ unsent \in [Notices -> Seq(Path)] /\ sent \in [Notices -> Seq(Seq(Path))]
      /\ due \in [Notices -> SUBSET Repos] /\ failed \subseteq Repos
  BY DEF Typing, TypeOK
<1>2. Range(repos) \subseteq Repos /\ \A r \in Repos : RowOf(r) \in Keys
  BY <1>1, RangeOfSeq, PageAssumption DEF RowOf, Keys
<1>3. CASE BeginSync
  <2>1. age' \in [Repos -> 0..MaxAge]
    <3>1. \A r \in Repos : (IF age[r] < MaxAge THEN age[r] + 1 ELSE MaxAge) \in 0..MaxAge
      BY <1>1, PageAssumption
    <3> QED
      BY <1>3, <3>1 DEF BeginSync
  <2>2. page' \in Pages /\ items' = page'
    BY <1>3 DEF BeginSync
  <2>3. items' \in {SubSeq(page', i, Len(page')) : i \in 1..Len(page') + 1}
    <3>1. page' \in Seq(Path)
      BY <2>2, PageAssumption
    <3>2. page' = SubSeq(page', 1, Len(page')) /\ 1 \in 1..Len(page') + 1
      BY <3>1, SubSeqFull, LenProperties
    <3> QED
      BY <2>2, <3>2
  <2> QED
    BY <1>1, <1>3, <2>1, <2>2, <2>3
    DEF BeginSync, Goto, noticeVars, Typing, TypeOK, PageDone
<1>4. CASE Skip
  <2>1. items' \in {SubSeq(page', i, Len(page')) : i \in 1..Len(page') + 1}
    BY <1>4, TailOfPage DEF Skip
  <2> QED
    BY <1>1, <1>4, <2>1 DEF Skip, noticeVars, Typing, TypeOK, PageDone
<1>5. CASE Upsert
  <2> DEFINE repo == RepoOf(Head(items))
  <2>1. repo \in Repos /\ RowOf(repo) \in Keys
    BY <1>5, NextHref DEF Upsert
  <2>2. items' \in {SubSeq(page', i, Len(page')) : i \in 1..Len(page') + 1}
    BY <1>5, TailOfPage DEF Upsert
  <2>3. \/ /\ rows' = UpsertRepo(rows, RowOf(repo), NoLang)
           /\ age' = [age EXCEPT ![repo] = 0]
           /\ repos' = Append(repos, repo) /\ failed' = failed
        \/ failed' = failed \cup {repo} /\ UNCHANGED <<rows, age, repos>>
    BY <1>5 DEF Upsert
  <2>4. UNCHANGED <<pc, page, noticeVars>> /\ pc = "upsert"
    BY <1>5 DEF Upsert
  <2> HIDE DEF repo
  <2>5. /\ rows' \in Table /\ age' \in [Repos -> 0..MaxAge] /\ repos' \in Seq(Repos)
        /\ Stays' /\ failed' \subseteq Repos
    <3>1. CASE /\ rows' = UpsertRepo(rows, RowOf(repo), NoLang)
               /\ age' = [age EXCEPT ![repo] = 0]
               /\ repos' = Append(repos, repo) /\ failed' = failed
      <4>1. /\ rows' \in Table /\ Stored(rows', RowOf(repo))
            /\ \A k \in Keys \ {RowOf(repo)} : rows'[k] = rows[k]
        BY <1>1, <2>1, <3>1, UpsertRow DEF Language
      <4>2. age' \in [Repos -> 0..MaxAge]
        BY <1>1, <2>1, <3>1, PageAssumption
      <4>3. repos' \in Seq(Repos) /\ Len(repos') = Len(repos) + 1
            /\ repos'[Len(repos) + 1] = repo /\ \A i \in 1..Len(repos) : repos'[i] = repos[i]
        BY <1>1, <2>1, <3>1, AppendProperties
      <4>4. ASSUME NEW r \in Range(repos') PROVE r \in Range(repos) \/ r = repo
        <5>1. PICK i \in 1..Len(repos) + 1 : r = repos'[i]
          BY <4>3, RangeEquality
        <5>2. Len(repos) \in Nat /\ DOMAIN repos = 1..Len(repos)
          BY <1>1, LenProperties
        <5>3. CASE i = Len(repos) + 1
          BY <4>3, <5>1, <5>3
        <5>4. CASE i \in 1..Len(repos)
          BY <4>3, <5>1, <5>2, <5>4 DEF Range
        <5> QED
          BY <5>2, <5>3, <5>4
      <4>5. Stays'
        <5>1. ASSUME NEW r \in Range(repos') PROVE Stored(rows', RowOf(r))
          BY <1>1, <1>2, <4>1, <4>4 DEF Stored
        <5> QED
          BY <5>1
      <4> QED
        BY <1>1, <3>1, <4>1, <4>2, <4>3, <4>5
    <3>2. CASE failed' = failed \cup {repo} /\ UNCHANGED <<rows, age, repos>>
      BY <1>1, <2>1, <3>2
    <3> QED
      BY <2>3, <3>1, <3>2
  <2> QED
    BY <1>1, <2>2, <2>4, <2>5 DEF noticeVars, Typing, TypeOK, PageDone
<1>6. CASE EndUpserts
  BY <1>1, <1>6 DEF EndUpserts, Goto, syncVars, noticeVars, Typing, TypeOK, PageDone
<1>7. CASE RecomputeZero \/ RecomputeTop \/ RecomputeNext \/ RecomputeRest
  <2>1. /\ \/ UNCHANGED rows
           \/ \E K \in SUBSET InSince(rows, since), prio \in Priorities :
                rows' = SetPriority(rows, K, prio)
        /\ pc \in {"zero", "top", "next", "rest"} /\ pc' \in {"top", "next", "rest", "enrich"}
        /\ UNCHANGED <<age, syncVars, noticeVars>>
    BY <1>1, <1>7, StatementStep
  <2>2. rows' \in Table /\ \A k \in Keys : Stored(rows', k) <=> Stored(rows, k)
    <3>1. CASE UNCHANGED rows
      BY <1>1, <3>1 DEF Stored
    <3>2. CASE \E K \in SUBSET InSince(rows, since), prio \in Priorities :
                 rows' = SetPriority(rows, K, prio)
      BY <1>1, <3>2, StatementRows
    <3> QED
      BY <2>1, <3>1, <3>2
  <2>3. Stays'
    <3>1. ASSUME NEW r \in Range(repos) PROVE Stored(rows', RowOf(r))
      BY <1>1, <1>2, <2>2
    <3> QED
      BY <2>1, <3>1 DEF syncVars
  <2> QED
    BY <1>1, <2>1, <2>2, <2>3 DEF syncVars, noticeVars, Typing, TypeOK, PageDone
<1>8. CASE Notify
  <2>1. /\ pc' = "idle" /\ repos' = <<>> /\ page' = <<>> /\ failed' = {}
        /\ UNCHANGED <<rows, age, items>> /\ items = <<>>
    BY <1>8 DEF Notify, Goto, Typing, PageDone
  <2>2. repos' \in Seq(Repos) /\ Range(repos') = {}
    <3>1. <<>> \in Seq(Repos) /\ DOMAIN <<>> = {}
      BY EmptySeq
    <3> QED
      BY <2>1, <3>1 DEF Range
  <2>3. items' \in {SubSeq(page', i, Len(page')) : i \in 1..Len(page') + 1}
    <3>1. Len(<<>>) = 0 /\ SubSeq(<<>>, 1, 0) = <<>> /\ 1 \in 1..0 + 1
      BY EmptySeq, SubSeqEmpty
    <3>2. items' = SubSeq(page', 1, Len(page')) /\ 1 \in 1..Len(page') + 1
      BY <2>1, <3>1
    <3> QED
      BY <3>2
  <2>4. Cleaned(repos) \in Seq(Path)
    <3>1. repos \in Seq(Path)
      BY <1>1, SeqMonotonic, PageAssumption
    <3> QED
      BY <3>1, CleanedType
  <2>5. Found \subseteq Repos
    <3>1. page \in Seq(Path) /\ DOMAIN page = 1..Len(page)
      BY <1>1, PageTypes, LenProperties
    <3>2. \A i \in 1..Len(page) : WellFormed(RepoOf(page[i])) => RepoOf(page[i]) \in Repos
      <4>1. CASE page \in Pages
        BY <3>1, <4>1, NamesAssumption
      <4>2. CASE page = <<>>
        BY <4>2, EmptySeq
      <4> QED
        BY <1>1, <4>1, <4>2
    <3> QED
      BY <3>1, <3>2, FoundIsNamed
  <2>6. /\ unsent' \in [Notices -> Seq(Path)] /\ sent' \in [Notices -> Seq(Seq(Path))]
        /\ due' \in [Notices -> SUBSET Repos]
    <3>1. CASE UNCHANGED noticeVars
      BY <1>1, <3>1 DEF noticeVars
    <3>2. CASE \E n \in Notices : /\ unsent' = [unsent EXCEPT ![n] = Cleaned(repos)]
                                 /\ due' = [due EXCEPT ![n] = Found \ failed]
                                 /\ UNCHANGED sent
      BY <1>1, <2>4, <2>5, <3>2
    <3> QED
      BY <1>8, <3>1, <3>2 DEF Notify
  <2> QED
    BY <1>1, <2>1, <2>2, <2>3, <2>6 DEF Typing, TypeOK, PageDone
<1>9. CASE Settle
  <2>1. rows' \in Table /\ \A k \in Keys : Stored(rows', k) <=> Stored(rows, k)
    BY <1>1, <1>9, SettleRows
  <2>2. \A r \in Range(repos) : Stored(rows', RowOf(r))
    BY <1>1, <1>2, <2>1
  <2>3. UNCHANGED <<age, pc, syncVars, noticeVars>>
    BY <1>9 DEF Settle
  <2> QED
    BY <1>1, <2>1, <2>2, <2>3 DEF syncVars, noticeVars, Typing, TypeOK, PageDone
<1>10. ASSUME NEW n \in Notices, Send(n) PROVE Typing'
  <2>1. unsent[n] \in Seq(Path) /\ unsent[n] # <<>> /\ Len(unsent[n]) \in Nat
        /\ \A i \in 1..Len(unsent[n]) : unsent[n][i] \in Path
    BY <1>1, <1>10, LenProperties, ElementOfSeq DEF Send
  <2>2. Batch(n) \in Seq(Path) /\ SubSeq(unsent[n], BatchSize + 1, Len(unsent[n])) \in Seq(Path)
    BY <2>1, PageAssumption, SubSeqProperties DEF Batch
  <2>3. Append(sent[n], Batch(n)) \in Seq(Seq(Path))
    BY <1>1, <2>2, AppendProperties
  <2>4. unsent' \in [Notices -> Seq(Path)] /\ sent' \in [Notices -> Seq(Seq(Path))]
    BY <1>1, <1>10, <2>2, <2>3 DEF Send
  <2>5. UNCHANGED <<rows, age, pc, syncVars, due>>
    BY <1>10 DEF Send
  <2> QED
    BY <1>1, <2>4, <2>5 DEF syncVars, Typing, TypeOK, PageDone
<1>11. ASSUME NEW n \in Notices, EndNotice(n) PROVE Typing'
  <2>1. <<>> \in Seq(Seq(Path))
    BY EmptySeq
  <2>2. sent' \in [Notices -> Seq(Seq(Path))] /\ due' \in [Notices -> SUBSET Repos]
    BY <1>1, <1>11, <2>1 DEF EndNotice
  <2>3. UNCHANGED <<rows, age, pc, syncVars, unsent>>
    BY <1>11 DEF EndNotice
  <2> QED
    BY <1>1, <2>2, <2>3 DEF syncVars, Typing, TypeOK, PageDone
<1>12. CASE UNCHANGED vars
  BY <1>1, <1>12 DEF vars, Typing, TypeOK, PageDone
<1> QED
  BY <1>3, <1>4, <1>5, <1>6, <1>7, <1>8, <1>9, <1>10, <1>11, <1>12 DEF Next, Sync

(* In every run the variables have their types: above all, what is left of *)
(* the page is always its end, and every repo that the sync counts as      *)
(* stored has a row, also while an enricher completes rows beside it.      *)
THEOREM PageTyping == Spec => []TypeOK
<1>1. Typing => TypeOK
  BY DEF Typing
<1> QED
  BY <1>1, TypeInit, TypeStep, PTL DEF Spec

----------------------------------------------------------------------------
(***************************************************************************)
(* The ranking                                                             *)
(***************************************************************************)

Ranked ==
  \A k, j \in Waiting : Fresh(k) /\ ~ Fresh(j) => rows[k].priority >= rows[j].priority

(* How the ranking comes about: the first statement levels every row that  *)
(* waits, the second lifts some of them to 100, and from then on no row of *)
(* this page is below one of an earlier page.                              *)
RankOK ==
  /\ pc = "top" => \A k \in Waiting : rows[k].priority = 0
  /\ pc = "next" => \A k \in Waiting : rows[k].priority \in {0, 100}
  /\ pc \in {"next", "rest", "enrich"} => Ranked

(* Rows that wait are proper rows of repos that have an age.               *)
LEMMA WaitingRow ==
  ASSUME TypeOK, NEW k \in Waiting
  PROVE  /\ k \in Keys /\ Stored(rows, k) /\ k \in InSince(rows, since)
         /\ rows[k].priority \in {0, 10, 50, 100} /\ ~ rows[k].enriched
         /\ age[k[1]] \in Nat
<1>1. k \in Keys /\ Stored(rows, k) /\ k \in InSince(rows, since) /\ ~ rows[k].enriched
  BY DEF Waiting, Pending, Available, InSince
<1>2. rows[k].priority \in {0, 10, 50, 100}
  BY <1>1, StoredRow DEF TypeOK, Priorities
<1>3. age[k[1]] \in Nat
  BY <1>1, PageAssumption DEF TypeOK, Keys
<1> QED
  BY <1>1, <1>2, <1>3

(* No choice by captured_at takes an older row and leaves a fresh one.     *)
LEMMA LatestTakesFresh ==
  ASSUME TypeOK, NEW C \in SUBSET Waiting, NEW limit, NEW K \in Latest(C, limit),
         NEW k \in C, NEW j \in K, Fresh(k), ~ Fresh(j)
  PROVE  k \in K
<1>1. j \in Waiting /\ k \in Waiting
  BY DEF Latest
<1>2. age[j[1]] \in Nat /\ age[k[1]] = 0 /\ age[j[1]] # 0
  BY <1>1, WaitingRow DEF Fresh
<1>3. ~ (age[j[1]] <= age[k[1]])
  BY <1>2
<1> QED
  BY <1>3 DEF Latest

(* A table where as many wait as before, each with its old priority, is    *)
(* ranked as before.                                                       *)
LEMMA RankKept ==
  ASSUME RankOK, pc' = pc, UNCHANGED age, Waiting' \subseteq Waiting,
         \A k \in Waiting' : rows'[k].priority = rows[k].priority
  PROVE  RankOK'
<1>1. ASSUME pc = "top" PROVE \A k \in Waiting' : rows'[k].priority = 0
  BY <1>1 DEF RankOK
<1>2. ASSUME pc = "next" PROVE \A k \in Waiting' : rows'[k].priority \in {0, 100}
  <2>1. \A k \in Waiting : rows[k].priority \in {0, 100}
    BY <1>2 DEF RankOK
  <2> QED
    BY <2>1
<1>3. ASSUME pc \in {"next", "rest", "enrich"} PROVE Ranked'
  <2>1. Ranked
    BY <1>3 DEF RankOK
  <2>2. ASSUME NEW k \in Waiting', NEW j \in Waiting', Fresh(k)', ~ Fresh(j)'
        PROVE  rows'[k].priority >= rows'[j].priority
    <3>1. k \in Waiting /\ j \in Waiting /\ Fresh(k) /\ ~ Fresh(j)
      BY <2>2 DEF Fresh
    <3>2. rows[k].priority >= rows[j].priority
      BY <2>1, <3>1 DEF Ranked
    <3> QED
      BY <3>2
  <2> QED
    BY <2>2 DEF Ranked, Fresh
<1> QED
  BY <1>1, <1>2, <1>3 DEF RankOK

(* The statements rank the rows, whichever of the last three fails.        *)
LEMMA RankStatements ==
  ASSUME "zero" \notin MayFail, TypeOK, RankOK,
         RecomputeZero \/ RecomputeTop \/ RecomputeNext \/ RecomputeRest
  PROVE  RankOK'
<1> DEFINE Fr(k) == age[k[1]] = 0
<1>1. rows \in Table /\ UNCHANGED age /\ \A k : Fresh(k)' <=> Fr(k)
  BY StatementStep DEF TypeOK, Fresh
<1>2. \A k : Fresh(k) <=> Fr(k)
  BY DEF Fresh
<1>3. Ranked' <=> \A k, j \in Waiting' : Fr(k) /\ ~ Fr(j) => rows'[k].priority >= rows'[j].priority
  BY <1>1 DEF Ranked, Fresh
<1>4. Ranked <=> \A k, j \in Waiting : Fr(k) /\ ~ Fr(j) => rows[k].priority >= rows[j].priority
  BY DEF Ranked, Fresh
<1>5. {0, 10, 50, 100} = Priorities
  BY DEF Priorities
<1> HIDE DEF Fr
<1>6. CASE RecomputeZero
  <2>1. pc = "zero" /\ pc' = "top" /\ rows' = ZeroPriorities(rows, since)
    BY <1>6 DEF RecomputeZero, Statement, Goto
  <2>2. InSince(rows, since) \in SUBSET InSince(rows, since) /\ 0 \in Priorities
    BY <1>5
  <2>3. /\ \A k \in InSince(rows, since) : rows'[k].priority = 0
        /\ InSince(rows', since) = InSince(rows, since)
    BY <1>1, <2>1, <2>2, StatementRows DEF ZeroPriorities
  <2>4. \A k \in Waiting' : rows'[k].priority = 0
    BY <2>3 DEF Waiting
  <2> QED
    BY <2>1, <2>4 DEF RankOK
<1>7. CASE RecomputeTop
  <2>1. pc = "top" /\ \A k \in Waiting : rows[k].priority = 0
    BY <1>7 DEF RecomputeTop, Statement, RankOK
  <2>2. CASE UNCHANGED rows /\ pc' = "enrich"
    <3>1. Waiting' = Waiting
      BY <2>2 DEF Waiting
    <3>2. \A k, j \in Waiting' : rows'[k].priority >= rows'[j].priority
      <4>1. \A k, j \in Waiting' : rows'[k].priority = 0 /\ rows'[j].priority = 0
        BY <2>1, <2>2, <3>1
      <4> QED
        BY <4>1
    <3> QED
      BY <1>3, <2>2, <3>2 DEF RankOK
  <2>3. CASE pc' = "next" /\ \E K \in Latest(Waiting, TopLimit) : rows' = SetPriority(rows, K, 100)
    <3>1. PICK K \in Latest(Waiting, TopLimit) : rows' = SetPriority(rows, K, 100)
      BY <2>3
    <3>2. K \in SUBSET InSince(rows, since) /\ K \subseteq Waiting /\ 100 \in Priorities
      BY <1>5 DEF Latest, Waiting
    <3>3. /\ Pending(rows') = Pending(rows) /\ InSince(rows', since) = InSince(rows, since)
          /\ \A k \in K : rows'[k].priority = 100
          /\ \A k \in Keys \ K : rows'[k] = rows[k]
      BY <1>1, <3>1, <3>2, StatementRows
    <3>4. Waiting' = Waiting
      BY <3>3 DEF Waiting
    <3>5. \A k \in Waiting' : rows'[k].priority = IF k \in K THEN 100 ELSE 0
      BY <2>1, <3>3, <3>4, WaitingRow
    <3>6. ASSUME NEW k \in Waiting', NEW j \in Waiting', Fr(k), ~ Fr(j)
          PROVE  rows'[k].priority >= rows'[j].priority
      <4>1. j \in K => k \in K
        BY <1>2, <3>1, <3>4, <3>6, LatestTakesFresh
      <4> QED
        BY <3>5, <4>1
    <3>7. Ranked'
      BY <1>3, <3>6
    <3> QED
      BY <2>3, <3>5, <3>7 DEF RankOK
  <2> QED
    BY <1>7, <2>2, <2>3 DEF RecomputeTop, Statement, Goto
<1>8. CASE RecomputeNext
  <2>1. pc = "next" /\ Ranked /\ \A k \in Waiting : rows[k].priority \in {0, 100}
    BY <1>8 DEF RecomputeNext, Statement, RankOK
  <2> DEFINE C == {k \in Waiting : rows[k].priority = 0}
  <2>2. CASE UNCHANGED rows /\ pc' = "enrich"
    <3>1. Waiting' = Waiting
      BY <2>2 DEF Waiting
    <3> QED
      BY <1>3, <1>4, <2>1, <2>2, <3>1 DEF RankOK
  <2>3. CASE pc' = "rest" /\ \E K \in Latest(C, NextLimit) : rows' = SetPriority(rows, K, 50)
    <3>1. PICK K \in Latest(C, NextLimit) : rows' = SetPriority(rows, K, 50)
      BY <2>3
    <3>2. K \in SUBSET InSince(rows, since) /\ K \subseteq C /\ C \in SUBSET Waiting
          /\ 50 \in Priorities
      BY <1>5 DEF Latest, Waiting
    <3>3. /\ Pending(rows') = Pending(rows) /\ InSince(rows', since) = InSince(rows, since)
          /\ \A k \in K : rows'[k].priority = 50
          /\ \A k \in Keys \ K : rows'[k] = rows[k]
      BY <1>1, <3>1, <3>2, StatementRows
    <3>4. Waiting' = Waiting
      BY <3>3 DEF Waiting
    <3>5. \A k \in Waiting' :
            rows'[k].priority = IF k \in K THEN 50 ELSE rows[k].priority
      BY <3>3, <3>4, WaitingRow
    <3>6. ASSUME NEW k \in Waiting', NEW j \in Waiting', Fr(k), ~ Fr(j)
          PROVE  rows'[k].priority >= rows'[j].priority
      <4>1. k \in Waiting /\ j \in Waiting /\ rows[k].priority >= rows[j].priority
        BY <1>4, <2>1, <3>4, <3>6
      <4>2. rows[k].priority \in {0, 100} /\ rows[j].priority \in {0, 100}
        BY <2>1, <4>1
      <4>3. k \in C /\ j \in K => k \in K
        <5> HIDE DEF C
        <5> QED
          BY <1>2, <3>1, <3>2, <3>6, LatestTakesFresh
      <4>4. (k \notin C => rows[k].priority = 100) /\ (k \in K => rows[k].priority = 0)
            /\ (j \in K => rows[j].priority = 0)
        BY <3>2, <4>1, <4>2
      <4> HIDE DEF C
      <4> QED
        BY <3>4, <3>5, <4>1, <4>2, <4>3, <4>4
    <3>7. Ranked'
      BY <1>3, <3>6
    <3> QED
      BY <2>3, <3>7 DEF RankOK
  <2> QED
    BY <1>8, <2>2, <2>3 DEF RecomputeNext, Statement, Goto
<1>9. CASE RecomputeRest
  <2>1. pc = "rest" /\ pc' = "enrich" /\ Ranked
    BY <1>9 DEF RecomputeRest, Statement, Goto, RankOK
  <2>2. CASE UNCHANGED rows
    <3>1. Waiting' = Waiting
      BY <2>2 DEF Waiting
    <3> QED
      BY <1>3, <1>4, <2>1, <2>2, <3>1 DEF RankOK
  <2>3. CASE rows' = RestPriorities(rows, since)
    <3> DEFINE K == {k \in InSince(rows, since) : rows[k].priority = 0 /\ ~ rows[k].enriched}
    <3>1. rows' = SetPriority(rows, K, 10) /\ K \in SUBSET InSince(rows, since)
          /\ 10 \in Priorities
      BY <1>5, <2>3 DEF RestPriorities
    <3>2. \A k \in Waiting : k \in K <=> rows[k].priority = 0
      BY WaitingRow
    <3> HIDE DEF K
    <3>3. /\ Pending(rows') = Pending(rows) /\ InSince(rows', since) = InSince(rows, since)
          /\ \A k \in K : rows'[k].priority = 10
          /\ \A k \in Keys \ K : rows'[k] = rows[k]
      BY <1>1, <3>1, StatementRows
    <3>4. Waiting' = Waiting
      BY <3>3 DEF Waiting
    <3>5. \A k \in Waiting' :
            rows'[k].priority = IF rows[k].priority = 0 THEN 10 ELSE rows[k].priority
      BY <3>2, <3>3, <3>4, WaitingRow
    <3>6. ASSUME NEW k \in Waiting', NEW j \in Waiting', Fr(k), ~ Fr(j)
          PROVE  rows'[k].priority >= rows'[j].priority
      <4>1. k \in Waiting /\ j \in Waiting /\ rows[k].priority >= rows[j].priority
        BY <1>4, <2>1, <3>4, <3>6
      <4>2. rows[k].priority \in {0, 10, 50, 100} /\ rows[j].priority \in {0, 10, 50, 100}
        BY <4>1, WaitingRow
      <4> QED
        BY <3>5, <3>6, <4>1, <4>2
    <3>7. Ranked'
      BY <1>3, <3>6
    <3> QED
      BY <2>1, <3>7 DEF RankOK
  <2> QED
    BY <1>9, <2>2, <2>3 DEF RecomputeRest, Statement
<1> QED
  BY <1>6, <1>7, <1>8, <1>9

(* Every other step keeps the ranking or is not bound by it.               *)
LEMMA RankStep ==
  ASSUME "zero" \notin MayFail
  PROVE  Typing /\ RankOK /\ [Next]_vars => RankOK'
<1> SUFFICES ASSUME Typing, RankOK, [Next]_vars PROVE RankOK'
  OBVIOUS
<1>1. TypeOK /\ rows \in Table
  BY DEF Typing, TypeOK
<1>2. CASE BeginSync \/ Skip \/ Upsert \/ EndUpserts \/ Notify
  <2>1. pc' \in {"idle", "upsert", "zero"}
    BY <1>2 DEF BeginSync, Skip, Upsert, EndUpserts, Notify, Goto
  <2> QED
    BY <2>1 DEF RankOK
<1>3. CASE RecomputeZero \/ RecomputeTop \/ RecomputeNext \/ RecomputeRest
  BY <1>1, <1>3, RankStatements
<1>4. CASE Settle
  <2>1. pc' = pc /\ UNCHANGED age
    BY <1>4 DEF Settle
  <2>2. Waiting' \subseteq Waiting /\ \A k \in Waiting' : rows'[k].priority = rows[k].priority
    BY <1>1, <1>4, SettleRows
  <2> QED
    BY <2>1, <2>2, RankKept
<1>5. CASE (\E n \in Notices : Send(n) \/ EndNotice(n)) \/ UNCHANGED vars
  <2>1. UNCHANGED <<rows, age, pc>>
    BY <1>5 DEF Send, EndNotice, vars
  <2>2. Waiting' = Waiting
    BY <2>1 DEF Waiting
  <2> QED
    BY <2>1, <2>2, RankKept
<1> QED
  BY <1>2, <1>3, <1>4, <1>5 DEF Next, Sync

(* If the statement that levels the priorities does not fail, then after   *)
(* RecomputePriorities no repo that the page has just brought ranks below  *)
(* one of an earlier page: for every page, both limits, any failure of the *)
(* other statements, and whatever the enricher completes in between.       *)
THEOREM NewestFirst ==
  ASSUME "zero" \notin MayFail
  PROVE  Spec => []PageFirst
<1>1. Init => RankOK
  BY DEF Init, RankOK
<1>2. RankOK => PageFirst
  BY DEF RankOK, Ranked, PageFirst
<1>3. Typing /\ RankOK /\ [Next]_vars => RankOK'
  BY RankStep
<1> QED
  BY <1>1, <1>2, <1>3, TypeInit, TypeStep, PTL DEF Spec

(* The ranking by captured_at is one that EnrichPipeline allows, which     *)
(* leaves open which rows a limit takes: what is proved of the pipeline    *)
(* holds for the choice that RecomputePriorities makes.                    *)
THEOREM RanksArePromotions ==
  /\ RecomputeTop => UNCHANGED rows \/ rows' \in PromoteTop(rows, since, TopLimit)
  /\ RecomputeNext => UNCHANGED rows \/ rows' \in PromoteNext(rows, since, NextLimit)
<1>1. ASSUME NEW C, NEW limit, NEW prio, NEW K \in Latest(C, limit)
      PROVE  SetPriority(rows, K, prio) \in Promotions(rows, C, limit, prio)
  BY DEF Latest, Promotions
<1>2. ASSUME RecomputeTop PROVE UNCHANGED rows \/ rows' \in PromoteTop(rows, since, TopLimit)
  BY <1>1, <1>2 DEF RecomputeTop, Statement, PromoteTop, Waiting
<1>3. ASSUME RecomputeNext PROVE UNCHANGED rows \/ rows' \in PromoteNext(rows, since, NextLimit)
  BY <1>1, <1>3 DEF RecomputeNext, Statement, PromoteNext, Waiting
<1> QED
  BY <1>2, <1>3

----------------------------------------------------------------------------
(***************************************************************************)
(* What the wiki-api is told                                               *)
(***************************************************************************)

(* What appending adds to a sequence.                                      *)
LEMMA AppendRange ==
  ASSUME NEW S, NEW s \in Seq(S), NEW e \in S, NEW t, t = Append(s, e)
  PROVE  /\ Range(t) = Range(s) \cup {e}
         /\ IsInjective(s) /\ e \notin Range(s) => IsInjective(t)
<1>1. Len(s) \in Nat /\ DOMAIN s = 1..Len(s) /\ DOMAIN t = 1..Len(s) + 1
  BY AppendProperties, LenProperties
<1>2. t[Len(s) + 1] = e /\ \A i \in 1..Len(s) : t[i] = s[i]
  BY AppendProperties
<1>3. \A i \in DOMAIN t : i \in DOMAIN s \/ i = Len(s) + 1
  BY <1>1
<1>4. DOMAIN s \subseteq DOMAIN t /\ Len(s) + 1 \in DOMAIN t
  BY <1>1
<1>5. Range(t) = Range(s) \cup {e}
  BY <1>1, <1>2, <1>3, <1>4 DEF Range
<1>6. ASSUME IsInjective(s), e \notin Range(s), NEW i \in DOMAIN t, NEW j \in DOMAIN t, t[i] = t[j]
      PROVE  i = j
  BY <1>1, <1>2, <1>3, <1>6 DEF IsInjective, Range
<1> QED
  BY <1>5, <1>6 DEF IsInjective

(* A sequence and its first m elements and the rest of it.                 *)
LEMMA SplitRange ==
  ASSUME NEW S, NEW u \in Seq(S), NEW m \in 1..Len(u), IsInjective(u)
  PROVE  LET b == SubSeq(u, 1, m)
             v == SubSeq(u, m + 1, Len(u))
         IN  /\ b \in Seq(S) /\ Len(b) = m /\ v \in Seq(S)
             /\ IsInjective(b) /\ IsInjective(v)
             /\ Range(b) \cup Range(v) = Range(u) /\ Range(b) \cap Range(v) = {}
<1> SUFFICES ASSUME NEW b, b = SubSeq(u, 1, m), NEW v, v = SubSeq(u, m + 1, Len(u))
             PROVE  /\ b \in Seq(S) /\ Len(b) = m /\ v \in Seq(S)
                    /\ IsInjective(b) /\ IsInjective(v)
                    /\ Range(b) \cup Range(v) = Range(u) /\ Range(b) \cap Range(v) = {}
  OBVIOUS
<1>1. Len(u) \in Nat /\ DOMAIN u = 1..Len(u) /\ \A i \in 1..Len(u) : u[i] \in S
  BY LenProperties, ElementOfSeq
<1>2. m \in Nat /\ m >= 1 /\ m <= Len(u)
  BY <1>1
<1>3. b \in Seq(S) /\ Len(b) = m /\ \A i \in 1..m : b[i] = u[i]
  <2>1. \A i \in 1..m : u[i] \in S
    BY <1>1, <1>2
  <2> QED
    BY <1>2, <2>1, SubSeqProperties
<1>4. v \in Seq(S) /\ Len(v) = Len(u) - m /\ \A i \in 1..Len(u) - m : v[i] = u[m + i]
  <2>1. \A i \in m + 1..Len(u) : u[i] \in S
    BY <1>1, <1>2
  <2>2. /\ v \in Seq(S) /\ Len(v) = IF m + 1 <= Len(u) THEN Len(u) - (m + 1) + 1 ELSE 0
        /\ \A i \in 1..Len(u) - (m + 1) + 1 : v[i] = u[m + 1 + i - 1]
    BY <1>1, <1>2, <2>1, SubSeqProperties
  <2>3. Len(u) - (m + 1) + 1 = Len(u) - m /\ \A i \in Nat : m + 1 + i - 1 = m + i
    BY <1>1, <1>2
  <2>4. Len(v) = Len(u) - m
    <3>1. CASE m + 1 <= Len(u)
      BY <2>2, <2>3, <3>1
    <3>2. CASE ~ (m + 1 <= Len(u))
      <4>1. Len(v) = 0
        BY <2>2, <3>2
      <4>2. \A n \in Nat : m <= n /\ ~ (m + 1 <= n) => n - m = 0
        BY <1>2
      <4> QED
        BY <1>1, <1>2, <3>2, <4>1, <4>2
    <3> QED
      BY <3>1, <3>2
  <2>5. ASSUME NEW i \in 1..Len(u) - m PROVE v[i] = u[m + i]
    <3>1. i \in 1..Len(u) - (m + 1) + 1 /\ m + 1 + i - 1 = m + i
      BY <1>1, <1>2, <2>3
    <3> QED
      BY <2>2, <3>1
  <2> QED
    BY <2>2, <2>4, <2>5
<1>5. DOMAIN b = 1..m /\ DOMAIN v = 1..Len(u) - m
  BY <1>3, <1>4, LenProperties
<1>6. IsInjective(b) /\ IsInjective(v)
  <2>1. ASSUME NEW i \in 1..m, NEW j \in 1..m, b[i] = b[j] PROVE i = j
    BY <1>1, <1>2, <1>3, <2>1 DEF IsInjective
  <2>2. ASSUME NEW i \in 1..Len(u) - m, NEW j \in 1..Len(u) - m, v[i] = v[j] PROVE i = j
    <3>0. m + i \in 1..Len(u) /\ m + j \in 1..Len(u)
      BY <1>1, <1>2
    <3>1. m + i \in DOMAIN u /\ m + j \in DOMAIN u /\ u[m + i] = u[m + j]
      BY <1>1, <1>4, <2>2, <3>0
    <3>2. m + i = m + j
      BY <3>1 DEF IsInjective
    <3> QED
      BY <1>2, <3>2
  <2> QED
    BY <1>5, <2>1, <2>2 DEF IsInjective
<1>7. ASSUME NEW x \in Range(b) PROVE \E i \in DOMAIN u : i <= m /\ u[i] = x
  BY <1>1, <1>2, <1>3, <1>5 DEF Range
<1>8. ASSUME NEW x \in Range(v) PROVE \E i \in DOMAIN u : i > m /\ u[i] = x
  <2>1. PICK j \in 1..Len(u) - m : v[j] = x
    BY <1>5 DEF Range
  <2>0. m + j \in 1..Len(u) /\ m + j > m
    BY <1>1, <1>2
  <2>2. m + j \in DOMAIN u /\ m + j > m /\ u[m + j] = x
    BY <1>1, <1>4, <2>0, <2>1
  <2> QED
    BY <2>2
<1>9. ASSUME NEW x \in Range(u) PROVE x \in Range(b) \/ x \in Range(v)
  <2>1. PICK i \in 1..Len(u) : u[i] = x
    BY <1>1 DEF Range
  <2>2. CASE i <= m
    <3>1. i \in DOMAIN b /\ b[i] = u[i]
      BY <1>2, <1>3, <1>5, <2>2
    <3> QED
      BY <2>1, <3>1 DEF Range
  <2>3. CASE i > m
    <3>0. i - m \in 1..Len(u) - m /\ m + (i - m) = i
      BY <1>1, <1>2, <2>3
    <3>1. i - m \in DOMAIN v /\ v[i - m] = u[i]
      BY <1>4, <1>5, <3>0
    <3> QED
      BY <2>1, <3>1 DEF Range
  <2>4. i <= m \/ i > m
    BY <1>1, <1>2
  <2> QED
    BY <2>2, <2>3, <2>4
<1>10. ASSUME NEW x \in Range(b), x \in Range(v) PROVE FALSE
  <2>1. PICK i \in DOMAIN u : i <= m /\ u[i] = x
    BY <1>7
  <2>2. PICK j \in DOMAIN u : j > m /\ u[j] = x
    BY <1>8, <1>10
  <2>3. i = j
    BY <2>1, <2>2 DEF IsInjective
  <2> QED
    BY <1>1, <1>2, <2>1, <2>2, <2>3
<1>11. Range(b) \cup Range(v) = Range(u)
  <2>1. \A x : x \in Range(b) \/ x \in Range(v) => x \in Range(u)
    BY <1>7, <1>8 DEF Range
  <2> QED
    BY <1>9, <2>1
<1> QED
  BY <1>3, <1>4, <1>6, <1>10, <1>11

(* A path with an owner and a name has nothing to trim.                    *)
LEMMA TwoParts ==
  ASSUME NEW r \in Path, WellFormed(r), Len(r) = 2
  PROVE  Range(r) = {r[1], r[2]} /\ Blank \notin Range(r) /\ Trimmed(r) = r
<1>1. r \in Seq(Segments \cup {Blank}) /\ DOMAIN r = 1..2
  BY LenProperties DEF Path
<1>2. Range(r) = {r[1], r[2]}
  <2>1. DOMAIN r = {1, 2}
    BY <1>1
  <2> QED
    BY <2>1 DEF Range
<1>3. r[1] # Blank
  <2>1. Len(r) >= 2
    OBVIOUS
  <2> QED
    BY <2>1, PathTail DEF WellFormed
<1>4. r[2] # Blank
  <2> SUFFICES ASSUME r[2] = Blank PROVE Tail(r) = <<Blank>>
    BY DEF WellFormed
  <2>1. Len(r) >= 2 /\ Len(r) - 1 = 1 /\ 1 + 1 = 2 /\ 1 \in 1..1
    OBVIOUS
  <2>2. Tail(r) \in Seq(Segments \cup {Blank}) /\ Len(Tail(r)) = 1 /\ Tail(r)[1] = r[2]
    <3>1. /\ Tail(r) \in Path /\ Len(Tail(r)) = Len(r) - 1
          /\ \A i \in 1..Len(r) - 1 : Tail(r)[i] = r[i + 1]
      BY <2>1, PathTail, Zenon
    <3>2. Tail(r)[1] = r[1 + 1]
      BY <2>1, <3>1, Zenon
    <3> QED
      BY <2>1, <3>1, <3>2 DEF Path
  <2>3. <<Blank>> \in Seq(Segments \cup {Blank}) /\ Len(<<Blank>>) = 1 /\ <<Blank>>[1] = Blank
    OBVIOUS
  <2>4. \A i \in 1..Len(Tail(r)) : Tail(r)[i] = <<Blank>>[i]
    <3>1. \A i \in 1..1 : i = 1
      OBVIOUS
    <3> QED
      BY <2>2, <2>3, <3>1
  <2> QED
    BY <2>2, <2>3, <2>4, SeqEqual
<1>5. Trimmed(r) = r
  <2> DEFINE solid == {i \in DOMAIN r : r[i] # Blank}
             a == CHOOSE i \in solid : \A j \in solid : i <= j
             b == CHOOSE i \in solid : \A j \in solid : j <= i
  <2>1. solid = {1, 2}
    BY <1>1, <1>3, <1>4
  <2> HIDE DEF solid
  <2>2. a = 1
    <3>1. \E i \in solid : \A j \in solid : i <= j
      BY <2>1
    <3>2. a \in solid /\ a <= 1
      BY <2>1, <3>1
    <3> QED
      BY <2>1, <3>2
  <2>3. b = 2
    <3>1. \E i \in solid : \A j \in solid : j <= i
      BY <2>1
    <3>2. b \in solid /\ 2 <= b
      BY <2>1, <3>1
    <3> QED
      BY <2>1, <3>2
  <2> HIDE DEF a, b
  <2>4. Trimmed(r) = SubSeq(r, a, b)
    BY <2>1 DEF Trimmed, solid, a, b
  <2> QED
    BY <1>1, <2>2, <2>3, <2>4, SubSeqFull
<1> QED
  BY <1>2, <1>3, <1>4, <1>5

(* NotifyRepos passes such names on as they are.                           *)
LEMMA CleanedSame ==
  ASSUME NEW names \in Seq(Path),
         \A i \in 1..Len(names) : Trimmed(names[i]) = names[i] /\ Len(names[i]) >= 2
  PROVE  Cleaned(names) = names
<1> DEFINE kept   == {i \in DOMAIN names : Len(Trimmed(names[i])) >= 2}
           nth(m) == CHOOSE i \in kept : Cardinality({j \in kept : j <= i}) = m
<1>1. Len(names) \in Nat /\ DOMAIN names = 1..Len(names) /\ names = [i \in 1..Len(names) |-> names[i]]
  BY LenProperties
<1>2. kept = 1..Len(names)
  BY <1>1
<1>3. Cleaned(names) = [m \in 1..Cardinality(kept) |-> Trimmed(names[nth(m)])]
  BY DEF Cleaned
<1> HIDE DEF kept
<1>4. \A i \in Nat : Cardinality(1..i) = i
  BY FS_Interval
<1>5. ASSUME NEW m \in 1..Len(names) PROVE nth(m) = m
  <2>1. ASSUME NEW i \in kept PROVE Cardinality({j \in kept : j <= i}) = i
    <3>1. i \in Nat /\ i <= Len(names)
      BY <1>1, <1>2
    <3>2. {j \in kept : j <= i} = 1..i
      BY <1>1, <1>2, <3>1
    <3> QED
      BY <1>4, <3>1, <3>2
  <2>2. \E i \in kept : Cardinality({j \in kept : j <= i}) = m
    BY <1>2, <2>1
  <2>3. nth(m) \in kept /\ Cardinality({j \in kept : j <= nth(m)}) = m
    BY <2>2
  <2> HIDE DEF nth
  <2> QED
    BY <2>1, <2>3
<1>6. Cardinality(kept) = Len(names)
  BY <1>1, <1>2, <1>4
<1> HIDE DEF nth
<1>7. \A m \in 1..Len(names) : Trimmed(names[nth(m)]) = names[m]
  BY <1>5
<1> QED
  BY <1>1, <1>3, <1>6, <1>7

\* The repos that the first i paths of a page name.
Named(p, i) == {RepoOf(p[j]) : j \in {k \in 1..i : WellFormed(RepoOf(p[k]))}}

(* On pages as GitHub makes them, what a page names is what it has.        *)
LEMMA FoundIsAll ==
  ASSUME TidyPages, page \in Pages \cup {<<>>}
  PROVE  Found = Named(page, Len(page))
<1>1. page \in Seq(Path) /\ Len(page) \in Nat /\ DOMAIN page = 1..Len(page)
  BY PageTypes, LenProperties
<1>2. Found \subseteq Named(page, Len(page))
  BY <1>1, FoundIsNamed DEF Named
<1>3. ASSUME NEW i \in 1..Len(page), WellFormed(RepoOf(page[i])) PROVE RepoOf(page[i]) \in Found
  <2>1. page \in Pages
    <3>1. page # <<>>
      BY EmptySeq
    <3> QED
      BY <3>1
  <2> DEFINE h == page[i]
             r == RepoOf(h)
  <2>2. Len(r) = 2 /\ WellFormed(r)
    BY <1>1, <1>3, <2>1 DEF TidyPages
  <2>3. h \in Path /\ h \in Range(page)
    BY <1>1, ElementOfSeq DEF Range
  <2>4. CASE Len(h) > 1 /\ Head(h) = Blank
    <3>0. Len(h) \in Nat /\ Len(h) >= 2
      BY <2>3, <2>4, LenProperties DEF Path
    <3>1. r = Tail(h) /\ Tail(h) \in Path /\ Len(Tail(h)) = Len(h) - 1
      BY <2>3, <2>4, <3>0, PathTail DEF RepoOf
    <3>2. Len(h) = 3
      BY <2>2, <3>0, <3>1
    <3>3. Blank \notin Range(Tail(h))
      BY <2>2, <3>1, TwoParts
    <3> QED
      BY <2>3, <2>4, <3>1, <3>2, <3>3 DEF Found
  <2>5. CASE ~ (Len(h) > 1 /\ Head(h) = Blank)
    <3>1. r = h
      BY <2>5 DEF RepoOf
    <3>2. Blank \notin Range(h)
      BY <2>2, <2>3, <3>1, TwoParts
    <3> QED
      BY <2>2, <2>3, <3>1, <3>2 DEF Found
  <2> QED
    BY <2>4, <2>5
<1> QED
  BY <1>2, <1>3 DEF Named

(* What one more path of the page names.                                   *)
LEMMA NamedNext ==
  ASSUME NEW p, NEW d \in Nat
  PROVE  /\ Named(p, 0) = {}
         /\ WellFormed(RepoOf(p[d + 1])) => Named(p, d + 1) = Named(p, d) \cup {RepoOf(p[d + 1])}
         /\ ~ WellFormed(RepoOf(p[d + 1])) => Named(p, d + 1) = Named(p, d)
<1>1. {k \in 1..0 : WellFormed(RepoOf(p[k]))} = {}
  OBVIOUS
<1>2. \A k : k \in 1..d + 1 <=> k \in 1..d \/ k = d + 1
  OBVIOUS
<1> DEFINE K(i) == {k \in 1..i : WellFormed(RepoOf(p[k]))}
<1>3. K(d + 1) = IF WellFormed(RepoOf(p[d + 1])) THEN K(d) \cup {d + 1} ELSE K(d)
  BY <1>2
<1>4. Named(p, d) = {RepoOf(p[j]) : j \in K(d)} /\ Named(p, d + 1) = {RepoOf(p[j]) : j \in K(d + 1)}
  BY DEF Named
<1>5. Named(p, 0) = {}
  BY <1>1 DEF Named
<1> HIDE DEF K
<1> QED
  BY <1>3, <1>4, <1>5

(* What the sync has stored, and what has failed, is what the part of the  *)
(* page it has passed names, each repo once.                               *)
PassedOK ==
  /\ pc = "idle" => page = <<>> /\ repos = <<>> /\ failed = {}
  /\ \E d \in 0..Len(page) :
       /\ items = SubSeq(page, d + 1, Len(page))
       /\ Range(repos) \cup failed = Named(page, d)
       /\ Range(repos) \cap failed = {}
       /\ IsInjective(repos)

(* At the start nothing is passed.                                         *)
LEMMA PassedInit == Init => PassedOK
<1> SUFFICES ASSUME Init PROVE PassedOK
  OBVIOUS
<1>1. page = <<>> /\ items = <<>> /\ repos = <<>> /\ failed = {}
  BY DEF Init
<1>2. DOMAIN <<>> = {} /\ Len(<<>>) = 0 /\ SubSeq(<<>>, 1, 0) = <<>>
  BY EmptySeq, SubSeqEmpty
<1>3. 0 \in 0..Len(page) /\ items = SubSeq(page, 0 + 1, Len(page))
  BY <1>1, <1>2
<1>4. Named(page, 0) = {}
  BY NamedNext
<1>5. Range(repos) = {} /\ IsInjective(repos)
  BY <1>1, <1>2 DEF Range, IsInjective
<1> QED
  BY <1>1, <1>3, <1>4, <1>5 DEF PassedOK

(* What a path says that the sync has come to.                             *)
LEMMA PassNext ==
  ASSUME Typing, PassedOK, pc = "upsert", items # <<>>, items' = Tail(items)
  PROVE  \E d \in 0..Len(page) - 1 :
           /\ Head(items) = page[d + 1] /\ d + 1 \in 0..Len(page) /\ d + 1 \in DOMAIN page
           /\ items' = SubSeq(page, (d + 1) + 1, Len(page))
           /\ Range(repos) \cup failed = Named(page, d) /\ Range(repos) \cap failed = {}
           /\ IsInjective(repos) /\ page \in Pages
<1>1. page \in Seq(Path) /\ Len(page) \in Nat /\ DOMAIN page = 1..Len(page)
  BY PageTypes, LenProperties DEF Typing, TypeOK
<1>2. PICK d \in 0..Len(page) :
        /\ items = SubSeq(page, d + 1, Len(page))
        /\ Range(repos) \cup failed = Named(page, d)
        /\ Range(repos) \cap failed = {}
        /\ IsInjective(repos)
  BY DEF PassedOK
<1>3. d + 1 \in 1..Len(page) + 1
  BY <1>1
<1>4. /\ d + 1 \in 1..Len(page) /\ Head(items) = page[d + 1]
      /\ Tail(items) = SubSeq(page, (d + 1) + 1, Len(page))
  BY <1>1, <1>2, <1>3, NextItem
<1>5. d \in 0..Len(page) - 1 /\ d + 1 \in 0..Len(page)
  BY <1>1, <1>4
<1>6. page \in Pages
  <2>1. page # <<>>
    BY <1>1, <1>4, EmptySeq
  <2> QED
    BY <2>1 DEF Typing, TypeOK
<1> QED
  BY <1>1, <1>2, <1>4, <1>5, <1>6

(* Every step keeps the account of the page.                               *)
LEMMA PassedStep ==
  ASSUME TidyPages
  PROVE  Typing /\ PassedOK /\ [Next]_vars => PassedOK'
<1> SUFFICES ASSUME Typing, PassedOK, [Next]_vars PROVE PassedOK'
  OBVIOUS
<1>1. page \in Seq(Path) /\ Len(page) \in Nat /\ repos \in Seq(Repos)
  BY PageTypes DEF Typing, TypeOK
<1>2. CASE BeginSync
  <2>1. repos = <<>> /\ failed = {} /\ UNCHANGED <<repos, failed>> /\ pc' = "upsert"
        /\ page' \in Pages /\ items' = page'
    BY <1>2 DEF BeginSync, PassedOK, Goto
  <2>2. DOMAIN <<>> = {}
    BY EmptySeq
  <2>3. Range(repos') = {} /\ IsInjective(repos')
    BY <2>1, <2>2 DEF Range, IsInjective
  <2>4. page' \in Seq(Path)
    BY <2>1, PageAssumption
  <2>5. items' = SubSeq(page', 0 + 1, Len(page')) /\ 0 \in 0..Len(page')
    BY <2>1, <2>4, SubSeqFull, LenProperties
  <2>6. Named(page', 0) = {}
    BY NamedNext
  <2> QED
    BY <2>1, <2>3, <2>5, <2>6 DEF PassedOK
<1>3. CASE Skip
  <2>1. /\ pc = "upsert" /\ items # <<>> /\ ~ WellFormed(RepoOf(Head(items)))
        /\ items' = Tail(items) /\ UNCHANGED <<pc, repos, page, failed>>
    BY <1>3 DEF Skip
  <2>2. PICK d \in 0..Len(page) - 1 :
          /\ Head(items) = page[d + 1] /\ d + 1 \in 0..Len(page)
          /\ items' = SubSeq(page, (d + 1) + 1, Len(page))
          /\ Range(repos) \cup failed = Named(page, d) /\ Range(repos) \cap failed = {}
          /\ IsInjective(repos)
    BY <2>1, PassNext
  <2>3. Named(page, d + 1) = Named(page, d)
    <3>1. d \in Nat
      BY <1>1
    <3> QED
      BY <2>1, <2>2, <3>1, NamedNext
  <2>4. \E e \in 0..Len(page) :
          /\ items' = SubSeq(page, e + 1, Len(page))
          /\ Range(repos) \cup failed = Named(page, e)
          /\ Range(repos) \cap failed = {}
          /\ IsInjective(repos)
    BY <2>2, <2>3
  <2> QED
    BY <2>1, <2>4 DEF PassedOK
<1>4. CASE Upsert
  <2> DEFINE repo == RepoOf(Head(items))
  <2>1. /\ pc = "upsert" /\ items # <<>> /\ WellFormed(repo)
        /\ items' = Tail(items) /\ UNCHANGED <<pc, page>>
        /\ \/ repos' = Append(repos, repo) /\ failed' = failed
           \/ failed' = failed \cup {repo} /\ repos' = repos
    BY <1>4 DEF Upsert
  <2>2. PICK d \in 0..Len(page) - 1 :
          /\ Head(items) = page[d + 1] /\ d + 1 \in 0..Len(page) /\ d + 1 \in DOMAIN page
          /\ items' = SubSeq(page, (d + 1) + 1, Len(page))
          /\ Range(repos) \cup failed = Named(page, d) /\ Range(repos) \cap failed = {}
          /\ IsInjective(repos) /\ page \in Pages
    BY <2>1, PassNext
  <2>3. d \in Nat /\ \A j \in 1..d : j \in 1..Len(page) /\ j # d + 1
    BY <1>1
  <2>4. repo \in Repos
    BY <2>1, NextHref
  <2>5. repo \notin Named(page, d)
    <3>1. DOMAIN page = 1..Len(page)
      BY <1>1, LenProperties
    <3>2. \A j \in 1..d : j \in DOMAIN page /\ j # d + 1
      BY <2>3, <3>1
    <3>3. \A j \in 1..d : WellFormed(RepoOf(page[j])) => RepoOf(page[j]) # RepoOf(page[d + 1])
      BY <2>2, <3>2 DEF TidyPages
    <3> QED
      BY <2>2, <3>3 DEF Named
  <2>6. Named(page, d + 1) = Named(page, d) \cup {repo}
    BY <2>1, <2>2, <2>3, NamedNext
  <2> HIDE DEF repo
  <2>7. /\ Range(repos') \cup failed' = Named(page, d + 1)
        /\ Range(repos') \cap failed' = {} /\ IsInjective(repos')
    <3>1. CASE repos' = Append(repos, repo) /\ failed' = failed
      <4>1. repo \notin Range(repos) /\ repo \notin failed
        BY <2>2, <2>5
      <4>2. Range(repos') = Range(repos) \cup {repo} /\ IsInjective(repos')
        BY <1>1, <2>2, <2>4, <3>1, <4>1, AppendRange
      <4> QED
        BY <2>2, <2>6, <3>1, <4>1, <4>2
    <3>2. CASE failed' = failed \cup {repo} /\ repos' = repos
      BY <2>2, <2>5, <2>6, <3>2
    <3> QED
      BY <2>1, <3>1, <3>2
  <2>8. \E e \in 0..Len(page) :
          /\ items' = SubSeq(page, e + 1, Len(page))
          /\ Range(repos') \cup failed' = Named(page, e)
          /\ Range(repos') \cap failed' = {}
          /\ IsInjective(repos')
    BY <2>2, <2>7
  <2> QED
    BY <2>1, <2>8 DEF PassedOK
<1>5. CASE EndUpserts \/ RecomputeZero \/ RecomputeTop \/ RecomputeNext \/ RecomputeRest
  <2>1. pc' # "idle" /\ UNCHANGED syncVars
    BY <1>5 DEF EndUpserts, RecomputeZero, RecomputeTop, RecomputeNext, RecomputeRest,
                Statement, Goto
  <2> QED
    BY <2>1 DEF PassedOK, syncVars
<1>6. CASE Notify
  <2>1. repos' = <<>> /\ page' = <<>> /\ failed' = {} /\ items' = <<>>
    BY <1>6 DEF Notify, Typing, PageDone
  <2>2. DOMAIN <<>> = {} /\ Len(<<>>) = 0 /\ SubSeq(<<>>, 1, 0) = <<>>
    BY EmptySeq, SubSeqEmpty
  <2>3. 0 \in 0..Len(page') /\ items' = SubSeq(page', 0 + 1, Len(page'))
    BY <2>1, <2>2
  <2>4. Named(page', 0) = {}
    BY NamedNext
  <2>5. Range(repos') = {} /\ IsInjective(repos')
    BY <2>1, <2>2 DEF Range, IsInjective
  <2> QED
    BY <2>1, <2>3, <2>4, <2>5 DEF PassedOK
<1>7. CASE Settle \/ (\E n \in Notices : Send(n) \/ EndNotice(n)) \/ UNCHANGED vars
  <2>1. UNCHANGED <<pc, items, repos, page, failed>>
    BY <1>7 DEF Settle, Send, EndNotice, syncVars, vars
  <2> QED
    BY <2>1 DEF PassedOK
<1> QED
  BY <1>2, <1>3, <1>4, <1>5, <1>6, <1>7 DEF Next, Sync

(* When the upserts are over, what the sync has stored is what it tells:   *)
(* all that the page has but what failed, and NotifyRepos changes nothing. *)
LEMMA ToldIsFound ==
  ASSUME TidyPages, Typing, PassedOK, pc # "upsert"
  PROVE  /\ Cleaned(repos) = repos /\ repos \in Seq(Path) /\ IsInjective(repos)
         /\ Range(repos) = Found \ failed
<1>1. page \in Seq(Path) /\ Len(page) \in Nat /\ DOMAIN page = 1..Len(page)
  BY PageTypes, LenProperties DEF Typing, TypeOK
<1>2. PICK d \in 0..Len(page) :
        /\ items = SubSeq(page, d + 1, Len(page))
        /\ Range(repos) \cup failed = Named(page, d)
        /\ Range(repos) \cap failed = {}
        /\ IsInjective(repos)
  BY DEF PassedOK
<1>3. d = Len(page)
  <2>1. Len(items) = 0
    BY EmptySeq DEF Typing, PageDone
  <2>2. \A i \in d + 1..Len(page) : page[i] \in Path
    BY <1>1, ElementOfSeq
  <2>3. Len(items) = IF d + 1 <= Len(page) THEN Len(page) - (d + 1) + 1 ELSE 0
    BY <1>1, <1>2, <2>2, SubSeqProperties
  <2>4. d + 1 <= Len(page) => Len(page) - (d + 1) + 1 > 0
    BY <1>1
  <2>5. ~ (d + 1 <= Len(page))
    BY <2>1, <2>3, <2>4
  <2>6. \A n \in Nat : \A e \in 0..n : ~ (e + 1 <= n) => e = n
    OBVIOUS
  <2> QED
    BY <1>1, <2>5, <2>6
<1>4. Found = Named(page, Len(page))
  BY FoundIsAll DEF Typing, TypeOK
<1>5. Range(repos) = Found \ failed
  BY <1>2, <1>3, <1>4
<1>6. repos \in Seq(Path)
  BY SeqMonotonic, PageAssumption DEF Typing, TypeOK
<1>7. ASSUME NEW i \in 1..Len(repos) PROVE Trimmed(repos[i]) = repos[i] /\ Len(repos[i]) >= 2
  <2>1. repos[i] \in Range(repos) /\ repos[i] \in Path
    BY <1>6, LenProperties, ElementOfSeq DEF Range
  <2>2. PICK j \in 1..Len(page) : repos[i] = RepoOf(page[j]) /\ WellFormed(RepoOf(page[j]))
    BY <1>2, <1>3, <2>1 DEF Named
  <2>3. page \in Pages
    <3>1. page # <<>>
      BY <1>1, EmptySeq
    <3> QED
      BY <3>1 DEF Typing, TypeOK
  <2>4. Len(repos[i]) = 2
    BY <1>1, <2>2, <2>3 DEF TidyPages
  <2> QED
    BY <2>1, <2>2, <2>4, TwoParts
<1> QED
  BY <1>2, <1>5, <1>6, <1>7, CleanedSame

----------------------------------------------------------------------------
(***************************************************************************)
(* The batches                                                             *)
(***************************************************************************)

Said(s) == {s[q[1]][q[2]] : q \in Places(s)}

\* No name stands at two places.
OncePlaced(s) == \A p, q \in Places(s) : s[p[1]][p[2]] = s[q[1]][q[2]] => p = q

(* What a place is.                                                        *)
LEMMA PlaceOf ==
  ASSUME NEW s, NEW q
  PROVE  q \in Places(s) <=> \E x \in DOMAIN s : \E i \in DOMAIN s[x] : q = <<x, i>>
  BY DEF Places

(* The names in a batch, and what one more batch adds to what is said.     *)
LEMMA OneMoreBatch ==
  ASSUME NEW S, NEW s \in Seq(Seq(S)), NEW b \in Seq(S)
  PROVE  /\ Said(Append(s, b)) = Said(s) \cup Range(b)
         /\ OncePlaced(s) /\ IsInjective(b) /\ Said(s) \cap Range(b) = {}
              => OncePlaced(Append(s, b))
<1> SUFFICES ASSUME NEW t, t = Append(s, b)
             PROVE  /\ Said(t) = Said(s) \cup Range(b)
                    /\ OncePlaced(s) /\ IsInjective(b) /\ Said(s) \cap Range(b) = {}
                         => OncePlaced(t)
  OBVIOUS
<1> DEFINE n == Len(s) + 1
<1>1. Len(s) \in Nat /\ DOMAIN s = 1..Len(s) /\ DOMAIN t = 1..Len(s) + 1
  BY AppendProperties, LenProperties
<1>2. t[n] = b /\ \A x \in 1..Len(s) : t[x] = s[x]
  BY AppendProperties
<1>3. n \in DOMAIN t /\ n \notin DOMAIN s /\ \A x : x \in DOMAIN t <=> x \in DOMAIN s \/ x = n
  BY <1>1
<1> HIDE DEF n
<1>4. ASSUME NEW q \in Places(s)
      PROVE  /\ q \in Places(t) /\ q[1] # n /\ t[q[1]][q[2]] = s[q[1]][q[2]]
             /\ t[q[1]][q[2]] \in Said(s)
  <2>1. PICK x \in DOMAIN s : \E i \in DOMAIN s[x] : q = <<x, i>>
    BY PlaceOf
  <2>2. x \in DOMAIN t /\ x # n /\ t[x] = s[x]
    BY <1>1, <1>2, <1>3
  <2>3. q \in Places(t)
    BY <2>1, <2>2, PlaceOf
  <2> QED
    BY <2>1, <2>2, <2>3 DEF Said
<1>5. ASSUME NEW i \in DOMAIN b PROVE <<n, i>> \in Places(t)
  BY <1>2, <1>3, PlaceOf
<1>6. ASSUME NEW q \in Places(t)
      PROVE  q \in Places(s) \/ \E i \in DOMAIN b : q = <<n, i>>
  <2>1. PICK x \in DOMAIN t : \E i \in DOMAIN t[x] : q = <<x, i>>
    BY DEF Places
  <2>2. CASE x = n
    BY <1>2, <2>1, <2>2
  <2>3. CASE x \in DOMAIN s
    <3>1. t[x] = s[x]
      BY <1>1, <1>2, <2>3
    <3> QED
      BY <2>1, <2>3, <3>1, PlaceOf
  <2> QED
    BY <1>3, <2>2, <2>3
<1>7. Said(t) \subseteq Said(s) \cup Range(b)
  <2>1. ASSUME NEW q \in Places(t) PROVE t[q[1]][q[2]] \in Said(s) \cup Range(b)
    <3>1. CASE q \in Places(s)
      BY <1>4, <3>1
    <3>2. CASE \E i \in DOMAIN b : q = <<n, i>>
      <4>1. PICK i \in DOMAIN b : q = <<n, i>>
        BY <3>2
      <4>2. q[1] = n /\ q[2] = i
        BY <4>1
      <4>3. t[q[1]][q[2]] = b[i]
        BY <1>2, <4>2
      <4> QED
        BY <4>3 DEF Range
    <3> QED
      BY <1>6, <3>1, <3>2
  <2> QED
    BY <2>1 DEF Said
<1>8. Said(s) \cup Range(b) \subseteq Said(t)
  <2>1. ASSUME NEW q \in Places(s) PROVE s[q[1]][q[2]] \in Said(t)
    BY <1>4 DEF Said
  <2>2. ASSUME NEW i \in DOMAIN b PROVE b[i] \in Said(t)
    <3>1. <<n, i>> \in Places(t) /\ t[<<n, i>>[1]][<<n, i>>[2]] = b[i]
      BY <1>2, <1>5
    <3> QED
      BY <3>1 DEF Said
  <2> QED
    BY <2>1, <2>2 DEF Said, Range
<1>9. ASSUME OncePlaced(s), IsInjective(b), Said(s) \cap Range(b) = {},
             NEW p \in Places(t), NEW q \in Places(t), t[p[1]][p[2]] = t[q[1]][q[2]]
      PROVE  p = q
  <2>1. ASSUME NEW r \in Places(s), NEW i \in DOMAIN b PROVE t[r[1]][r[2]] # t[n][i]
    <3>1. t[n][i] \in Range(b) /\ t[r[1]][r[2]] \in Said(s)
      BY <1>2, <1>4 DEF Range
    <3> QED
      BY <1>9, <3>1
  <2>2. CASE p \in Places(s) /\ q \in Places(s)
    BY <1>4, <1>9, <2>2 DEF OncePlaced
  <2>3. CASE p \in Places(s) /\ \E i \in DOMAIN b : q = <<n, i>>
    <3>1. PICK i \in DOMAIN b : q = <<n, i>>
      BY <2>3
    <3>2. t[q[1]][q[2]] = t[n][i]
      BY <3>1
    <3> QED
      BY <1>9, <2>1, <2>3, <3>2
  <2>4. CASE q \in Places(s) /\ \E i \in DOMAIN b : p = <<n, i>>
    <3>1. PICK i \in DOMAIN b : p = <<n, i>>
      BY <2>4
    <3>2. t[p[1]][p[2]] = t[n][i]
      BY <3>1
    <3> QED
      BY <1>9, <2>1, <2>4, <3>2
  <2>5. CASE (\E i \in DOMAIN b : p = <<n, i>>) /\ \E i \in DOMAIN b : q = <<n, i>>
    <3>1. PICK i \in DOMAIN b, j \in DOMAIN b : p = <<n, i>> /\ q = <<n, j>>
      BY <2>5
    <3>2. b[i] = b[j]
      BY <1>2, <1>9, <3>1
    <3> QED
      BY <1>9, <3>1, <3>2 DEF IsInjective
  <2> QED
    BY <1>6, <2>2, <2>3, <2>4, <2>5
<1> QED
  BY <1>7, <1>8, <1>9 DEF OncePlaced

\* What is told and what is still to be told make up D, each name once.
Delivered(u, s, D) ==
  /\ IsInjective(u) /\ OncePlaced(s)
  /\ Said(s) \cap Range(u) = {} /\ Said(s) \cup Range(u) = D
  /\ IsFiniteSet(D)
  /\ \A x \in DOMAIN s : Len(s[x]) \in 1..BatchSize

DeliveredOK == \A n \in Notices : Delivered(unsent[n], sent[n], due[n])

(* Nothing told, nothing to tell.                                          *)
LEMMA NothingDue == Delivered(<<>>, <<>>, {})
<1>1. DOMAIN <<>> = {}
  BY EmptySeq
<1>2. Range(<<>>) = {} /\ IsInjective(<<>>)
  BY <1>1 DEF Range, IsInjective
<1>3. Places(<<>>) = {}
  BY <1>1, PlaceOf
<1>4. Said(<<>>) = {} /\ OncePlaced(<<>>)
  BY <1>3 DEF Said, OncePlaced
<1>5. IsFiniteSet({})
  BY FS_EmptySet
<1> QED
  BY <1>1, <1>2, <1>4, <1>5 DEF Delivered

(* A goroutine whose turn is over and has a new list begins afresh.        *)
LEMMA NewList ==
  ASSUME NEW S, NEW u, NEW s, Delivered(u, s, {}), NEW v \in Seq(S), IsInjective(v)
  PROVE  Delivered(v, s, Range(v))
<1>1. Said(s) = {} /\ OncePlaced(s) /\ \A x \in DOMAIN s : Len(s[x]) \in 1..BatchSize
  BY DEF Delivered
<1>2. IsFiniteSet(Range(v))
  <2>1. IsFiniteSet(1..Len(v)) /\ v \in Surjection(1..Len(v), Range(v))
    <3>1. Len(v) \in Nat /\ DOMAIN v = 1..Len(v) /\ v \in [1..Len(v) -> S]
      BY LenProperties
    <3>2. v \in [1..Len(v) -> Range(v)] /\ \A x \in Range(v) : \E i \in 1..Len(v) : v[i] = x
      BY <3>1 DEF Range
    <3> QED
      BY <3>1, <3>2, FS_Interval DEF Surjection
  <2> QED
    BY <2>1, FS_Surjection
<1> QED
  BY <1>1, <1>2 DEF Delivered

(* A batch sent moves its names from the one side to the other.            *)
LEMMA SendDelivers ==
  ASSUME NEW S, NEW u \in Seq(S), NEW s \in Seq(Seq(S)), NEW D, Delivered(u, s, D), u # <<>>,
         NEW b, b = SubSeq(u, 1, IF Len(u) < BatchSize THEN Len(u) ELSE BatchSize),
         NEW v, v = SubSeq(u, BatchSize + 1, Len(u)), NEW t, t = Append(s, b)
  PROVE  Delivered(v, t, D)
<1> DEFINE m == IF Len(u) < BatchSize THEN Len(u) ELSE BatchSize
<1>1. Len(u) \in Nat \ {0} /\ BatchSize \in Nat \ {0}
  BY EmptySeq, PageAssumption
<1>2. m \in 1..Len(u) /\ m \in 1..BatchSize
  BY <1>1
<1>3. v = SubSeq(u, m + 1, Len(u))
  <2>1. CASE Len(u) < BatchSize
    <3>1. Len(u) < BatchSize + 1 /\ Len(u) < m + 1 /\ m + 1 \in Int /\ BatchSize + 1 \in Int
      BY <1>1, <2>1
    <3> HIDE DEF m
    <3> QED
      BY <1>1, <3>1, SubSeqEmpty
  <2>2. CASE ~ (Len(u) < BatchSize)
    BY <2>2
  <2> QED
    BY <2>1, <2>2
<1>4. b = SubSeq(u, 1, m)
  OBVIOUS
<1> HIDE DEF m
<1>5. IsInjective(u)
  BY DEF Delivered
<1>6. /\ b \in Seq(S) /\ Len(b) = m
      /\ IsInjective(b) /\ IsInjective(v)
      /\ Range(b) \cup Range(v) = Range(u) /\ Range(b) \cap Range(v) = {}
  <2>1. LET p == SubSeq(u, 1, m)
            q == SubSeq(u, m + 1, Len(u))
        IN  /\ p \in Seq(S) /\ Len(p) = m
            /\ IsInjective(p) /\ IsInjective(q)
            /\ Range(p) \cup Range(q) = Range(u) /\ Range(p) \cap Range(q) = {}
    BY <1>2, <1>5, SplitRange
  <2> QED
    BY <1>3, <1>4, <2>1, Zenon
<1>7. Said(s) \cap Range(b) = {}
  BY <1>6 DEF Delivered
<1>8. Said(t) = Said(s) \cup Range(b) /\ OncePlaced(t)
  <2>1. OncePlaced(s)
    BY DEF Delivered
  <2> QED
    BY <1>6, <1>7, <2>1, OneMoreBatch
<1>9. \A x \in DOMAIN t : Len(t[x]) \in 1..BatchSize
  <2>1. /\ Len(s) \in Nat /\ DOMAIN s = 1..Len(s) /\ DOMAIN t = 1..Len(s) + 1
        /\ t[Len(s) + 1] = b /\ \A x \in 1..Len(s) : t[x] = s[x]
    BY <1>6, AppendProperties, LenProperties
  <2>2. \A x \in DOMAIN t : x = Len(s) + 1 \/ x \in DOMAIN s
    BY <2>1
  <2> QED
    BY <1>2, <1>6, <2>1, <2>2 DEF Delivered
<1>10. Said(t) \cap Range(v) = {} /\ Said(t) \cup Range(v) = D /\ IsFiniteSet(D)
  BY <1>6, <1>8 DEF Delivered
<1> QED
  BY <1>6, <1>8, <1>9, <1>10 DEF Delivered

(* Once all is told, each name has its place.                              *)
LEMMA AllTold ==
  ASSUME NEW s, NEW D, Delivered(<<>>, s, D)
  PROVE  Said(s) = D /\ Cardinality(Places(s)) = Cardinality(D)
<1>1. Said(s) = D
  <2>1. DOMAIN <<>> = {}
    BY EmptySeq
  <2>2. Range(<<>>) = {}
    BY <2>1 DEF Range
  <2> QED
    BY <2>2 DEF Delivered
<1> DEFINE f == [q \in Places(s) |-> s[q[1]][q[2]]]
<1>2. f \in Injection(Places(s), D) /\ f \in Surjection(Places(s), D)
  <2>1. f \in [Places(s) -> D] /\ \A d \in D : \E q \in Places(s) : f[q] = d
    BY <1>1 DEF Said
  <2>2. IsInjective(f)
    BY DEF Delivered, OncePlaced, IsInjective
  <2> HIDE DEF f
  <2> QED
    BY <2>1, <2>2 DEF Injection, Surjection
<1> HIDE DEF f
<1>3. IsFiniteSet(D)
  BY DEF Delivered
<1> QED
  BY <1>1, <1>2, <1>3, FS_Injection

(* Every step keeps the account of what is told.                           *)
LEMMA DeliveredStep ==
  ASSUME TidyPages
  PROVE  Typing /\ PassedOK /\ DeliveredOK /\ [Next]_vars => DeliveredOK'
<1> SUFFICES ASSUME Typing, PassedOK, DeliveredOK, [Next]_vars PROVE DeliveredOK'
  OBVIOUS
<1>1. /\ unsent \in [Notices -> Seq(Path)] /\ sent \in [Notices -> Seq(Seq(Path))]
      /\ due \in [Notices -> SUBSET Repos]
  BY DEF Typing, TypeOK
<1>2. \A n \in Notices : Delivered(unsent[n], sent[n], due[n])
  BY DEF DeliveredOK
<1>3. CASE Notify /\ ~ UNCHANGED noticeVars
  <2>1. PICK n \in Notices :
          /\ due[n] = {} /\ unsent' = [unsent EXCEPT ![n] = Cleaned(repos)]
          /\ due' = [due EXCEPT ![n] = Found \ failed] /\ sent' = sent
    BY <1>3 DEF Notify
  <2>2. /\ Cleaned(repos) = repos /\ repos \in Seq(Path) /\ IsInjective(repos)
        /\ Range(repos) = Found \ failed
    BY <1>3, ToldIsFound DEF Notify
  <2>3. Delivered(unsent[n], sent[n], {})
    BY <1>2, <2>1
  <2>4. Delivered(repos, sent[n], Range(repos))
    BY <2>2, <2>3, NewList
  <2>5. ASSUME NEW k \in Notices PROVE Delivered(unsent'[k], sent'[k], due'[k])
    BY <1>1, <1>2, <2>1, <2>2, <2>4
  <2> QED
    BY <2>5 DEF DeliveredOK
<1>4. ASSUME NEW n \in Notices, Send(n) PROVE DeliveredOK'
  <2>1. /\ unsent[n] # <<>> /\ sent' = [sent EXCEPT ![n] = Append(@, Batch(n))] /\ due' = due
        /\ unsent' = [unsent EXCEPT ![n] = SubSeq(@, BatchSize + 1, Len(@))]
    BY <1>4 DEF Send
  <2>2. Delivered(SubSeq(unsent[n], BatchSize + 1, Len(unsent[n])),
                  Append(sent[n], Batch(n)), due[n])
    BY <1>1, <1>2, <2>1, SendDelivers DEF Batch
  <2>3. /\ unsent'[n] = SubSeq(unsent[n], BatchSize + 1, Len(unsent[n]))
        /\ sent'[n] = Append(sent[n], Batch(n))
        /\ \A k \in Notices \ {n} : unsent'[k] = unsent[k] /\ sent'[k] = sent[k]
    BY <1>1, <2>1
  <2>4. ASSUME NEW k \in Notices PROVE Delivered(unsent'[k], sent'[k], due'[k])
    BY <1>2, <2>1, <2>2, <2>3
  <2> QED
    BY <2>4 DEF DeliveredOK
<1>5. ASSUME NEW n \in Notices, EndNotice(n) PROVE DeliveredOK'
  <2>1. /\ unsent[n] = <<>> /\ sent' = [sent EXCEPT ![n] = <<>>]
        /\ due' = [due EXCEPT ![n] = {}] /\ unsent' = unsent
    BY <1>5 DEF EndNotice, Told
  <2>2. ASSUME NEW k \in Notices PROVE Delivered(unsent'[k], sent'[k], due'[k])
    BY <1>1, <1>2, <2>1, NothingDue
  <2> QED
    BY <2>2 DEF DeliveredOK
<1>6. CASE UNCHANGED noticeVars
  BY <1>6 DEF DeliveredOK, noticeVars
<1>7. CASE BeginSync \/ Skip \/ Upsert \/ EndUpserts \/ RecomputeZero \/ RecomputeTop
           \/ RecomputeNext \/ RecomputeRest \/ Settle \/ UNCHANGED vars
  <2>1. UNCHANGED noticeVars
    BY <1>7 DEF BeginSync, Skip, Upsert, EndUpserts, RecomputeZero, RecomputeTop, RecomputeNext,
                RecomputeRest, Statement, Settle, vars, noticeVars
  <2> QED
    BY <1>6, <2>1
<1> QED
  BY <1>3, <1>4, <1>5, <1>6, <1>7 DEF Next, Sync

(* For pages as GitHub makes them: what a sync passes on is what its page  *)
(* names and whose upsert did not fail, and every notifier goroutine that  *)
(* has ended its list has told each repo of it in one batch, once, and     *)
(* nothing else - for pages and batches of any length, any statements that *)
(* fail, and any number of goroutines beside each other and later syncs.   *)
THEOREM EachToldOnce ==
  ASSUME TidyPages
  PROVE  Spec => []ToldOnce
<1>1. Init => DeliveredOK
  BY NothingDue DEF Init, DeliveredOK
<1>2. Typing /\ PassedOK /\ DeliveredOK => ToldOnce
  <2> SUFFICES ASSUME Typing, PassedOK, DeliveredOK PROVE ToldOnce
    OBVIOUS
  <2>1. pc = "enrich" => Range(Cleaned(repos)) = Found \ failed
    BY ToldIsFound
  <2>2. ASSUME NEW n \in Notices, Told(n)
        PROVE  /\ Said(sent[n]) = due[n]
               /\ Cardinality(Places(sent[n])) = Cardinality(due[n])
               /\ \A x \in DOMAIN sent[n] : Len(sent[n][x]) \in 1..BatchSize
    <3>1. Delivered(<<>>, sent[n], due[n])
      BY <2>2 DEF DeliveredOK, Told
    <3>2. \A x \in DOMAIN sent[n] : Len(sent[n][x]) \in 1..BatchSize
      BY <3>1 DEF Delivered
    <3> QED
      BY <3>1, <3>2, AllTold
  <2> QED
    BY <2>1, <2>2 DEF ToldOnce, Said
<1>3. Typing /\ PassedOK /\ [Next]_vars => PassedOK'
  BY PassedStep
<1>4. Typing /\ PassedOK /\ DeliveredOK /\ [Next]_vars => DeliveredOK'
  BY DeliveredStep
<1> QED
  BY <1>1, <1>2, <1>3, <1>4, TypeInit, TypeStep, PassedInit, PTL DEF Spec

============================================================================
