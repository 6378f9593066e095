------------------------- MODULE LanguageSyncProofs -------------------------
(***************************************************************************)
(* Theorems about LanguageSync, for every number of syncs and of other     *)
(* users of the connection, whatever the pages list, with failing          *)
(* statements and crashes.                                                 *)
(***************************************************************************)
EXTENDS LanguageSync, SequenceTheorems, TLAPS

\* The draft d is what the first items of menu m make, each of them once, and
\* l is the rest of m.
Inserted(m, l, d) ==
  LET n == Len(m) - Len(l)
  IN  /\ n \in Nat
      /\ \A i \in 1..Len(l) : l[i] = m[n + i]
      /\ d = {m[i] : i \in 1..n}
      /\ \A i, j \in 1..n : m[i] = m[j] => i = j

\* A sync starts its transaction with the whole menu, and what it commits is one.
WholeOK ==
  /\ \A g \in Syncs : pc[g] \in {"begin", "delete"} => left[g] = menu[g]
  /\ \A g \in Syncs : pc[g] = "insert" => Inserted(menu[g], left[g], draft)
  /\ MenuIsWhole

----------------------------------------------------------------------------
(***************************************************************************)
(* Types, and who has the connection.                                      *)
(***************************************************************************)

(* A menu is a sequence of languages, and so is the empty one.             *)
LEMMA MenuTypes ==
  /\ \A m \in Menus \cup {<<>>} : m \in Seq(Languages)
  /\ \A m \in Menus \cup {<<>>} : Range(m) \subseteq Languages
<1>1. \A m \in Menus : m \in Seq(Languages)
  BY LanguageAssumption DEF Languages
<1>2. <<>> \in Seq(Languages)
  OBVIOUS
<1> QED
  BY <1>1, <1>2, RangeOfSeq

(* At first the connection is free, and nobody runs.                       *)
LEMMA LanguageTypeInit == Init => TypeOK
  BY LanguageAssumption DEF Init, TypeOK, InTransaction

(* Every step keeps the types: the connection goes to one goroutine at a   *)
(* time, which gives it back when it leaves its transaction or closes its  *)
(* rows.                                                                   *)
LEMMA LanguageTypeStep == TypeOK /\ [Next]_vars => TypeOK'
<1> SUFFICES ASSUME TypeOK, [Next]_vars PROVE TypeOK'
  OBVIOUS
<1> USE LanguageAssumption DEF TypeOK, InTransaction, Goto
<1>1. ASSUME NEW g \in Syncs, Scrape(g) PROVE TypeOK'
  BY <1>1, MenuTypes DEF Scrape
<1>2. ASSUME NEW g \in Syncs, Begin(g) PROVE TypeOK'
  BY <1>2 DEF Begin
<1>3. ASSUME NEW g \in Syncs, Delete(g) PROVE TypeOK'
  BY <1>3 DEF Delete, OrFails
<1>4. ASSUME NEW g \in Syncs, Insert(g) PROVE TypeOK'
  <2>1. Head(left[g]) \in Languages /\ Tail(left[g]) \in Seq(Languages)
    BY <1>4, HeadTailProperties DEF Insert
  <2> QED
    BY <1>4, <2>1 DEF Insert, OrFails
<1>5. ASSUME NEW g \in Syncs, Duplicate(g) PROVE TypeOK'
  BY <1>5 DEF Duplicate
<1>6. ASSUME NEW g \in Syncs, Commit(g) PROVE TypeOK'
  BY <1>6 DEF Commit
<1>7. ASSUME NEW g \in Syncs, Rollback(g) PROVE TypeOK'
  BY <1>7 DEF Rollback
<1>8. ASSUME NEW g \in Syncs, SetCache(g) PROVE TypeOK'
  BY <1>8, MenuTypes DEF SetCache
<1>9. ASSUME NEW o \in Others, OpenRows(o) \/ CloseRows(o) PROVE TypeOK'
  BY <1>9 DEF OpenRows, CloseRows
<1>10. CASE Crash
  BY <1>10, MenuTypes DEF Crash
<1>11. CASE UNCHANGED vars
  BY <1>11 DEF vars
<1> QED
  BY <1>1, <1>2, <1>3, <1>4, <1>5, <1>6, <1>7, <1>8, <1>9, <1>10, <1>11 DEF Next, Finish

(* Type correctness, and with it that at most one goroutine has the        *)
(* connection and only a sync that has it sees a draft (sqlite.go,         *)
(* SetMaxOpenConns(1)).                                                    *)
THEOREM LanguageTyping == Spec => []TypeOK
  BY LanguageTypeInit, LanguageTypeStep, PTL DEF Spec

----------------------------------------------------------------------------
(***************************************************************************)
(* The table is one whole menu.                                            *)
(***************************************************************************)

(* The table is empty at first.                                            *)
LEMMA WholeInit == Init => WholeOK
  BY DEF Init, WholeOK, MenuIsWhole

(* One more item of the menu that the draft does not have yet.             *)
LEMMA OneMoreInserted ==
  ASSUME NEW S, NEW m \in Seq(S), NEW l \in Seq(S), NEW d,
         Inserted(m, l, d), l # <<>>, Head(l) \notin d
  PROVE  Inserted(m, Tail(l), d \cup {Head(l)})
<1> DEFINE n == Len(m) - Len(l)
<1>1. /\ Len(l) \in Nat \ {0} /\ Len(Tail(l)) = Len(l) - 1
      /\ \A i \in 1..Len(Tail(l)) : Tail(l)[i] = l[i + 1]
      /\ Head(l) = l[1]
  BY EmptySeq, HeadTailProperties
<1>2. n \in Nat /\ Len(m) \in Nat /\ Len(m) - Len(Tail(l)) = n + 1
  BY <1>1, LenProperties DEF Inserted
<1>3. /\ \A i \in 1..Len(l) : l[i] = m[n + i]
      /\ d = {m[i] : i \in 1..n}
      /\ \A i, j \in 1..n : m[i] = m[j] => i = j
  BY DEF Inserted
<1> HIDE DEF n
<1>4. Head(l) = m[n + 1]
  BY <1>1, <1>3
<1>5. \A i \in 1..n : m[i] # m[n + 1]
  BY <1>3, <1>4
<1>6. \A i \in 1..Len(Tail(l)) : Tail(l)[i] = m[n + 1 + i]
  <2> SUFFICES ASSUME NEW i \in 1..Len(Tail(l)) PROVE Tail(l)[i] = m[n + 1 + i]
    OBVIOUS
  <2>1. i + 1 \in 1..Len(l) /\ n + (i + 1) = n + 1 + i
    BY <1>1, <1>2
  <2> QED
    BY <1>1, <1>3, <2>1
<1>7. \A i \in 1..n + 1 : i \in 1..n \/ i = n + 1
  BY <1>2
<1>8. \A i \in 1..n : i \in 1..n + 1
  BY <1>2
<1>9. n + 1 \in 1..n + 1 /\ n + 1 \in Nat
  BY <1>2
<1>10. d \cup {Head(l)} = {m[i] : i \in 1..n + 1}
  BY <1>3, <1>4, <1>7, <1>8, <1>9
<1>11. \A i, j \in 1..n + 1 : m[i] = m[j] => i = j
  BY <1>3, <1>5, <1>7
<1> QED
  BY <1>2, <1>6, <1>9, <1>10, <1>11 DEF Inserted

(* Before the first INSERT nothing is inserted, after the last everything. *)
LEMMA InsertedEnds ==
  ASSUME NEW S, NEW m \in Seq(S)
  PROVE  /\ Inserted(m, m, {})
         /\ \A d : Inserted(m, <<>>, d) => IsInjective(m) /\ d = Range(m)
<1>1. Len(m) \in Nat /\ DOMAIN m = 1..Len(m) /\ Len(<<>>) = 0
  BY LenProperties
<1>2. Len(m) - Len(m) = 0 /\ Len(m) - Len(<<>>) = Len(m) /\ 1..0 = {}
  BY <1>1
<1>3. Inserted(m, m, {})
  BY <1>1, <1>2 DEF Inserted
<1>4. ASSUME NEW d, Inserted(m, <<>>, d)
      PROVE  IsInjective(m) /\ d = Range(m)
  BY <1>1, <1>2, <1>4 DEF Inserted, IsInjective, Range
<1> QED
  BY <1>3, <1>4

(* Every step keeps the drafts and the table whole.                        *)
LEMMA WholeStep == TypeOK /\ WholeOK /\ [Next]_vars => WholeOK'
<1> SUFFICES ASSUME TypeOK, WholeOK, [Next]_vars PROVE WholeOK'
  OBVIOUS
<1>owner. /\ \A g \in Syncs : conn = g <=> pc[g] \in InTransaction \cup {"rows"}
          /\ \A o \in Others : conn = o <=> pc[o] \in InTransaction \cup {"rows"}
          /\ \A g \in Syncs : menu[g] \in Seq(Languages) /\ left[g] \in Seq(Languages)
          /\ \A m \in Menus : m \in Seq(Languages)
          /\ Syncs \cap Others = {} /\ Nobody \notin Syncs \cup Others
  BY MenuTypes, LanguageAssumption DEF TypeOK
<1> USE DEF WholeOK, MenuIsWhole, InTransaction, Goto
<1>1. ASSUME NEW g \in Syncs, Scrape(g) PROVE WholeOK'
  BY <1>1 DEF Scrape, TypeOK
<1>2. ASSUME NEW g \in Syncs, Begin(g) PROVE WholeOK'
  BY <1>2, <1>owner DEF Begin, TypeOK
<1>3. ASSUME NEW g \in Syncs, Delete(g) PROVE WholeOK'
  <2>1. \A h \in Syncs \ {g} : pc[h] # "insert"
    BY <1>3, <1>owner DEF Delete
  <2>2. Inserted(menu[g], left[g], {})
    BY <1>3, <1>owner, InsertedEnds DEF Delete
  <2> QED
    BY <1>3, <2>1, <2>2 DEF Delete, OrFails, TypeOK
<1>4. ASSUME NEW g \in Syncs, Insert(g) PROVE WholeOK'
  <2>1. \A h \in Syncs \ {g} : pc[h] # "insert"
    BY <1>4, <1>owner DEF Insert
  <2>2. Inserted(menu[g], Tail(left[g]), draft \cup {Head(left[g])})
    BY <1>4, <1>owner, OneMoreInserted DEF Insert
  <2> QED
    BY <1>4, <2>1, <2>2 DEF Insert, OrFails, TypeOK
<1>5. ASSUME NEW g \in Syncs, Duplicate(g) PROVE WholeOK'
  BY <1>5 DEF Duplicate, TypeOK
<1>6. ASSUME NEW g \in Syncs, Commit(g) PROVE WholeOK'
  <2>1. \A h \in Syncs \ {g} : pc[h] # "insert"
    BY <1>6, <1>owner DEF Commit
  <2>2. IsInjective(menu[g]) /\ draft = Range(menu[g])
    BY <1>6, <1>owner, InsertedEnds DEF Commit
  <2>3. menu[g] \in Menus \/ Range(menu[g]) = {}
    BY DEF TypeOK, Range
  <2> QED
    BY <1>6, <2>1, <2>2, <2>3 DEF Commit, TypeOK
<1>7. ASSUME NEW g \in Syncs, Rollback(g) PROVE WholeOK'
  <2>1. \A h \in Syncs \ {g} : pc[h] # "insert"
    BY <1>7, <1>owner DEF Rollback
  <2> QED
    BY <1>7, <2>1 DEF Rollback, TypeOK
<1>8. ASSUME NEW g \in Syncs, SetCache(g) PROVE WholeOK'
  BY <1>8 DEF SetCache, TypeOK
<1>9. ASSUME NEW o \in Others, OpenRows(o) \/ CloseRows(o) PROVE WholeOK'
  BY <1>9, <1>owner DEF OpenRows, CloseRows, TypeOK
<1>10. CASE Crash
  BY <1>10 DEF Crash
<1>11. CASE UNCHANGED vars
  BY <1>11 DEF vars
<1> QED
  BY <1>1, <1>2, <1>3, <1>4, <1>5, <1>6, <1>7, <1>8, <1>9, <1>10, <1>11 DEF Next, Finish

(* Whatever fails, crashes or overlaps, the committed table is one whole   *)
(* menu, or none has been stored yet (sqlite.go, UpsertLanguages).         *)
THEOREM TableIsWhole == Spec => []MenuIsWhole
<1>1. WholeOK => MenuIsWhole
  BY DEF WholeOK
<1> QED
  BY <1>1, LanguageTypeInit, LanguageTypeStep, WholeInit, WholeStep, PTL DEF Spec

=============================================================================
