-------------------------- MODULE BagTable_proofs --------------------------
(***************************************************************************)
(* What a SELECT of QueryEngine returns, and the refinement of BagTable.   *)
(***************************************************************************)
EXTENDS QueryEngine_proofs

(* The pages of a list: those on the way down from its first page.         *)
LEMMA ListFromRecursion ==
    ASSUME NEW d \in Database, FileLinked(d)
    PROVE  /\ ListFrom(d, 0) = {}
           /\ \A k \in 1 .. d.number_of_pages :
                ListFrom(d, k) = IF d.file[k].next < k
                                 THEN {k} \cup ListFrom(d, d.file[k].next)
                                 ELSE {k}
           /\ \A k \in 0 .. d.number_of_pages : ListFrom(d, k) \subseteq 1 .. k
<1> DEFINE n == Len(d.file)
           Pages(f) == f = [k \in 0 .. n |->
                              IF k = 0 THEN {}
                              ELSE IF d.file[k].next < k THEN {k} \cup f[d.file[k].next]
                              ELSE {k}]
           next == [k \in 1 .. n |-> d.file[k].next]
           pages == CHOOSE f : Pages(f)
<1>1. n \in Nat /\ n = d.number_of_pages
  BY DEF Database, FileLinked
<1>2. next \in [1 .. n -> Nat]
  <2>1. ASSUME NEW k \in 1 .. n PROVE d.file[k].next \in Nat
    <3>1. d.file[k] \in Page
      BY <1>1, PageFacts
    <3> QED
      BY <3>1 DEF Page
  <2> QED
    BY <2>1
<1> HIDE DEF n
<1>3. PICK f \in [0 .. n -> SUBSET (1 .. n)] :
        /\ f[0] = {}
        /\ \A k \in 1 .. n : f[k] = IF next[k] < k THEN {k} \cup f[next[k]] ELSE {k}
  <2> HIDE DEF next
  <2> QED
    BY <1>1, <1>2, Descents
<1>4. Pages(f)
  <2>1. f = [k \in 0 .. n |-> f[k]]
    OBVIOUS
  <2>2. ASSUME NEW k \in 0 .. n
        PROVE  f[k] = IF k = 0 THEN {}
                      ELSE IF d.file[k].next < k THEN {k} \cup f[d.file[k].next]
                      ELSE {k}
    <3>1. k = 0 \/ k \in 1 .. n
      BY <1>1
    <3> QED
      BY <1>3, <3>1
  <2> QED
    BY <2>1, <2>2
<1>5. Pages(pages)
  <2> HIDE DEF Pages
  <2> QED
    BY <1>4
<1>6. \A i : ListFrom(d, i) = pages[i]
  BY DEF ListFrom, n
<1> HIDE DEF pages
<1>7. /\ pages[0] = {}
      /\ \A k \in 1 .. n : pages[k] = IF d.file[k].next < k
                                     THEN {k} \cup pages[d.file[k].next] ELSE {k}
  <2>1. ASSUME NEW k \in 0 .. n
        PROVE  pages[k] = IF k = 0 THEN {}
                          ELSE IF d.file[k].next < k
                          THEN {k} \cup pages[d.file[k].next] ELSE {k}
    BY <1>5
  <2>2. pages[0] = {}
    <3>1. 0 \in 0 .. n
      BY <1>1
    <3> QED
      BY <2>1, <3>1
  <2>3. ASSUME NEW k \in 1 .. n
        PROVE  pages[k] = IF d.file[k].next < k
                          THEN {k} \cup pages[d.file[k].next] ELSE {k}
    <3>1. k \in 0 .. n /\ k # 0
      BY <1>1
    <3> QED
      BY <2>1, <3>1
  <2> QED
    BY <2>2, <2>3
<1>8. \A k \in 0 .. n : pages[k] \subseteq 1 .. k
  <2> DEFINE S == {k \in Nat : \A j \in 0 .. k : j <= n => pages[j] \subseteq 1 .. j}
  <2>1. 0 \in S
    <3>1. \A j \in 0 .. 0 : j = 0
      OBVIOUS
    <3>2. pages[0] \subseteq 1 .. 0
      BY <1>7
    <3> QED
      BY <3>1, <3>2
  <2>2. ASSUME NEW k \in Nat, k \in S PROVE k + 1 \in S
    <3>1. ASSUME k + 1 <= n PROVE pages[k + 1] \subseteq 1 .. k + 1
      <4> DEFINE m == d.file[k + 1].next
      <4>1. k + 1 \in 0 .. n /\ k + 1 # 0 /\ k + 1 \in 1 .. n /\ m \in Nat
        BY <1>1, <1>2, <3>1
      <4>2. pages[k + 1] = IF m < k + 1 THEN {k + 1} \cup pages[m] ELSE {k + 1}
        BY <1>7, <4>1
      <4>3. m < k + 1 => m \in 0 .. k /\ m <= n
        BY <1>1, <3>1, <4>1
      <4>4. m < k + 1 => pages[m] \subseteq 1 .. m
        BY <2>2, <4>3
      <4> HIDE DEF m
      <4> QED
        BY <4>1, <4>2, <4>3, <4>4
    <3>2. ASSUME NEW j \in 0 .. k + 1, j <= n PROVE pages[j] \subseteq 1 .. j
      <4>1. j = k + 1 \/ j \in 0 .. k
        OBVIOUS
      <4> QED
        BY <2>2, <3>1, <3>2, <4>1
    <3> QED
      BY <3>2
  <2>3. Nat \subseteq S
    <3> HIDE DEF S
    <3> QED
      BY <2>1, <2>2, NatSetInduction
  <2> QED
    BY <1>1, <2>3
<1> HIDE DEF Pages
<1>9. ListFrom(d, 0) = {}
  BY <1>6, <1>7
<1>10. ASSUME NEW k \in 1 .. n
       PROVE  ListFrom(d, k) = IF d.file[k].next < k
                               THEN {k} \cup ListFrom(d, d.file[k].next) ELSE {k}
  <2>1. ListFrom(d, k) = pages[k] /\ ListFrom(d, d.file[k].next) = pages[d.file[k].next]
    BY <1>6
  <2>2. pages[k] = IF d.file[k].next < k
                   THEN {k} \cup pages[d.file[k].next] ELSE {k}
    BY <1>7
  <2> QED
    BY <2>1, <2>2
<1>11. \A k \in 0 .. n : ListFrom(d, k) \subseteq 1 .. k
  BY <1>6, <1>8
<1> QED
  BY <1>1, <1>9, <1>10, <1>11

\* The places on page m that hold v in a whole row.
PlacesOn(d, m, v) ==
    {i \in DOMAIN d.file[m].rows : d.file[m].rows[i] = v /\ Intact(d.file[m].rows, i)}

(* The places on one page are finitely many.                               *)
LEMMA PlacesOnFinite ==
    ASSUME NEW d \in Database, FileLinked(d), NEW m \in 1 .. d.number_of_pages, NEW v
    PROVE  IsFiniteSet(PlacesOn(d, m, v))
<1>1. DOMAIN d.file[m].rows = 1 .. Len(d.file[m].rows) /\ Len(d.file[m].rows) \in Nat
  BY PageFacts, LenProperties
<1>2. IsFiniteSet(1 .. Len(d.file[m].rows))
  BY <1>1, FS_Interval
<1>3. PlacesOn(d, m, v) \in SUBSET (1 .. Len(d.file[m].rows))
  BY <1>1 DEF PlacesOn
<1> QED
  BY <1>2, <1>3, FS_Subset

(* A list without a page holds nothing.                                    *)
LEMMA NoPlaces ==
    ASSUME NEW d \in Database, FileLinked(d), NEW v
    PROVE  Places(d, 0, v) = {} /\ Cardinality(Places(d, 0, v)) = 0
<1>1. Places(d, 0, v) = {}
  BY ListFromRecursion DEF Places
<1> QED
  BY <1>1, FS_EmptySet

(* The places of a list are those of its first page and those of the rest. *)
LEMMA PlacesStep ==
    ASSUME NEW d \in Database, FileLinked(d), NEW k \in 1 .. d.number_of_pages,
           d.file[k].next < k, NEW v
    PROVE  /\ Places(d, k, v)
                = ({k} \X PlacesOn(d, k, v)) \cup Places(d, d.file[k].next, v)
           /\ ({k} \X PlacesOn(d, k, v)) \cap Places(d, d.file[k].next, v) = {}
<1> DEFINE m == d.file[k].next
           P(j) == {j} \X PlacesOn(d, j, v)
<1>1. ListFrom(d, k) = {k} \cup ListFrom(d, m)
  BY ListFromRecursion
<1>2. k \notin ListFrom(d, m)
  <2>1. m \in 0 .. d.number_of_pages /\ d.number_of_pages \in Nat
    <3>1. d.file[k] \in Page /\ d.number_of_pages \in Nat
      BY PageFacts
    <3>2. d.file[k].next \in Nat
      BY <3>1 DEF Page
    <3> QED
      BY <3>1, <3>2
  <2>2. ListFrom(d, m) \subseteq 1 .. m
    BY <2>1, ListFromRecursion
  <2> QED
    BY <2>1, <2>2
<1>3. \A n : Places(d, n, v) = UNION {P(j) : j \in ListFrom(d, n)}
  BY DEF Places, PlacesOn
<1> HIDE DEF m
<1>4. Places(d, k, v) = P(k) \cup Places(d, m, v)
  <2> HIDE DEF P
  <2> QED
    BY <1>1, <1>3
<1>5. P(k) \cap Places(d, m, v) = {}
  BY <1>2, <1>3
<1> QED
  BY <1>4, <1>5 DEF m

(* A list holds a row finitely often.                                      *)
LEMMA PlacesFinite ==
    ASSUME NEW d \in Database, FileLinked(d), NEW k \in 0 .. d.number_of_pages, NEW v
    PROVE  IsFiniteSet(Places(d, k, v)) /\ Cardinality(Places(d, k, v)) \in Nat
<1> DEFINE L == ListFrom(d, k)
           P(j) == {j} \X PlacesOn(d, j, v)
           f == [j \in L |-> P(j)]
           T == {P(j) : j \in L}
<1>1. d.number_of_pages \in Nat
  BY DEF Database
<1>2. L \subseteq 1 .. k /\ L \subseteq 1 .. d.number_of_pages
  <2>1. L \subseteq 1 .. k
    BY ListFromRecursion
  <2> QED
    BY <1>1, <2>1
<1>3. IsFiniteSet(L)
  <2> HIDE DEF L
  <2>1. IsFiniteSet(1 .. k)
    BY <1>1, FS_Interval
  <2> QED
    BY <1>2, <2>1, FS_Subset
<1>4. \A t \in T : IsFiniteSet(t)
  <2>1. ASSUME NEW j \in L PROVE IsFiniteSet(P(j))
    BY <1>2, PlacesOnFinite, PairCount
  <2> QED
    BY <2>1
<1>5. Places(d, k, v) = UNION T
  BY DEF Places, PlacesOn
<1> HIDE DEF L, P
<1>6. f \in Surjection(L, T)
  BY DEF Surjection
<1> HIDE DEF f, T
<1>7. IsFiniteSet(T)
  BY <1>3, <1>6, FS_Surjection
<1>8. IsFiniteSet(UNION T)
  BY <1>4, <1>7, FS_UNION
<1> QED
  BY <1>5, <1>8, FS_CardinalityType

(* A scan that has read a page is past the rows of that page and no others.*)
LEMMA PlacesCount ==
    ASSUME NEW d \in Database, FileLinked(d), NEW k \in 1 .. d.number_of_pages,
           d.file[k].next < k, NEW v
    PROVE  /\ Cardinality(PlacesOn(d, k, v)) \in Nat
           /\ Cardinality(Places(d, d.file[k].next, v)) \in Nat
           /\ Cardinality(Places(d, k, v)) = Cardinality(PlacesOn(d, k, v))
                                      + Cardinality(Places(d, d.file[k].next, v))
<1> DEFINE m == d.file[k].next
           A == {k} \X PlacesOn(d, k, v)
           B == Places(d, m, v)
<1>1. m \in 0 .. d.number_of_pages
  <2>1. d.file[k] \in Page /\ d.number_of_pages \in Nat
    BY PageFacts
  <2>2. m \in Nat
    BY <2>1 DEF Page
  <2> QED
    BY <2>1, <2>2
<1>2. IsFiniteSet(PlacesOn(d, k, v)) /\ Cardinality(PlacesOn(d, k, v)) \in Nat
  BY PlacesOnFinite, FS_CardinalityType
<1>3. IsFiniteSet(A) /\ Cardinality(A) = Cardinality(PlacesOn(d, k, v))
  BY <1>2, PairCount
<1> HIDE DEF m
<1>4. IsFiniteSet(B) /\ Cardinality(B) \in Nat
  BY <1>1, PlacesFinite
<1>5. Places(d, k, v) = A \cup B /\ A \cap B = {}
  BY PlacesStep DEF m
<1> HIDE DEF A, B
<1>6. Cardinality(A \cup B) = Cardinality(A) + Cardinality(B)
  BY <1>3, <1>4, <1>5, DisjointCount
<1> QED
  BY <1>2, <1>3, <1>4, <1>5, <1>6 DEF B, m

----------------------------------------------------------------------------
(***************************************************************************)
(* SELECT                                                                  *)
(***************************************************************************)
\* The findTable that returned a deallocated table visited page 1 and no more.
OneVisit ==
    /\ db.number_of_pages # 0 => db.file[1].next = 0
    /\ tbl.st = "live" => tbl.next_table = 0
    /\ tbl.st = "freed" => /\ cursor = 0 /\ db.first_table_page = 1
                           /\ tbl.iterator = db.file[1].next_free

\* What was selected and what the rest of the list holds is what is stored.
Tally ==
    Scanning("SELECT") /\ Sound =>
        \A v \in Values :
            IF v \in stmt.where.match
            THEN found[v] + Cardinality(Places(db, tbl.iterator, v)) = Stored[v]
            ELSE found[v] = 0

ScanInv ==
    /\ pc = "crashed" => reply = NoReply
    /\ ~Scanning("SELECT") => found = NoRows
    /\ NothingDropped => OneVisit /\ Tally

(* Rows are collected, and a process is down without an answer, as the     *)
(* first two conditions say.                                               *)
LEMMA FoundStep ==
    ASSUME IInv, [Next]_vars,
           pc = "crashed" => reply = NoReply,
           ~Scanning("SELECT") => found = NoRows
    PROVE  /\ pc' = "crashed" => reply' = NoReply
           /\ ~Scanning("SELECT")' => found' = NoRows
<1> DEFINE Good == /\ pc' = "crashed" => reply' = NoReply
                   /\ ~Scanning("SELECT")' => found' = NoRows
<1>1. ASSUME Crash PROVE Good
  BY <1>1 DEF Crash, ClearLocals
<1>2. ASSUME NEW r, Return(r) PROVE Good
  BY <1>2 DEF Return, ClearLocals
<1>3. ASSUME NEW status, set_result(status) PROVE Good
  BY <1>2, <1>3 DEF set_result
<1>4. CASE UNCHANGED vars \/ DropSpin \/ DeleteSpin
  BY <1>4 DEF DropSpin, DeleteSpin, vars, Scanning, Running
<1>5. CASE FindVisit \/ FindEnd \/ \E s \in Requests : Request(s)
  BY <1>5 DEF FindVisit, FindEnd, Request, Scanning, Running
<1>6. CASE FindCrash \/ UpdateNull \/ FreedTableCrash \/ InsertCrash \/ ScanCrash
  BY <1>1, <1>6 DEF FindCrash, UpdateNull, FreedTableCrash, InsertCrash, ScanCrash
<1>7. CASE \/ TableNotFound \/ TableAlreadyExists \/ InsertDone \/ DeleteEnd
           \/ DeleteFirstRow \/ CreateTable \/ DropTablePage
  BY <1>3, <1>7 DEF TableNotFound, TableAlreadyExists, InsertDone, DeleteEnd,
                    DeleteFirstRow, CreateTable, DropTablePage
<1>8. CASE FreedTableScan \/ JoinSelect
  BY <1>1, <1>3, <1>8 DEF FreedTableScan, JoinSelect
<1>9. CASE SelectEnd
  BY <1>2, <1>9 DEF SelectEnd
<1>10. CASE DropRowPage \/ DeleteEmptyPage
  BY <1>10 DEF DropRowPage, DeleteEmptyPage, AtPage, Scanning, Running
<1>11. CASE InsertRow
  <2>1. UNCHANGED <<pc, found, reply>> \/ set_result("INTERNAL_ERROR")
    BY <1>11 DEF InsertRow
  <2>2. found = NoRows /\ pc = "run"
    BY <1>11 DEF InsertRow, Running, Scanning
  <2> QED
    BY <1>3, <2>1, <2>2
<1>12. CASE SelectPage
  <2>1. tbl' = [tbl EXCEPT !.iterator = db.file[tbl.iterator].next] /\ tbl \in Handle
    BY <1>12 DEF SelectPage, NextPage, IInv, TypeOK
  <2>2. tbl'.st = tbl.st
    BY <2>1 DEF Handle
  <2> QED
    BY <1>12, <2>2 DEF SelectPage, AtPage, Scanning, Running
<1>13. CASE Restart
  BY <1>13 DEF Restart, locals, Scanning, Running
<1> QED
  BY <1>4, <1>5, <1>6, <1>7, <1>8, <1>9, <1>10, <1>11, <1>12, <1>13 DEF Next, Step

(* A SELECT that scans has just found its table, read a page, or waits.    *)
LEMMA ToScanning ==
    ASSUME IInv, [Next]_vars, Scanning("SELECT")'
    PROVE  FindVisit \/ SelectPage \/ UNCHANGED vars
<1>1. pc' = "run" /\ stmt'.op = "SELECT" /\ tbl'.st = "live"
  BY DEF Scanning, Running
<1>2. ~Crash /\ \A r : ~Return(r)
  BY <1>1 DEF Crash, Return
<1>3. ~\E status : set_result(status)
  BY <1>2 DEF set_result
<1>4. CASE \E s \in Requests : Request(s)
  BY <1>1, <1>4 DEF Request
<1>5. CASE FindEnd
  BY <1>1, <1>5 DEF FindEnd, IInv, TableAtPageOne
<1>6. CASE FindCrash \/ UpdateNull \/ FreedTableCrash \/ InsertCrash \/ ScanCrash
  BY <1>2, <1>6 DEF FindCrash, UpdateNull, FreedTableCrash, InsertCrash, ScanCrash
<1>7. CASE \/ TableNotFound \/ TableAlreadyExists \/ InsertDone \/ DeleteEnd
           \/ DeleteFirstRow \/ CreateTable \/ DropTablePage \/ SelectEnd
           \/ FreedTableScan \/ JoinSelect
  BY <1>2, <1>3, <1>7 DEF TableNotFound, TableAlreadyExists, InsertDone, DeleteEnd,
       DeleteFirstRow, CreateTable, DropTablePage, SelectEnd, FreedTableScan, JoinSelect
<1>8. CASE DropRowPage \/ DeleteEmptyPage
  BY <1>1, <1>8 DEF DropRowPage, DeleteEmptyPage, AtPage, Scanning, Running
<1>9. CASE InsertRow
  BY <1>1, <1>3, <1>9 DEF InsertRow, Running
<1>10. CASE DropSpin \/ DeleteSpin
  BY <1>10 DEF DropSpin, DeleteSpin
<1>11. CASE Restart
  BY <1>1, <1>11 DEF Restart
<1> QED
  BY <1>4, <1>5, <1>6, <1>7, <1>8, <1>9, <1>10, <1>11 DEF Next, Step

\* The page of a table just created.
NewTable(name) ==
    [page_type |-> "TABLE_PAGE", page_number |-> 1, next |-> 0, prev |-> 0,
     next_free |-> 0, free_space |-> 0, rows |-> <<>>, name |-> name,
     free_place |-> 0]

(* createTable, which only ever creates the table at page 1.               *)
LEMMA CreatePageOne ==
    ASSUME NEW d \in Database, FileLinked(d), d.first_table_page = 0,
           d.first_free_page \in {0, 1},
           d.first_free_page = 0 => d.number_of_pages = 0,
           NEW name \in Names, NEW ok \in BOOLEAN
    PROVE  LET e == createTable(d, name, ok)
           IN  /\ e \in Database
               /\ e.first_table_page = 1 /\ e.first_free_page = d.first_free_page
               /\ e.number_of_pages = IF d.first_free_page = 0 THEN 1
                                      ELSE d.number_of_pages
               /\ e.number_of_pages # 0
               /\ e.file[1] = IF ok THEN NewTable(name)
                              ELSE IF d.first_free_page = 0 THEN ZeroPage
                              ELSE d.file[1]
               /\ \A m \in 2 .. e.number_of_pages : e.file[m] = d.file[m]
<1> DEFINE c == getFreePage(d).db
           h == [st |-> "live", name |-> name, page_number |-> 1,
                 next_table |-> d.first_table_page,
                 prev_table |-> d.first_table_page,
                 first_row_page |-> 0, free_place |-> 0, iterator |-> 0]
           w == WritePage(c, 1, NewTable(name), ok)
           e == createTable(d, name, ok)
<1>1. d.number_of_pages \in Nat /\ (d.first_free_page = 1 => d.number_of_pages # 0)
  BY DEF Database, FileLinked, PageNumbers
<1>2. /\ c \in Database /\ Len(c.file) = c.number_of_pages
      /\ getFreePage(d).page_number = 1
      /\ c.first_free_page = d.first_free_page
      /\ c.number_of_pages = IF d.first_free_page = 0 THEN 1 ELSE d.number_of_pages
      /\ \A m \in 1 .. c.number_of_pages :
           c.file[m] = IF m <= d.number_of_pages THEN d.file[m] ELSE ZeroPage
  BY <1>1, GetFreePageEffect DEF Grown, FileLinked
<1>3. TablePage(h) = NewTable(name) /\ h.page_number = 1 /\ h \in Handle
  BY DEF TablePage, NewTable, Handle
<1>4. e = [w EXCEPT !.first_table_page = 1]
  BY <1>2, <1>3 DEF createTable, saveTable
<1>5. NewTable(name) \in Page
  BY <1>3, TablePageEffect
<1> HIDE DEF c, h
<1>6. /\ w \in Database /\ w.number_of_pages = c.number_of_pages
      /\ w.first_free_page = c.first_free_page
      /\ \A m \in 1 .. c.number_of_pages :
           w.file[m] = IF ok /\ m = 1 THEN NewTable(name) ELSE c.file[m]
  <2>1. ASSUME NEW p \in Page
        PROVE  LET x == WritePage(c, 1, p, ok)
               IN  /\ x \in Database /\ x.number_of_pages = c.number_of_pages
                   /\ x.first_free_page = c.first_free_page
                   /\ \A m \in 1 .. Len(c.file) :
                        x.file[m] = IF ok /\ m = 1 THEN p ELSE c.file[m]
    BY <1>2, WritePageEffect
  <2> QED
    BY <1>2, <1>5, <2>1
<1> HIDE DEF w, e
<1>7. /\ e \in Database /\ e.first_table_page = 1 /\ e.file = w.file
      /\ e.number_of_pages = w.number_of_pages
      /\ e.first_free_page = w.first_free_page
  BY <1>4, <1>6 DEF Database
<1>8. e.number_of_pages # 0 /\ 1 \in 1 .. e.number_of_pages
  BY <1>1, <1>2, <1>6, <1>7
<1>9. c.file[1] = IF d.first_free_page = 0 THEN ZeroPage ELSE d.file[1]
  BY <1>1, <1>2, <1>6, <1>7, <1>8
<1>10. ASSUME NEW m \in 2 .. e.number_of_pages PROVE e.file[m] = d.file[m]
  <2>1. m \in 1 .. c.number_of_pages /\ m # 1 /\ m <= d.number_of_pages
    BY <1>1, <1>2, <1>6, <1>7
  <2> QED
    BY <1>2, <1>6, <1>7, <2>1
<1> QED
  BY <1>2, <1>6, <1>7, <1>8, <1>9, <1>10 DEF e

(* As long as nothing was dropped the table is the last of its list, and   *)
(* findTable never visits more.                                            *)
LEMMA OneVisitStep ==
    ASSUME IInv, RowInv, NothingDropped => OneVisit, [Next]_vars, NothingDropped'
    PROVE  OneVisit'
<1>1. NullHandle.st = "null"
  BY DEF NullHandle
<1>2. ASSUME db' = db PROVE OneVisit
  BY <1>2 DEF NothingDropped
<1>3. CASE Idles
  <2>1. OneVisit
    BY <1>2, <1>3 DEF Idles
  <2> QED
    BY <1>1, <1>3, <2>1 DEF Idles, OneVisit
<1>4. CASE FindVisit
  <2> DEFINE t == readTable(db, cursor)
  <2>1. db' = db /\ pc = "find" /\ cursor # 0
    BY <1>4 DEF FindVisit, disk
  <2>2. OneVisit
    BY <1>2, <2>1
  <2>3. tbl.st = "null" /\ cursor = 1 /\ db.first_table_page = 1
    BY <2>1, <2>2 DEF OneVisit, IInv, TableAtPageOne, TypeOK, Handle
  <2>4. t.next_table = db.file[1].next /\ t.iterator = db.file[1].next_free /\ t.st = "live"
    BY <2>3 DEF readTable
  <2>5. db.file[1].next = 0 /\ t \in Handle
    <3>1. db \in Database /\ FileLinked(db) /\ db.number_of_pages \in Nat
      BY DEF IInv, TypeOK, LinksInFile, Database
    <3>2. db.number_of_pages # 0 /\ 1 \in 1 .. db.number_of_pages
      BY <2>3, <3>1 DEF FileLinked, PageNumbers
    <3> QED
      BY <2>2, <2>3, <3>1, <3>2, ReadTableEffect DEF OneVisit
  <2>6. \/ tbl' = t
        \/ tbl' = [t EXCEPT !.st = "freed"] /\ cursor' = t.next_table
    BY <1>4 DEF FindVisit
  <2> HIDE DEF t
  <2>7. /\ tbl'.st = "live" => tbl'.next_table = 0
        /\ tbl'.st = "freed" => cursor' = 0 /\ tbl'.iterator = db.file[1].next_free
    BY <2>4, <2>5, <2>6 DEF Handle
  <2> QED
    BY <2>1, <2>2, <2>3, <2>7 DEF OneVisit
<1>5. CASE CreateTable
  <2>1. PICK ok \in BOOLEAN : /\ db' = createTable(db, stmt.name, ok)
                              /\ \E status : set_result(status)
    BY <1>5 DEF CreateTable
  <2>2. /\ db \in Database /\ FileLinked(db) /\ stmt.name \in Names
        /\ db.first_table_page = 0
    BY <1>5 DEF IInv, TypeOK, LinksInFile, TableAtPageOne, CreateTable, Running, Statement
  <2>3. db.first_free_page = 0 /\ db.number_of_pages = 0
    BY <1>5, CreateKeepsStack, CreateTableListed DEF NothingDropped
  <2>4. db'.file[1] = IF ok THEN NewTable(stmt.name) ELSE ZeroPage
    BY <2>1, <2>2, <2>3, CreatePageOne
  <2> QED
    BY <1>1, <2>1, <2>4 DEF set_result, Return, ClearLocals, NewTable, ZeroPage, OneVisit
<1>6. CASE InsertRow
  <2>1. PICK wrote \in BOOLEAN, saved \in BOOLEAN :
          /\ db' = insertData(db, tbl, Head(todo), wrote, saved).db
          /\ \/ tbl' = insertData(db, tbl, Head(todo), wrote, saved).tbl
             \/ set_result("INTERNAL_ERROR")
    BY <1>6 DEF InsertRow
  <2> DEFINE res == insertData(db, tbl, Head(todo), wrote, saved)
  <2>2. tbl.st = "live" /\ Head(todo) \in Values
    <3>1. todo \in Seq(Values)
      BY DEF IInv, TypeOK
    <3> QED
      BY <1>6, <3>1, HeadTailProperties DEF InsertRow, Running
  <2>3. NothingDropped
    BY <1>6, InsertRowListed
  <2>4. /\ res.db.file[1] = IF wrote /\ saved THEN TablePage(res.tbl) ELSE db.file[1]
        /\ res.tbl.st = "live" /\ res.tbl.next_table = tbl.next_table
    BY <2>2, <2>3, LiveListed, InsertDataPages DEF SameTable
  <2> HIDE DEF res
  <2>5. /\ db'.file[1] = (IF wrote /\ saved THEN TablePage(res.tbl) ELSE db.file[1])
        /\ tbl' = res.tbl \/ tbl' = NullHandle
    BY <2>1, <2>4 DEF res, set_result, Return, ClearLocals
  <2>6. tbl.next_table = 0 /\ db.file[1].next = 0
    BY <2>2, <2>3, LiveListed DEF OneVisit
  <2>7. TablePage(res.tbl).next = res.tbl.next_table
    BY DEF TablePage
  <2> QED
    BY <1>1, <2>4, <2>5, <2>6, <2>7 DEF OneVisit
<1>7. CASE DropRowPage \/ DropTablePage
  BY <1>7, DropFrees
<1>8. CASE SelectPage \/ DeleteEmptyPage
  <2>1. /\ db' = db /\ tbl.st = "live"
        /\ tbl' = [tbl EXCEPT !.iterator = db.file[tbl.iterator].next]
    BY <1>8 DEF SelectPage, DeleteEmptyPage, AtPage, Scanning, Running, NextPage, disk
  <2>2. tbl \in Handle
    BY DEF IInv, TypeOK
  <2>3. tbl'.st = "live" /\ tbl'.next_table = tbl.next_table
    BY <2>1, <2>2 DEF Handle
  <2> QED
    BY <1>2, <2>1, <2>3 DEF OneVisit
<1>9. CASE Restart
  BY <1>1, <1>9 DEF Restart, locals, createDatabase, IInv, AtRest, OneVisit
<1> QED
  BY <1>3, <1>4, <1>5, <1>6, <1>7, <1>8, <1>9, StepKinds

(* In a sound file readRowPage can read every page.                        *)
LEMMA SoundReads ==
    ASSUME NEW n \in DOMAIN db.file, Sound
    PROVE  ReadOutcomes(db.file[n]) = {"page"}
BY DEF Sound, ReadOutcomes

(* Selecting from a page moves its rows that match from the list to found. *)
LEMMA SelectPageTally ==
    ASSUME IInv, RowInv, NothingDropped, Sound, Tally, SelectPage
    PROVE  \A v \in Values :
              IF v \in stmt.where.match
              THEN found'[v] + Cardinality(Places(db, tbl'.iterator, v)) = Stored[v]
              ELSE found'[v] = 0
<1> DEFINE n    == tbl.iterator
           rows == db.file[n].rows
           more == Selected(rows, stmt.where.match)
<1>1. /\ Scanning("SELECT") /\ tbl.st = "live" /\ n # 0
      /\ found' = [v \in Values |-> found[v] + more[v]]
      /\ tbl' = [tbl EXCEPT !.iterator = db.file[n].next]
  BY DEF SelectPage, AtPage, Scanning, Running, Reads, NextPage
<1>2. /\ db \in Database /\ FileLinked(db) /\ db.number_of_pages \in Nat
      /\ tbl \in Handle /\ n \in RowPages(db) /\ n \in 1 .. db.number_of_pages
      /\ db.file[n].next < n
  BY <1>1, LiveListed DEF HandleListed, Listed, RowsLinked, RowLinks, RowPages, Database
<1>3. tbl'.iterator = db.file[n].next
  BY <1>1, <1>2 DEF Handle
<1>4. ASSUME NEW v \in Values
      PROVE  IF v \in stmt.where.match
             THEN found'[v] + Cardinality(Places(db, tbl'.iterator, v)) = Stored[v]
             ELSE found'[v] = 0
  <2>1. found'[v] = found[v] + more[v] /\ found[v] \in Nat
    BY <1>1, <1>4 DEF IInv, TypeOK, Counts
  <2>2. CASE v \in stmt.where.match
    <3>1. more[v] = Cardinality(PlacesOn(db, n, v))
      BY <1>4, <2>2 DEF Selected, PlacesOn
    <3>2. found[v] + Cardinality(Places(db, n, v)) = Stored[v]
      BY <1>1, <1>4, <2>2 DEF Tally
    <3>3. /\ Cardinality(PlacesOn(db, n, v)) \in Nat
          /\ Cardinality(Places(db, db.file[n].next, v)) \in Nat
          /\ Cardinality(Places(db, n, v)) = Cardinality(PlacesOn(db, n, v))
                                     + Cardinality(Places(db, db.file[n].next, v))
      BY <1>2, PlacesCount
    <3> DEFINE A == Cardinality(PlacesOn(db, n, v))
               B == Cardinality(Places(db, db.file[n].next, v))
               C == Cardinality(Places(db, n, v))
    <3> HIDE DEF A, B, C, n, more
    <3>4. found'[v] = found[v] + A /\ found[v] + C = Stored[v] /\ C = A + B
          /\ A \in Nat /\ B \in Nat /\ Cardinality(Places(db, tbl'.iterator, v)) = B
      BY <1>3, <2>1, <3>1, <3>2, <3>3 DEF A, B, C
    <3> QED
      BY <2>1, <2>2, <3>4
  <2>3. CASE v \notin stmt.where.match
    <3>1. more[v] = 0 /\ found[v] = 0
      BY <1>1, <1>4, <2>3 DEF Selected, Tally
    <3> QED
      BY <2>1, <2>3, <3>1
  <2> QED
    BY <2>2, <2>3
<1> QED
  BY <1>4

(* A SELECT that has found its table has selected nothing and has all of   *)
(* the list before it.                                                     *)
LEMMA FoundTally ==
    ASSUME IInv, RowInv, NothingDropped, OneVisit, FindVisit, found = NoRows,
           tbl'.st = "live", NEW v \in Values
    PROVE  /\ Stored[v] \in Nat
           /\ Cardinality(Places(db, tbl'.iterator, v)) = Stored[v] /\ found[v] = 0
<1> DEFINE t == readTable(db, cursor)
<1>1. pc = "find" /\ cursor # 0
  BY DEF FindVisit
<1>2. tbl.st = "null" /\ cursor = 1 /\ db.first_table_page = 1
  BY <1>1 DEF OneVisit, IInv, TableAtPageOne, TypeOK, Handle
<1>3. /\ db \in Database /\ FileLinked(db) /\ db.number_of_pages \in Nat
      /\ db.number_of_pages # 0 /\ 1 \in 1 .. db.number_of_pages
  BY <1>2 DEF IInv, TypeOK, LinksInFile, Database, FileLinked, PageNumbers
<1>4. t \in Handle /\ t.iterator = db.file[1].next_free
  BY <1>2, <1>3, ReadTableEffect
<1>5. tbl' = t \/ tbl' = [t EXCEPT !.st = "freed"]
  BY DEF FindVisit
<1> HIDE DEF t
<1>6. tbl'.iterator = db.file[1].next_free
  BY <1>4, <1>5 DEF Handle
<1>7. Stored[v] = Cardinality(Places(db, db.file[1].next_free, v))
  BY <1>2 DEF Stored, StoredIn
<1>8. db.file[1].next_free \in 0 .. db.number_of_pages
  BY <1>3 DEF FileLinked, PageLinks, PageNumbers
<1>9. Stored[v] \in Nat
  BY <1>3, <1>7, <1>8, PlacesFinite
<1> QED
  BY <1>6, <1>7, <1>9 DEF NoRows

(* Every step keeps the tally of a SELECT: what it found, and what is      *)
(* ahead of it.                                                            *)
LEMMA TallyStep ==
    ASSUME IInv, RowInv, ScanInv, [Next]_vars, NothingDropped'
    PROVE  Tally'
<1> SUFFICES ASSUME Scanning("SELECT")', Sound'
             PROVE  \A v \in Values :
                       IF v \in stmt'.where.match
                       THEN found'[v] + Cardinality(Places(db', tbl'.iterator, v))
                              = StoredIn(db')[v]
                       ELSE found'[v] = 0
  BY DEF Tally, Stored, StoredIn, Places, ListFrom, Intact, RowEnd
<1>1. CASE UNCHANGED vars
  BY <1>1 DEF vars, ScanInv, NothingDropped, Tally, Scanning, Running, Sound, Stored
<1>2. CASE FindVisit
  <2>1. db' = db /\ found' = found /\ pc = "find" /\ stmt' = stmt
    BY <1>2 DEF FindVisit, disk
  <2>2. NothingDropped /\ found = NoRows
    BY <2>1 DEF NothingDropped, ScanInv, Scanning, Running
  <2>3. OneVisit /\ tbl'.st = "live"
    BY <2>2 DEF ScanInv, Scanning, Running
  <2>4. ASSUME NEW v \in Values
        PROVE  /\ StoredIn(db')[v] \in Nat /\ found'[v] = 0
               /\ Cardinality(Places(db', tbl'.iterator, v)) = StoredIn(db')[v]
    BY <1>2, <2>1, <2>2, <2>3, FoundTally DEF Stored
  <2> QED
    BY <2>4
<1>3. CASE SelectPage
  <2>1. db' = db /\ stmt' = stmt
    BY <1>3 DEF SelectPage, disk
  <2>2. NothingDropped /\ Sound
    BY <2>1 DEF NothingDropped, Sound
  <2> QED
    BY <1>3, <2>1, <2>2, SelectPageTally DEF ScanInv, Stored
<1> QED
  BY <1>1, <1>2, <1>3, ToScanning

(* Every step keeps ScanInv.                                               *)
LEMMA ScanStepSafe == ASSUME IInv, RowInv, ScanInv, [Next]_vars PROVE ScanInv'
<1>1. /\ pc' = "crashed" => reply' = NoReply
      /\ ~Scanning("SELECT")' => found' = NoRows
  BY FoundStep DEF ScanInv
<1>2. NothingDropped' => OneVisit' /\ Tally'
  BY OneVisitStep, TallyStep DEF ScanInv
<1> QED
  BY <1>1, <1>2 DEF ScanInv

(* No SELECT scans at first.                                               *)
LEMMA ScanInit == ASSUME Init PROVE ScanInv
BY DEF Init, ScanInv, OneVisit, Tally, Scanning, Running, createDatabase, NullHandle

(* The answer of a SELECT, if its steps get to one.                        *)
LEMMA AnswerExact ==
    ASSUME IInv, RowInv, ScanInv, SelectExact, [Next]_vars
    PROVE  SelectExact'
<1> SUFFICES ASSUME pc' = "idle", stmt'.op = "SELECT", reply'.status = "OK",
                    NothingDropped', Sound'
             PROVE  reply'.rows = [v \in Values |-> IF v \in stmt'.where.match
                                                   THEN StoredIn(db')[v] ELSE 0]
  BY DEF SelectExact, Answered, Stored, StoredIn, Places, ListFrom, Intact, RowEnd
<1>1. /\ db \in Database /\ FileLinked(db) /\ db.number_of_pages \in Nat
      /\ DOMAIN db.file = 1 .. db.number_of_pages
      /\ found \in [Values -> Nat]
  BY DEF IInv, TypeOK, LinksInFile, Database, FileLinked, Counts
<1>2. CASE UNCHANGED vars
  BY <1>2 DEF vars, SelectExact, Answered, NothingDropped, Sound, Stored
<1>3. CASE SelectEnd
  <2>1. /\ reply'.rows = found /\ db' = db /\ stmt' = stmt
        /\ Scanning("SELECT") /\ tbl.st = "live"
        /\ tbl.iterator = 0 \/ Reads("null")
    BY <1>3 DEF SelectEnd, ScanEnds, Return, disk, Scanning, Running
  <2>2. NothingDropped /\ Sound
    BY <2>1 DEF NothingDropped, Sound
  <2>3. tbl.iterator = 0
    <3>1. tbl.iterator # 0 => tbl.iterator \in DOMAIN db.file
      BY <1>1, <2>1, LiveFacts
    <3> QED
      BY <2>1, <2>2, <3>1, SoundReads DEF Reads
  <2>4. ASSUME NEW v \in Values
        PROVE  found[v] = IF v \in stmt.where.match THEN Stored[v] ELSE 0
    <3>1. Cardinality(Places(db, 0, v)) = 0
      BY <1>1, NoPlaces
    <3>2. found[v] \in Nat
      BY <1>1
    <3> QED
      BY <2>1, <2>2, <2>3, <3>1, <3>2 DEF ScanInv, Tally
  <2> QED
    BY <1>1, <2>1, <2>4 DEF Stored
<1>4. CASE FreedTableScan
  <2>1. /\ set_result("OK") /\ db' = db /\ tbl.iterator = 0 /\ tbl.st = "freed"
    BY <1>4 DEF FreedTableScan, Crash, Running, disk
  <2>2. OneVisit
    BY <2>1 DEF NothingDropped, ScanInv
  <2>3. reply'.rows = NoRows
    BY <2>1 DEF set_result, Return
  <2>4. ASSUME NEW v \in Values PROVE StoredIn(db)[v] = 0
    BY <1>1, <2>1, <2>2, NoPlaces DEF OneVisit, StoredIn
  <2> QED
    BY <2>1, <2>3, <2>4 DEF NoRows
<1>5. ~Crash
  BY DEF Crash
<1>6. ASSUME NEW status, set_result(status), status # "OK" PROVE FALSE
  BY <1>6 DEF set_result, Return
<1>7. ~\E s \in Requests : Request(s)
  BY DEF Request
<1>8. ~(FindEnd \/ FindVisit \/ DropRowPage \/ SelectPage \/ DeleteEmptyPage)
  BY DEF FindEnd, FindVisit, DropRowPage, SelectPage, DeleteEmptyPage, AtPage,
         Scanning, Running
<1>9. CASE FindCrash \/ UpdateNull \/ FreedTableCrash \/ InsertCrash \/ ScanCrash
  BY <1>5, <1>9 DEF FindCrash, UpdateNull, FreedTableCrash, InsertCrash, ScanCrash
<1>10. CASE TableNotFound \/ JoinSelect
  BY <1>5, <1>6, <1>10 DEF TableNotFound, JoinSelect
<1>11. CASE \/ TableAlreadyExists \/ CreateTable \/ DropTablePage \/ InsertRow
            \/ InsertDone \/ DeleteEnd \/ DeleteFirstRow
  <2>1. stmt.op # "SELECT"
    BY <1>11 DEF TableAlreadyExists, CreateTable, DropTablePage, InsertRow, InsertDone,
       DeleteEnd, ScanEnds, DeleteFirstRow, FirstRow, AtPage, Scanning, Running
  <2>2. stmt' = stmt
    BY <1>11 DEF TableAlreadyExists, CreateTable, DropTablePage, InsertRow, InsertDone,
       DeleteEnd, DeleteFirstRow, set_result, Return
  <2> QED
    BY <2>1, <2>2
<1>12. CASE DropSpin \/ DeleteSpin
  BY <1>2, <1>12 DEF DropSpin, DeleteSpin
<1>13. CASE Restart
  BY <1>13 DEF Restart, ScanInv, NoReply
<1> QED
  BY <1>2, <1>3, <1>4, <1>7, <1>8, <1>9, <1>10, <1>11, <1>12, <1>13 DEF Next, Step

(* For every failing write and rows of any length: until a DROP, a SELECT  *)
(* answered OK returns each stored row that satisfies its condition        *)
(* exactly as often as it is stored, when the rows in the file have their  *)
(* declared size and fit their pages (executeSelect, iterateTable).        *)
THEOREM SelectIsExact == Spec => []SelectExact
<1>1. Init => SelectExact
  BY DEF Init, SelectExact, Answered, NoReply
<1>2. IInv /\ RowInv /\ ScanInv /\ SelectExact /\ [Next]_vars => SelectExact'
  BY AnswerExact
<1>3. Init => ScanInv
  BY ScanInit
<1>4. IInv /\ RowInv /\ ScanInv /\ [Next]_vars => ScanInv'
  BY ScanStepSafe
<1> QED
  BY <1>1, <1>2, <1>3, <1>4, RowInvariance, PTL DEF Spec

----------------------------------------------------------------------------
(***************************************************************************)
(* The refinement of BagTable, as long as no write fails and rows fit      *)
(***************************************************************************)
\* Rows have at most their declared size, and a page that is new or still has
\* row_size bytes for a row, which is when a row is put there, has room for it.
RowsFit ==
    /\ \A v \in Values : RowLen[v] <= RowSize
    /\ \A rows \in Seq(Values), v \in Values :
         rows = <<>> \/ PageBytes(rows) + RowSize <= PageSpace
         => ~Overflows(Append(rows, v))

\* The struct in use is that of the table asked for, and page 1 bears its name
\* unless DROP is at work; a struct that was deallocated bears another name.
TableNamed(d, t, s) ==
    /\ t.st = "live" => t.name = s.name
    /\ d.first_table_page = 1 /\ ~(t.st = "live" /\ s.op = "DROP") =>
         /\ d.file[1].name \in Names
         /\ t.st = "live" => t.name = d.file[1].name
    /\ t.st = "freed" => d.first_table_page = 1 /\ d.file[1].name # s.name

\* No row runs past its page, and page 1 has no rows.
AllFit(d) ==
    /\ \A n \in 1 .. d.number_of_pages : ~Overflows(d.file[n].rows)
    /\ d.number_of_pages # 0 => d.file[1].rows = <<>>

\* The only page of the list rows may still go to is its first; none is empty.
HeadOpen(d) ==
    /\ \A n \in RowPages(d) : d.file[n].rows # <<>> /\ d.file[n].next_free = 0
    /\ d.number_of_pages # 0 =>
         /\ d.file[1].free_place \in {0, d.file[1].next_free}
         /\ d.file[1].free_place # 0 =>
              d.file[d.file[1].free_place].free_space >= RowSize

\* The struct in use says what page 1 says, and DELETE is at its first page.
HandleSaved(d, t, s) ==
    t.st = "live" =>
        /\ t.first_row_page = d.file[1].next_free
        /\ t.free_place = d.file[1].free_place
        /\ s.op = "DELETE" => t.iterator = d.file[1].next_free

RefInv ==
    /\ TableNamed(db, tbl, stmt) /\ AllFit(db)
    /\ NothingDropped => HeadOpen(db) /\ HandleSaved(db, tbl, stmt)
    /\ ~NothingDropped => found = NoRows
    /\ pc = "find" /\ db.first_free_page = 1 => cursor \in Low

\* All that is known of a reachable state in which no write has failed.
BagInv == IInv /\ RowInv /\ AccountInv /\ DropInv /\ ScanInv /\ RefInv

\* RefInv of the next state, read off the variables of the next state.
RefInvNext ==
    /\ TableNamed(db', tbl', stmt') /\ AllFit(db')
    /\ db'.first_free_page = 0 => HeadOpen(db') /\ HandleSaved(db', tbl', stmt')
    /\ db'.first_free_page # 0 => found' = NoRows
    /\ pc' = "find" /\ db'.first_free_page = 1 => cursor' \in Low

(* RefInv, primed, written with primed variables only.                     *)
LEMMA PrimedRef == RefInv' <=> RefInvNext
BY DEF RefInv, RefInvNext, TableNamed, AllFit, HeadOpen, HandleSaved, RowPages,
       NothingDropped, Overflows, PageBytes, RowEnd, Low, NoRows

(* Without faults every write succeeds.                                    *)
LEMMA NoFault ==
    ASSUME MaxFaults = 0, IInv, NEW ok \in BOOLEAN, Writes(ok) PROVE ok = TRUE
<1>1. faults \in 0 .. MaxFaults
  BY DEF IInv, TypeOK
<1> QED
  BY <1>1 DEF Writes

(* In a file all of whose rows fit, every page can be read.                *)
LEMMA FitsIsSound ==
    ASSUME RowsFit, NEW d \in Database, FileLinked(d), AllFit(d),
           NEW n \in 1 .. d.number_of_pages
    PROVE  /\ \A i \in DOMAIN d.file[n].rows : ~Overlong(d.file[n].rows, i)
           /\ ReadOutcomes(d.file[n]) = {"page"}
<1> DEFINE rows == d.file[n].rows
<1>1. rows \in Seq(Values) /\ ~Overflows(rows) /\ RowSize \in Nat
  <2>1. rows \in Seq(Values)
    BY PageFacts
  <2>2. ~Overflows(rows)
    BY DEF AllFit
  <2> QED
    BY <2>1, <2>2, PageSpaceType
<1>2. ASSUME NEW i \in DOMAIN rows PROVE ~Overlong(rows, i)
  <2> HIDE DEF rows
  <2>1. rows[i] \in Values
    BY <1>1, <1>2
  <2>2. RowLen[rows[i]] \in Nat /\ RowLen[rows[i]] <= RowSize
    BY <2>1, RowLenAssumption DEF RowsFit
  <2> QED
    BY <1>1, <2>2 DEF Overlong
<1> QED
  BY <1>1, <1>2 DEF ReadOutcomes

(* The first page findTable visits, page 1, is the only one.               *)
LEMMA VisitsPageOne ==
    ASSUME BagInv, pc = "find", cursor # 0
    PROVE  /\ cursor = 1 /\ db.first_table_page = 1
           /\ db.number_of_pages \in Nat /\ 1 \in 1 .. db.number_of_pages
           /\ db.file[1].name \in Names /\ db.file[1].rows = <<>>
<1>1. /\ db \in Database /\ FileLinked(db) /\ db.number_of_pages \in Nat
      /\ db.first_table_page = 1 /\ db.first_free_page \in {0, 1}
      /\ tbl.st # "live" /\ tbl.st \in {"null", "live", "freed"}
      /\ tbl.st = "null" => cursor = db.first_table_page
  BY DEF BagInv, IInv, TypeOK, LinksInFile, TableAtPageOne, Database, Handle, Running
<1>2. 1 \in 1 .. db.number_of_pages
  BY <1>1 DEF FileLinked, PageNumbers
<1>3. cursor = 1
  <2>1. CASE db.first_free_page = 0
    BY <1>1, <2>1 DEF BagInv, ScanInv, NothingDropped, OneVisit
  <2>2. CASE db.first_free_page = 1
    BY <2>2 DEF BagInv, RefInv, Low
  <2> QED
    BY <1>1, <2>1, <2>2
<1>4. db.file[1].name \in Names /\ db.file[1].rows = <<>>
  BY <1>1, <1>2 DEF BagInv, RefInv, TableNamed, AllFit
<1> QED
  BY <1>1, <1>2, <1>3, <1>4

(* A page that is about to take a row has room for it.                     *)
LEMMA RoomForRow ==
    ASSUME RowsFit, NEW space \in uint16_t, NEW rows \in Seq(Values),
           NEW v \in Values, Fills(space, rows), ~Overflows(rows), space >= RowSize
    PROVE  ~Overflows(Append(rows, v))
<1> DEFINE b == PageBytes(rows)
<1>1. b \in Nat /\ b <= PageSpace /\ RowSize \in Nat
  BY RowEndsInPage, PageSpaceType DEF Overflows
<1>2. space \in Nat /\ space < U16 /\ (space + b) % U16 = PageSpace
  BY WordType DEF Fills
<1> HIDE DEF b
<1>3. PageSpace \in Nat /\ PageSpace < U16 /\ U16 \in Nat
  BY PageSpaceType, WordSize
<1>4. space + b = PageSpace
  <2> DEFINE y == space + b
  <2>1. y \in Nat /\ y < U16 + U16 /\ y % U16 = PageSpace /\ y = space + b
    BY <1>1, <1>2, <1>3
  <2> HIDE DEF y
  <2>2. y = PageSpace \/ y = PageSpace + U16
    <3>1. y % U16 = IF y < U16 THEN y ELSE y - U16
      BY <2>1, WrappedOnce
    <3> DEFINE z == y % U16
    <3>2. z = PageSpace /\ z = IF y < U16 THEN y ELSE y - U16
      BY <2>1, <3>1
    <3> HIDE DEF z
    <3> QED
      BY <1>3, <2>1, <3>2
  <2> QED
    BY <1>1, <1>2, <1>3, <2>1, <2>2
<1>5. b + RowSize <= PageSpace
  BY <1>1, <1>2, <1>4
<1> QED
  BY <1>5 DEF RowsFit, b

\* The indexes at which rows holds u.
Indexes(rows, u) == {i \in DOMAIN rows : rows[i] = u}

(* Where a page does not overflow all of its rows are whole.               *)
LEMMA WholeRows ==
    ASSUME NEW d \in Database, FileLinked(d), NEW m \in 1 .. d.number_of_pages,
           ~Overflows(d.file[m].rows), NEW v
    PROVE  PlacesOn(d, m, v) = Indexes(d.file[m].rows, v)
<1> DEFINE rows == d.file[m].rows
<1>1. rows \in Seq(Values)
  BY PageFacts
<1>2. ASSUME NEW i \in DOMAIN rows PROVE Intact(rows, i)
  <2> HIDE DEF rows
  <2>1. i \in 1 .. Len(rows) /\ Len(rows) \in Nat
    BY <1>1, <1>2, LenProperties
  <2>2. RowEnd(rows, i) <= PageBytes(rows) /\ PageBytes(rows) \in Nat
        /\ RowEnd(rows, i) \in Nat
    BY <1>1, <2>1, RowEndsInPage, RowEndRecursion
  <2>3. PageBytes(rows) <= PageSpace /\ PageSpace \in Nat
    BY <2>2, PageSpaceType DEF rows, Overflows
  <2>4. RowEnd(rows, i) <= PageSpace
    BY <2>2, <2>3
  <2> QED
    BY <2>4 DEF Intact
<1> QED
  BY <1>2 DEF PlacesOn, Indexes

(* A row appended is there once more.                                      *)
LEMMA CountAppended ==
    ASSUME NEW rows \in Seq(Values), NEW v \in Values, NEW u
    PROVE  /\ Cardinality(Indexes(rows, u)) \in Nat
           /\ Cardinality(Indexes(Append(rows, v), u)) =
                Cardinality(Indexes(rows, u)) + IF u = v THEN 1 ELSE 0
<1> DEFINE n   == Len(rows)
           old == Indexes(rows, u)
           new == Indexes(Append(rows, v), u)
<1>1. /\ n \in Nat /\ DOMAIN rows = 1 .. n
      /\ DOMAIN Append(rows, v) = 1 .. n + 1
      /\ \A i \in 1 .. n : Append(rows, v)[i] = rows[i]
      /\ Append(rows, v)[n + 1] = v
  BY LenProperties, AppendProperties
<1>2. IsFiniteSet(old) /\ Cardinality(old) \in Nat
  <2>1. IsFiniteSet(1 .. n) /\ old \in SUBSET (1 .. n)
    BY <1>1, FS_Interval DEF Indexes
  <2> QED
    BY <2>1, FS_Subset, FS_CardinalityType
<1>3. n + 1 \notin old
  BY <1>1 DEF Indexes
<1>4. new = IF u = v THEN old \cup {n + 1} ELSE old
  <2>1. \A i : i \in 1 .. n + 1 <=> i \in 1 .. n \/ i = n + 1
    BY <1>1
  <2> QED
    BY <1>1, <2>1 DEF Indexes
<1>5. Cardinality(old \cup {n + 1}) = Cardinality(old) + 1
  BY <1>2, <1>3, FS_AddElement
<1> HIDE DEF old, new
<1>6. Cardinality(new) = Cardinality(old) + IF u = v THEN 1 ELSE 0
  BY <1>2, <1>4, <1>5
<1> QED
  BY <1>2, <1>6 DEF old, new

(* A list that leads down over pages two files share holds the same rows.  *)
LEMMA SamePlaces ==
    ASSUME NEW d \in Database, FileLinked(d), RowsLinked(d),
           NEW e \in Database, FileLinked(e),
           d.number_of_pages <= e.number_of_pages, NEW k \in Nat,
           \A n \in RowPages(d) : n < k => e.file[n] = d.file[n],
           NEW h, Listed(d, h), h < k, NEW v
    PROVE  Places(e, h, v) = Places(d, h, v)
<1> DEFINE Same(i) == /\ ListFrom(e, i) = ListFrom(d, i)
                      /\ \A n \in ListFrom(d, i) : n \in RowPages(d) /\ n < k
           S == {j \in Nat : \A i \in 0 .. j : Listed(d, i) /\ i < k => Same(i)}
<1>1. d.number_of_pages \in Nat /\ e.number_of_pages \in Nat
  BY DEF Database
<1>2. ASSUME NEW i, Listed(d, i), i # 0
      PROVE  /\ i \in RowPages(d) /\ i \in 1 .. d.number_of_pages
             /\ i \in 1 .. e.number_of_pages /\ i \in Nat
             /\ d.file[i].next \in Nat /\ d.file[i].next < i
             /\ Listed(d, d.file[i].next)
  <2>1. i \in RowPages(d) /\ i \in 1 .. d.number_of_pages
    BY <1>2 DEF Listed, RowPages
  <2>2. d.file[i] \in Page
    BY <2>1, PageFacts
  <2>3. d.file[i].next \in Nat
    BY <2>2 DEF Page
  <2> QED
    BY <1>1, <2>1, <2>3 DEF RowsLinked, RowLinks
<1>3. Same(0)
  <2>1. ListFrom(d, 0) = {} /\ ListFrom(e, 0) = {}
    BY ListFromRecursion
  <2> QED
    BY <2>1
<1>4. ASSUME NEW j \in Nat, j \in S, Listed(d, j + 1), j + 1 < k
      PROVE  Same(j + 1)
  <2> DEFINE i == j + 1
             m == d.file[i].next
  <2>1. /\ i \in RowPages(d) /\ i \in 1 .. d.number_of_pages
        /\ i \in 1 .. e.number_of_pages
        /\ m \in Nat /\ m < i /\ Listed(d, m)
    BY <1>2, <1>4
  <2>2. e.file[i] = d.file[i]
    BY <1>4, <2>1
  <2>3. ListFrom(d, i) = {i} \cup ListFrom(d, m)
    BY <2>1, ListFromRecursion
  <2>4. ListFrom(e, i) = {i} \cup ListFrom(e, m)
    BY <2>1, <2>2, ListFromRecursion
  <2>5. m \in 0 .. j /\ m < k
    BY <1>4, <2>1
  <2>6. Same(m)
    BY <1>4, <2>1, <2>5
  <2> HIDE DEF m
  <2> QED
    BY <1>4, <2>1, <2>3, <2>4, <2>6
<1>5. 0 \in S
  <2>1. \A i \in 0 .. 0 : i = 0
    OBVIOUS
  <2> HIDE DEF Same
  <2> QED
    BY <1>3, <2>1
<1>6. ASSUME NEW j \in Nat, j \in S PROVE j + 1 \in S
  <2>1. \A i \in 0 .. j + 1 : i \in 0 .. j \/ i = j + 1
    OBVIOUS
  <2>2. Listed(d, j + 1) /\ j + 1 < k => Same(j + 1)
    BY <1>4, <1>6
  <2> HIDE DEF Same
  <2> QED
    BY <1>6, <2>1, <2>2
<1>7. Same(h)
  <2>1. h \in Nat
    BY <1>2 DEF Listed
  <2>2. h \in S
    <3> HIDE DEF S
    <3> QED
      BY <1>5, <1>6, <2>1, NatSetInduction
  <2>3. h \in 0 .. h
    BY <2>1
  <2> HIDE DEF Same
  <2> QED
    BY <2>2, <2>3
<1>8. \A n \in ListFrom(d, h) : e.file[n] = d.file[n]
  BY <1>7
<1> QED
  BY <1>7, <1>8 DEF Places

(* An insertion whose writes succeed leaves page 1 saying what the struct  *)
(* says, wherever the row went (saveTable comes last).                     *)
LEMMA TablePageSaved ==
    ASSUME NEW d \in Database, FileLinked(d), d.number_of_pages # 0,
           NEW t \in Handle, HandleLinks(t) \subseteq PageNumbers(d), t.page_number = 1,
           NEW v \in Values, NEW wrote \in BOOLEAN, NEW saved \in BOOLEAN
    PROVE  LET res == insertData(d, t, v, wrote, saved)
           IN  wrote /\ saved => res.db.file[1] = TablePage(res.tbl)
<1> DEFINE got  == getTableFreePage(d, t)
           c    == got.db
           old  == got.pg
           u    == got.tbl
           pg   == AddRow(old, v)
           full == pg.free_space < RowSize
           pg2  == IF full THEN [pg EXCEPT !.next_free = 0] ELSE pg
           tbl2 == IF full THEN [u EXCEPT !.free_place = pg.next_free] ELSE u
           w    == WritePage(c, pg2.page_number, pg2, wrote)
           e    == saveTable(w, tbl2, wrote /\ saved)
<1>1. /\ Grown(d, c) /\ old \in Page /\ u \in Handle /\ u.page_number = 1
  BY TableFreePageEffect DEF SameTable
<1>2. insertData(d, t, v, wrote, saved) = [db |-> e, tbl |-> tbl2]
  BY DEF insertData
<1> HIDE DEF got, c, old, u
<1>3. /\ c \in Database /\ Len(c.file) \in Nat /\ 1 \in 1 .. Len(c.file)
  BY <1>1 DEF Grown, FileLinked, Database
<1>4. pg \in Page /\ pg.next_free \in Nat
  <2>1. pg \in Page
    BY <1>1, AddRowEffect
  <2> QED
    BY <2>1 DEF Page
<1> HIDE DEF pg, full
<1>5. pg2 \in Page /\ pg2.page_number \in Nat
  BY <1>4 DEF Page
<1>6. tbl2 \in Handle /\ tbl2.page_number = 1
  BY <1>1, <1>4 DEF Handle
<1> HIDE DEF pg2, tbl2
<1>7. w \in Database /\ Len(w.file) = Len(c.file)
  BY <1>3, <1>5, WritePageEffect
<1> HIDE DEF w
<1>8. ASSUME wrote, saved PROVE e.file[1] = TablePage(tbl2)
  <2>1. e = WritePage(w, 1, TablePage(tbl2), TRUE)
    BY <1>6, <1>8 DEF saveTable
  <2>2. TablePage(tbl2) \in Page
    BY <1>6, TablePageEffect
  <2> HIDE DEF e
  <2>3. 1 \in Nat
    OBVIOUS
  <2> QED
    BY <1>3, <1>7, <2>1, <2>2, <2>3, WritePageEffect, ZenonT(30)
<1> HIDE DEF e
<1> QED
  BY <1>2, <1>8

(* What a step of INSERT that refines Put knows.                           *)
LEMMA InsertFacts ==
    ASSUME MaxFaults = 0, BagInv, InsertRow
    PROVE  /\ tbl.st = "live" /\ stmt.op = "INSERT" /\ pc = "run"
           /\ todo \in Seq(Values) /\ todo # <<>> /\ Head(todo) \in Values
           /\ db.first_free_page \in {0, 1}
           /\ db' = insertData(db, tbl, Head(todo), TRUE, TRUE).db
           /\ tbl' = insertData(db, tbl, Head(todo), TRUE, TRUE).tbl
           /\ todo' = Tail(todo)
           /\ UNCHANGED <<pc, stmt, cursor, found, junk, reply>>
<1>1. PICK wrote \in BOOLEAN, saved \in BOOLEAN :
        /\ saved => wrote
        /\ Writes(saved)
        /\ db' = insertData(db, tbl, Head(todo), wrote, saved).db
        /\ saved => /\ tbl' = insertData(db, tbl, Head(todo), wrote, saved).tbl
                    /\ todo' = Tail(todo)
                    /\ UNCHANGED <<pc, stmt, cursor, found, junk, reply>>
  BY DEF InsertRow
<1>2. saved = TRUE /\ wrote = TRUE
  BY <1>1, NoFault DEF BagInv
<1>3. tbl.st = "live" /\ stmt.op = "INSERT" /\ todo # <<>> /\ pc = "run"
  BY DEF InsertRow, Running
<1>4. todo \in Seq(Values) /\ db.first_free_page \in {0, 1}
  BY <1>3, LiveFacts DEF BagInv, IInv, TypeOK
<1>5. Head(todo) \in Values
  BY <1>3, <1>4, HeadTailProperties
<1> QED
  BY <1>1, <1>2, <1>3, <1>4, <1>5

(* The page insertData puts the row on has room for it.                    *)
LEMMA RowHasRoom ==
    ASSUME RowsFit, BagInv, tbl.st = "live", stmt.op # "DROP",
           NEW v \in Values
    PROVE  ~Overflows(Append(getTableFreePage(db, tbl).pg.rows, v))
<1> DEFINE pg == getTableFreePage(db, tbl).pg
<1>1. db.first_free_page \in {0, 1}
  BY LiveFacts DEF BagInv
<1>2. ~Overflows(Append(<<>>, v))
  <2>1. <<>> \in Seq(Values)
    OBVIOUS
  <2> QED
    BY <2>1 DEF RowsFit
<1>3. CASE db.first_free_page = 0
  <2>1. NothingDropped
    BY <1>3 DEF NothingDropped
  <2>2. /\ db \in Database /\ FileLinked(db) /\ Numbered(db)
        /\ RowsLinked(db) /\ HandleListed(db, tbl) /\ db.number_of_pages # 0
        /\ tbl \in Handle
    BY <2>1, LiveListed DEF BagInv
  <2>3. pg = Before(db, tbl)
    BY <1>3, <2>2, TargetPage
  <2> HIDE DEF pg
  <2>4. CASE tbl.free_place = 0
    BY <1>2, <2>2, <2>3, <2>4, BeforePage DEF pg
  <2>5. CASE tbl.free_place # 0
    <3> DEFINE k == tbl.free_place
               old == db.file[k]
    <3>1. k \in RowPages(db) /\ pg.rows = old.rows
      BY <2>2, <2>3, <2>5, BeforePage
    <3>2. k = db.file[1].free_place /\ old.free_space >= RowSize
      BY <2>1, <2>2, <2>5 DEF BagInv, RefInv, HeadOpen, HandleSaved
    <3>3. k \in 1 .. db.number_of_pages
      BY <3>1 DEF RowPages
    <3>4. old \in Page /\ old.rows \in Seq(Values) /\ ~Overflows(old.rows)
      BY <2>2, <3>3, PageFacts DEF BagInv, RefInv, AllFit
    <3>5. Fills(old.free_space, old.rows)
      BY <2>1, <3>1 DEF BagInv, AccountInv, Accounted
    <3>6. old.free_space \in uint16_t
      BY <3>4 DEF Page
    <3>7. ~Overflows(Append(old.rows, v))
      <4> HIDE DEF old
      <4> QED
        BY <3>2, <3>4, <3>5, <3>6, RoomForRow
    <3> QED
      BY <3>1, <3>7 DEF pg
  <2> QED
    BY <2>4, <2>5
<1>4. CASE db.first_free_page = 1
  <2>1. /\ db \in Database /\ FileLinked(db) /\ Numbered(db)
        /\ db.number_of_pages \in Nat
        /\ tbl \in Handle /\ db.first_table_page = 1
    BY LiveFacts DEF BagInv
  <2>2. PageLow(db.file[1]) /\ HandleLow(tbl)
    BY <1>4, <2>1 DEF BagInv, DropInv, PageOneFree
  <2>3. db.number_of_pages # 0
    BY <2>1 DEF FileLinked, PageNumbers
  <2>4. db.file[1].rows = <<>>
    BY <2>3 DEF BagInv, RefInv, AllFit
  <2>5. pg.rows = <<>>
    BY <1>4, <2>1, <2>2, <2>4, TableFreePageLow
  <2> QED
    BY <1>2, <2>5
<1> QED
  BY <1>1, <1>3, <1>4

(* What INSERT makes of the file as long as nothing was dropped: the row   *)
(* is appended to the rows of page k, the first page of the list from then *)
(* on, and the pages below are those of before.                            *)
LEMMA InsertedPages ==
    ASSUME MaxFaults = 0, RowsFit, BagInv, InsertRow, NothingDropped
    PROVE  LET k == Target(db, tbl)
               r == Before(db, tbl).rows
           IN  /\ db \in Database /\ FileLinked(db) /\ RowsLinked(db)
               /\ db.number_of_pages # 0 /\ db.number_of_pages \in Nat
               /\ db' \in Database /\ FileLinked(db')
               /\ db'.first_free_page = 0 /\ db'.first_table_page = 1
               /\ k \in 2 .. db'.number_of_pages
               /\ db'.number_of_pages = IF tbl.free_place = 0 THEN k
                                        ELSE db.number_of_pages
               /\ r \in Seq(Values) /\ db'.file[k].rows = Append(r, Head(todo))
               /\ db'.file[k].page_type = "ROW_PAGE" /\ db'.file[k].next_free = 0
               /\ \A m \in 2 .. db'.number_of_pages :
                    m # k => db'.file[m] = db.file[m]
               /\ db'.file[1] = TablePage(tbl')
               /\ tbl'.first_row_page = k
               /\ tbl'.free_place = IF db'.file[k].free_space < RowSize THEN 0 ELSE k
               /\ db'.file[k].free_space \in uint16_t
               /\ tbl.free_place = 0 =>
                    /\ k = db.number_of_pages + 1 /\ r = <<>>
                    /\ db'.file[k].next = db.file[1].next_free
               /\ tbl.free_place # 0 =>
                    /\ k = db.file[1].next_free /\ k \in RowPages(db)
                    /\ r = db.file[k].rows /\ db'.file[k].next = db.file[k].next
<1> DEFINE k   == Target(db, tbl)
           v   == Head(todo)
           pg  == Before(db, tbl)
           new == After(db, tbl, v)
           res == insertData(db, tbl, v, TRUE, TRUE)
<1>1. /\ db \in Database /\ FileLinked(db) /\ Numbered(db)
      /\ RowsLinked(db) /\ HandleListed(db, tbl)
      /\ db.number_of_pages # 0 /\ db.first_free_page = 0
      /\ tbl \in Handle /\ HandleLinks(tbl) \subseteq PageNumbers(db)
      /\ tbl.page_number = 1 /\ v \in Values
      /\ db' = res.db /\ tbl' = res.tbl
  BY InsertFacts, LiveListed DEF BagInv
<1>2. db.first_table_page = 1
  BY InsertFacts, LiveFacts DEF BagInv
<1>3. /\ db' \in Database /\ FileLinked(db')
      /\ db'.first_free_page = 0 /\ db'.first_table_page = 1
  BY <1>1, <1>2, InsertDataEffect DEF Grown
<1>4. /\ pg \in Page /\ pg.page_type = "ROW_PAGE" /\ pg.page_number = k
      /\ tbl.free_place = 0 =>
           /\ pg.rows = <<>> /\ pg.next = tbl.first_row_page /\ pg.next_free = 0
      /\ tbl.free_place # 0 =>
           /\ tbl.free_place \in RowPages(db)
           /\ pg.rows = db.file[tbl.free_place].rows
           /\ pg.next = db.file[tbl.free_place].next
           /\ pg.next_free = db.file[tbl.free_place].next_free
  BY <1>1, BeforePage
<1>5. pg.next_free = 0
  <2>1. tbl.free_place # 0 => db.file[tbl.free_place].next_free = 0
    BY <1>4 DEF BagInv, RefInv, HeadOpen
  <2> QED
    BY <1>4, <2>1
<1>6. /\ new \in Page /\ new.page_type = "ROW_PAGE" /\ new.next = pg.next
      /\ new.rows = Append(pg.rows, v) /\ new.next_free = 0
      /\ AddRow(pg, v).free_space = new.free_space
  BY <1>1, <1>4, <1>5, AfterPage
<1>7. pg.rows \in Seq(Values) /\ new.free_space \in uint16_t
  BY <1>4, <1>6 DEF Page
<1>8. /\ k \in 2 .. db'.number_of_pages
      /\ db'.number_of_pages = IF tbl.free_place = 0 THEN k ELSE db.number_of_pages
      /\ db'.file[k] = new
      /\ \A m \in 2 .. db'.number_of_pages : m # k => db'.file[m] = db.file[m]
      /\ db'.file[1] = TablePage(tbl')
      /\ tbl'.first_row_page = IF tbl.free_place = 0 THEN k ELSE tbl.first_row_page
      /\ tbl'.free_place = IF AddRow(pg, v).free_space < RowSize
                           THEN pg.next_free ELSE k
  BY <1>1, InsertDataPages, ZenonT(30)
<1>9. /\ tbl.first_row_page = db.file[1].next_free
      /\ tbl.free_place = db.file[1].free_place
      /\ tbl.free_place \in {0, db.file[1].next_free}
  BY <1>1, InsertFacts DEF BagInv, RefInv, HandleSaved, HeadOpen
<1>10. k = IF tbl.free_place = 0 THEN db.number_of_pages + 1 ELSE tbl.free_place
  BY DEF Target
<1>11. db.number_of_pages \in Nat
  BY <1>1 DEF Database
<1> HIDE DEF k, v, pg, new, res
<1>12. /\ tbl'.first_row_page = k
       /\ tbl'.free_place = IF db'.file[k].free_space < RowSize THEN 0 ELSE k
  BY <1>5, <1>6, <1>8, <1>9, <1>10
<1>13. /\ tbl.free_place = 0 =>
            /\ k = db.number_of_pages + 1 /\ pg.rows = <<>>
            /\ db'.file[k].next = db.file[1].next_free
       /\ tbl.free_place # 0 =>
            /\ k = db.file[1].next_free /\ k \in RowPages(db)
            /\ pg.rows = db.file[k].rows /\ db'.file[k].next = db.file[k].next
  BY <1>4, <1>6, <1>8, <1>9, <1>10
<1>14. /\ db'.file[k].rows = Append(pg.rows, v)
       /\ db'.file[k].page_type = "ROW_PAGE" /\ db'.file[k].next_free = 0
       /\ db'.file[k].free_space \in uint16_t
  BY <1>6, <1>7, <1>8
<1> QED
  BY <1>1, <1>3, <1>7, <1>8, <1>11, <1>12, <1>13, <1>14 DEF k, v, pg

(* Each row inserted is stored once more than before, and no other row is. *)
LEMMA StoredOnceMore ==
    ASSUME MaxFaults = 0, RowsFit, BagInv, InsertRow, NothingDropped, AllFit(db')
    PROVE  StoredIn(db') = [StoredIn(db) EXCEPT ![Head(todo)] = @ + 1]
<1> DEFINE k == Target(db, tbl)
           v == Head(todo)
           r == Before(db, tbl).rows
           h == db.file[1].next_free
           m == db'.file[k].next
           e == db'
<1>1. /\ db \in Database /\ FileLinked(db) /\ RowsLinked(db)
      /\ db.number_of_pages # 0 /\ db.number_of_pages \in Nat
      /\ e \in Database /\ FileLinked(e)
      /\ e.first_free_page = 0 /\ e.first_table_page = 1
      /\ k \in 2 .. e.number_of_pages
      /\ e.number_of_pages = IF tbl.free_place = 0 THEN k ELSE db.number_of_pages
      /\ r \in Seq(Values) /\ e.file[k].rows = Append(r, v)
      /\ \A n \in 2 .. e.number_of_pages : n # k => e.file[n] = db.file[n]
      /\ e.file[1] = TablePage(tbl') /\ tbl'.first_row_page = k
      /\ tbl.free_place = 0 =>
           k = db.number_of_pages + 1 /\ r = <<>> /\ m = h
      /\ tbl.free_place # 0 =>
           k = h /\ k \in RowPages(db) /\ r = db.file[k].rows /\ m = db.file[k].next
  BY InsertedPages
<1>2. e.number_of_pages \in Nat /\ k \in Nat
  BY <1>1 DEF Database
<1>3. db.first_table_page = 1 /\ v \in Values
  BY InsertFacts, LiveFacts DEF BagInv
<1>4. e.file[1].next_free = k
  BY <1>1 DEF TablePage
<1> HIDE DEF k, v, r, h, m, e
<1>5. m < k /\ Listed(db, m)
  <2>1. CASE tbl.free_place = 0
    <3>1. Listed(db, h) /\ h \in Nat
      BY <1>1 DEF RowsLinked, Listed, RowPages, h
    <3>2. h <= db.number_of_pages
      BY <1>1, <3>1 DEF Listed, RowPages
    <3> QED
      BY <1>1, <2>1, <3>1, <3>2
  <2>2. CASE tbl.free_place # 0
    BY <1>1, <2>2 DEF RowsLinked, RowLinks
  <2> QED
    BY <2>1, <2>2
<1>6. \A n \in RowPages(db) : n < k => e.file[n] = db.file[n]
  <2>1. \A n \in RowPages(db) : n \in 2 .. db.number_of_pages
    BY <1>1 DEF RowsLinked, RowPages
  <2> QED
    BY <1>1, <1>2, <2>1
<1>7. db.number_of_pages <= e.number_of_pages
  BY <1>1, <1>2
<1>8. \A u : Places(e, m, u) = Places(db, m, u)
  BY <1>1, <1>2, <1>5, <1>6, <1>7, SamePlaces
<1>9. ASSUME NEW u
      PROVE  /\ Cardinality(Places(db, h, u)) \in Nat
             /\ Cardinality(Places(e, k, u)) =
                  Cardinality(Places(db, h, u)) + IF u = v THEN 1 ELSE 0
  <2> DEFINE old  == Indexes(r, u)
             now  == Indexes(Append(r, v), u)
             more == IF u = v THEN 1 ELSE 0
             rest == Cardinality(Places(db, m, u))
  <2>1. Cardinality(old) \in Nat /\ Cardinality(now) = Cardinality(old) + more
    BY <1>1, <1>3, CountAppended
  <2>2. k \in 1 .. e.number_of_pages
    BY <1>1, <1>2
  <2>3. PlacesOn(e, k, u) = now
    <3>1. ~Overflows(e.file[k].rows)
      BY <2>2 DEF AllFit, e
    <3> QED
      BY <1>1, <2>2, <3>1, WholeRows
  <2>4. Cardinality(Places(e, k, u)) = Cardinality(PlacesOn(e, k, u)) + rest
        /\ rest \in Nat
    <3>1. e.file[k].next < k
      BY <1>5 DEF m, e
    <3>2. /\ Cardinality(Places(e, m, u)) \in Nat
          /\ Cardinality(Places(e, k, u)) = Cardinality(PlacesOn(e, k, u))
                                            + Cardinality(Places(e, m, u))
      BY <1>1, <2>2, <3>1, PlacesCount DEF m, e
    <3> QED
      BY <1>8, <3>2
  <2>5. Cardinality(Places(db, h, u)) = Cardinality(old) + rest
    <3>1. CASE tbl.free_place = 0
      <4>1. old = {} /\ m = h
        BY <1>1, <3>1 DEF Indexes
      <4>2. Cardinality(old) = 0
        BY <4>1, FS_EmptySet
      <4> HIDE DEF old
      <4> QED
        BY <2>4, <4>1, <4>2
    <3>2. CASE tbl.free_place # 0
      <4>1. /\ k = h /\ k \in RowPages(db) /\ r = db.file[k].rows
            /\ m = db.file[k].next
        BY <1>1, <3>2
      <4>2. k \in 1 .. db.number_of_pages
        BY <4>1 DEF RowPages
      <4>3. ~Overflows(db.file[k].rows)
        BY <4>2 DEF BagInv, RefInv, AllFit
      <4>4. PlacesOn(db, k, u) = old
        BY <1>1, <4>1, <4>2, <4>3, WholeRows
      <4>5. Cardinality(Places(db, k, u)) = Cardinality(PlacesOn(db, k, u)) + rest
        BY <1>1, <1>5, <4>1, <4>2, PlacesCount
      <4> QED
        BY <4>1, <4>4, <4>5
    <3> QED
      BY <3>1, <3>2
  <2> HIDE DEF old, now, rest
  <2>6. more \in Nat
    OBVIOUS
  <2> HIDE DEF more
  <2>7. Cardinality(Places(e, k, u)) = Cardinality(Places(db, h, u)) + more
        /\ Cardinality(Places(db, h, u)) \in Nat
    BY <2>1, <2>3, <2>4, <2>5, <2>6
  <2> QED
    BY <2>7 DEF more
<1>10. StoredIn(db) = [u \in Values |-> Cardinality(Places(db, h, u))]
  BY <1>3 DEF StoredIn, h
<1>11. StoredIn(e) = [u \in Values |-> Cardinality(Places(e, k, u))]
  BY <1>1, <1>4 DEF StoredIn
<1>12. StoredIn(e) = [StoredIn(db) EXCEPT ![v] = @ + 1]
  BY <1>3, <1>9, <1>10, <1>11
<1> QED
  BY <1>12 DEF e, v

(* Every page a statement reads can be read.                               *)
LEMMA PagesRead ==
    ASSUME RowsFit, BagInv
    PROVE  \A outcome : outcome # "page" => ~Reads(outcome) /\ ~PlaceReads(outcome)
<1>1. /\ db \in Database /\ FileLinked(db) /\ AllFit(db) /\ db.number_of_pages \in Nat
      /\ tbl.iterator \in 0 .. db.number_of_pages
      /\ tbl.free_place \in 0 .. db.number_of_pages
  BY DEF BagInv, IInv, TypeOK, LinksInFile, HandleLinks, PageNumbers, RefInv, Database
<1>2. \A n \in 1 .. db.number_of_pages : ReadOutcomes(db.file[n]) = {"page"}
  BY <1>1, FitsIsSound
<1>3. /\ tbl.iterator # 0 => tbl.iterator \in 1 .. db.number_of_pages
      /\ tbl.free_place # 0 => tbl.free_place \in 1 .. db.number_of_pages
  BY <1>1
<1> QED
  BY <1>2, <1>3 DEF Reads, PlaceReads

(* DROP frees pages to the end; the process does not end on the way.       *)
LEMMA DropGoesOn ==
    ASSUME RowsFit, BagInv, [Next]_vars, Running("DROP", "live")
    PROVE  DropRowPage \/ DropTablePage \/ UNCHANGED vars
<1>1. pc = "run" /\ stmt.op = "DROP" /\ tbl.st = "live"
  BY DEF Running
<1>2. ~ScanCrash
  BY PagesRead DEF ScanCrash
<1>3. ~(FindVisit \/ FindEnd \/ FindCrash)
  BY <1>1 DEF FindVisit, FindEnd, FindCrash
<1>4. ~(TableNotFound \/ TableAlreadyExists \/ UpdateNull \/ FreedTableCrash
        \/ FreedTableScan \/ JoinSelect \/ CreateTable)
  BY <1>1 DEF TableNotFound, TableAlreadyExists, UpdateNull, FreedTableCrash,
              FreedTableScan, JoinSelect, CreateTable, Running
<1>5. ~(InsertRow \/ InsertCrash \/ InsertDone)
  BY <1>1 DEF InsertRow, InsertCrash, InsertDone, Running
<1>6. ~(SelectPage \/ SelectEnd \/ DeleteEmptyPage \/ DeleteFirstRow \/ DeleteEnd)
  BY <1>1 DEF SelectPage, SelectEnd, DeleteEmptyPage, DeleteFirstRow, DeleteEnd,
              FirstRow, ScanEnds, AtPage, Scanning, Running
<1>7. ~Restart /\ ~\E s \in Requests : Request(s)
  BY <1>1 DEF Restart, Request
<1>8. DropSpin \/ DeleteSpin => UNCHANGED vars
  BY DEF DropSpin, DeleteSpin
<1> QED
  BY <1>2, <1>3, <1>4, <1>5, <1>6, <1>7, <1>8 DEF Next, Step

\* RefInv of the next state, its part about the pages and the struct.
PagesNext ==
    /\ TableNamed(db', tbl', stmt') /\ AllFit(db')
    /\ db'.first_free_page = 0 => HeadOpen(db') /\ HandleSaved(db', tbl', stmt')

(* A step without a write.                                                 *)
LEMMA IdlesRef == ASSUME RowsFit, BagInv, [Next]_vars, Idles PROVE PagesNext
<1>1. db' = db /\ NullHandle.st = "null"
  BY DEF Idles, NullHandle
<1>2. TableNamed(db, tbl, stmt) /\ AllFit(db)
  BY DEF BagInv, RefInv
<1>3. db.first_free_page = 0 => HeadOpen(db) /\ HandleSaved(db, tbl, stmt)
  BY DEF BagInv, RefInv, NothingDropped
<1>4. CASE tbl' = tbl /\ stmt' = stmt
  BY <1>1, <1>2, <1>3, <1>4 DEF PagesNext
<1>5. CASE tbl' = NullHandle
  <2>1. tbl.st = "live" => pc = "run"
    BY DEF BagInv, IInv, TableAtPageOne
  <2>2. ASSUME tbl.st = "live" /\ stmt.op = "DROP" PROVE FALSE
    <3>1. Running("DROP", "live")
      BY <2>1, <2>2 DEF Running
    <3>2. db'.first_free_page # db.first_free_page \/ db'.first_table_page # db.first_table_page
          \/ tbl' # NullHandle
      <4>1. CASE DropRowPage
        <5>1. tbl' = [tbl EXCEPT !.iterator = readRowPage(db, tbl.iterator).next]
          BY <4>1 DEF DropRowPage
        <5>2. tbl \in Handle
          BY DEF BagInv, IInv, TypeOK
        <5>3. tbl'.st = "live"
          BY <2>2, <5>1, <5>2 DEF Handle
        <5> QED
          BY <1>1, <5>3
      <4>2. CASE DropTablePage
        <5>1. PICK ok \in BOOLEAN : db' = freeTablePage(db, tbl, ok)
          BY <4>2 DEF DropTablePage
        <5>2. /\ db \in Database /\ FileLinked(db)
              /\ tbl \in Handle /\ HandleLinks(tbl) \subseteq PageNumbers(db)
              /\ tbl.prev_table = 0 /\ db.first_table_page = 1
          BY <2>2, LiveFacts DEF BagInv
        <5> QED
          BY <5>1, <5>2, FreeTablePageEffect
      <4>3. CASE UNCHANGED vars
        BY <1>1, <1>5, <2>2, <4>3 DEF vars
      <4> QED
        BY <3>1, <4>1, <4>2, <4>3, DropGoesOn
    <3> QED
      BY <1>1, <1>5, <3>2
  <2> QED
    BY <1>1, <1>2, <1>3, <1>5, <2>2 DEF PagesNext, TableNamed, HandleSaved
<1> QED
  BY <1>4, <1>5 DEF Idles

(* findTable finds the table by the name that page 1 bears.                *)
LEMMA FindVisitRef == ASSUME BagInv, FindVisit PROVE PagesNext
<1> DEFINE t == readTable(db, 1)
<1>1. db' = db /\ stmt' = stmt /\ pc = "find" /\ cursor # 0
  BY DEF FindVisit, disk
<1>2. /\ cursor = 1 /\ db.first_table_page = 1
      /\ 1 \in 1 .. db.number_of_pages /\ db.file[1].name \in Names
  BY <1>1, VisitsPageOne
<1>3. AllFit(db) /\ (db.first_free_page = 0 => HeadOpen(db))
  BY DEF BagInv, RefInv, NothingDropped
<1>4. /\ t \in Handle /\ t.st = "live" /\ t.name = db.file[1].name
      /\ t.iterator = db.file[1].next_free
      /\ t.first_row_page = db.file[1].next_free
      /\ t.free_place = db.file[1].free_place
  <2>1. db \in Database /\ FileLinked(db)
    BY DEF BagInv, IInv, TypeOK, LinksInFile
  <2> QED
    BY <1>2, <2>1, ReadTableEffect DEF readTable
<1>5. IF t.name = stmt.name THEN tbl' = t ELSE tbl' = [t EXCEPT !.st = "freed"]
  BY <1>2 DEF FindVisit
<1> HIDE DEF t
<1>6. CASE t.name = stmt.name
  BY <1>1, <1>2, <1>3, <1>4, <1>5, <1>6 DEF PagesNext, TableNamed, HandleSaved
<1>7. CASE t.name # stmt.name
  <2>1. tbl'.st = "freed"
    BY <1>4, <1>5, <1>7 DEF Handle
  <2> QED
    BY <1>1, <1>2, <1>3, <1>4, <1>7, <2>1 DEF PagesNext, TableNamed, HandleSaved
<1> QED
  BY <1>6, <1>7

(* createTable writes a page 1 without rows that bears the name asked for. *)
LEMMA CreateRef == ASSUME MaxFaults = 0, BagInv, CreateTable PROVE PagesNext
<1>1. /\ db' = createTable(db, stmt.name, TRUE) /\ tbl' = NullHandle
      /\ stmt' = stmt
  <2>1. PICK saved \in BOOLEAN :
          /\ Writes(saved)
          /\ db' = createTable(db, stmt.name, saved)
          /\ set_result("OK") \/ set_result("INTERNAL_ERROR")
    BY DEF CreateTable
  <2>2. saved = TRUE
    BY <2>1, NoFault DEF BagInv
  <2> QED
    BY <2>1, <2>2 DEF set_result, Return, ClearLocals
<1>2. /\ db \in Database /\ FileLinked(db) /\ db.number_of_pages \in Nat
      /\ stmt.name \in Names /\ db.first_table_page = 0 /\ pc = "run" /\ tbl.st = "null"
      /\ stmt.op = "CREATE"
  BY DEF BagInv, IInv, TypeOK, LinksInFile, TableAtPageOne, CreateTable, Running,
         Statement, Database
<1>3. /\ db.first_free_page \in {0, 1}
      /\ db.first_free_page = 0 => db.number_of_pages = 0
  BY <1>2 DEF BagInv, IInv, TableAtPageOne, Running
<1>4. /\ db'.first_table_page = 1 /\ db'.first_free_page = db.first_free_page
      /\ db'.number_of_pages = IF db.first_free_page = 0 THEN 1 ELSE db.number_of_pages
      /\ db'.number_of_pages # 0 /\ db'.file[1] = NewTable(stmt.name)
      /\ \A m \in 2 .. db'.number_of_pages : db'.file[m] = db.file[m]
  BY <1>1, <1>2, <1>3, CreatePageOne
<1>5. /\ db'.file[1].rows = <<>> /\ db'.file[1].name = stmt.name
      /\ db'.file[1].next_free = 0 /\ db'.file[1].free_place = 0
  BY <1>4 DEF NewTable
<1>6. NullHandle.st = "null"
  BY DEF NullHandle
<1>7. TableNamed(db', tbl', stmt')
  BY <1>1, <1>2, <1>5, <1>6 DEF TableNamed
<1>8. AllFit(db')
  <2>1. ~Overflows(<<>>)
    <3>1. PageSpace \in Nat
      BY PageSpaceType
    <3> QED
      BY <3>1, PageBytesOfNone DEF Overflows
  <2>2. \A m \in 2 .. db'.number_of_pages : ~Overflows(db'.file[m].rows)
    <3>1. \A m \in 1 .. db.number_of_pages : ~Overflows(db.file[m].rows)
      BY DEF BagInv, RefInv, AllFit
    <3>2. \A m \in 2 .. db'.number_of_pages : m \in 1 .. db.number_of_pages
      BY <1>2, <1>4
    <3> QED
      BY <1>4, <3>1, <3>2
  <2> QED
    BY <1>2, <1>4, <1>5, <2>1, <2>2 DEF AllFit
<1>9. ASSUME db'.first_free_page = 0 PROVE HeadOpen(db')
  <2>1. RowPages(db') = {}
    BY <1>4, <1>9, CreateTableListed DEF BagInv
  <2> QED
    BY <1>5, <2>1 DEF HeadOpen
<1> QED
  BY <1>1, <1>6, <1>7, <1>8, <1>9 DEF PagesNext, HandleSaved

(* insertData names no table and writes no page that overflows.            *)
LEMMA InsertFits ==
    ASSUME MaxFaults = 0, RowsFit, BagInv, InsertRow
    PROVE  AllFit(db') /\ TableNamed(db', tbl', stmt')
<1> DEFINE v == Head(todo)
           res == insertData(db, tbl, v, TRUE, TRUE)
<1>1. /\ tbl.st = "live" /\ stmt.op = "INSERT" /\ v \in Values
      /\ db.first_free_page \in {0, 1} /\ db' = res.db /\ tbl' = res.tbl
      /\ stmt' = stmt
  BY InsertFacts
<1>2. /\ db \in Database /\ FileLinked(db) /\ Numbered(db)
      /\ db.number_of_pages \in Nat /\ db.number_of_pages # 0
      /\ tbl \in Handle /\ HandleLinks(tbl) \subseteq PageNumbers(db)
      /\ tbl.page_number = 1 /\ db.first_table_page = 1
  <2>1. /\ db \in Database /\ FileLinked(db) /\ Numbered(db)
        /\ db.number_of_pages \in Nat
        /\ tbl \in Handle /\ HandleLinks(tbl) \subseteq PageNumbers(db)
        /\ tbl.page_number = 1 /\ db.first_table_page = 1
    BY <1>1, LiveFacts DEF BagInv
  <2> QED
    BY <2>1 DEF FileLinked, PageNumbers
<1>3. res.db.file[1] = TablePage(res.tbl)
  BY <1>1, <1>2, TablePageSaved
<1>4. SameTable(tbl, res.tbl) /\ Grown(db, res.db)
      /\ res.db.first_table_page = db.first_table_page
  BY <1>1, <1>2, InsertDataEffect
<1> HIDE DEF res
<1>5. TablePage(tbl').name = tbl'.name /\ TablePage(tbl').rows = <<>>
  BY DEF TablePage
<1>6. tbl.name = stmt.name /\ tbl.name \in Names
  <2>1. 1 \in 1 .. db.number_of_pages
    BY <1>2
  <2> QED
    BY <1>1, <1>2 DEF BagInv, RefInv, TableNamed
<1>7. TableNamed(db', tbl', stmt')
  BY <1>1, <1>3, <1>4, <1>5, <1>6 DEF TableNamed, SameTable
<1>8. /\ \A m \in 1 .. db.number_of_pages : ~Overflows(db.file[m].rows)
      /\ ~Overflows(<<>>)
  <2>1. PageSpace \in Nat
    BY PageSpaceType
  <2> QED
    BY <2>1, PageBytesOfNone DEF BagInv, RefInv, AllFit, Overflows
<1>9. db'.number_of_pages \in Nat
  BY <1>1, <1>4 DEF Grown, Database
<1>10. ASSUME NEW m \in 2 .. db'.number_of_pages PROVE ~Overflows(db'.file[m].rows)
  <2>1. CASE db.first_free_page = 0
    <3> DEFINE k == Target(db, tbl)
               r == Before(db, tbl).rows
    <3>1. NothingDropped
      BY <2>1 DEF NothingDropped
    <3>2. /\ k \in 2 .. db'.number_of_pages /\ db'.file[k].rows = Append(r, v)
          /\ m # k => db'.file[m] = db.file[m]
          /\ db'.number_of_pages = IF tbl.free_place = 0 THEN k ELSE db.number_of_pages
          /\ tbl.free_place = 0 => k = db.number_of_pages + 1
      BY <1>10, <3>1, InsertedPages
    <3>3. r = getTableFreePage(db, tbl).pg.rows
      <4>1. RowsLinked(db) /\ HandleListed(db, tbl)
        BY <1>1, <3>1, LiveListed DEF BagInv
      <4> QED
        BY <1>2, <2>1, <4>1, TargetPage
    <3>4. ~Overflows(Append(r, v))
      BY <1>1, <3>3, RowHasRoom
    <3> HIDE DEF k, r
    <3>5. m # k => m \in 1 .. db.number_of_pages
      BY <1>2, <1>9, <3>2
    <3> QED
      BY <1>8, <3>2, <3>4, <3>5
  <2>2. CASE db.first_free_page = 1
    <3>1. PageLow(db.file[1]) /\ HandleLow(tbl)
      BY <1>1, <1>2, <2>2 DEF BagInv, DropInv, PageOneFree
    <3>2. /\ res.db.number_of_pages = db.number_of_pages
          /\ \A n \in 2 .. db.number_of_pages : res.db.file[n] = db.file[n]
      BY <1>1, <1>2, <2>2, <3>1, InsertDataLow DEF res
    <3>3. m \in 1 .. db.number_of_pages
      BY <1>1, <1>2, <3>2
    <3> QED
      BY <1>1, <1>8, <3>2, <3>3
  <2> QED
    BY <1>1, <2>1, <2>2
<1>11. AllFit(db')
  <2>1. db'.file[1].rows = <<>>
    BY <1>1, <1>3, <1>5
  <2>2. \A m \in 1 .. db'.number_of_pages : m = 1 \/ m \in 2 .. db'.number_of_pages
    BY <1>9
  <2> QED
    BY <1>8, <1>10, <2>1, <2>2 DEF AllFit
<1> QED
  BY <1>7, <1>11

(* Rows go on to the first page of the list for as long as it has room.    *)
LEMMA InsertRef ==
    ASSUME MaxFaults = 0, RowsFit, BagInv, InsertRow
    PROVE  PagesNext
<1>1. AllFit(db') /\ TableNamed(db', tbl', stmt')
  BY InsertFits
<1>2. /\ tbl.st = "live" /\ stmt.op = "INSERT" /\ stmt' = stmt
      /\ db'.first_free_page = db.first_free_page
  <2>1. /\ tbl.st = "live" /\ stmt.op = "INSERT" /\ Head(todo) \in Values
        /\ db' = insertData(db, tbl, Head(todo), TRUE, TRUE).db /\ stmt' = stmt
    BY InsertFacts
  <2>2. /\ db \in Database /\ FileLinked(db)
        /\ tbl \in Handle /\ HandleLinks(tbl) \subseteq PageNumbers(db)
    BY <2>1, LiveFacts DEF BagInv
  <2> QED
    BY <2>1, <2>2, InsertDataEffect
<1>3. ASSUME db'.first_free_page = 0
      PROVE  HeadOpen(db') /\ HandleSaved(db', tbl', stmt')
  <2> DEFINE k == Target(db, tbl)
             e == db'
  <2>1. NothingDropped
    BY <1>2, <1>3 DEF NothingDropped
  <2>2. PICK r \in Seq(Values) :
        /\ RowsLinked(db) /\ db.number_of_pages \in Nat
        /\ e \in Database /\ k \in 2 .. e.number_of_pages
        /\ e.number_of_pages = IF tbl.free_place = 0 THEN k ELSE db.number_of_pages
        /\ e.file[k].rows = Append(r, Head(todo)) /\ e.file[k].next_free = 0
        /\ \A m \in 2 .. e.number_of_pages : m # k => e.file[m] = db.file[m]
        /\ e.file[1] = TablePage(tbl') /\ tbl'.first_row_page = k
        /\ tbl'.free_place = IF e.file[k].free_space < RowSize THEN 0 ELSE k
        /\ e.file[k].free_space \in uint16_t
        /\ tbl.free_place = 0 => k = db.number_of_pages + 1
    BY <2>1, InsertedPages
  <2>3. /\ e.file[1].next_free = k /\ e.file[1].free_place = tbl'.free_place
        /\ e.file[1].page_type # "ROW_PAGE"
    BY <2>2 DEF TablePage
  <2> HIDE DEF k, e
  <2>4. ASSUME NEW n \in RowPages(e) PROVE e.file[n].rows # <<>> /\ e.file[n].next_free = 0
    <3>1. n \in 2 .. e.number_of_pages
      BY <2>2, <2>3, <2>4 DEF RowPages, Database
    <3>2. CASE n = k
      <4>1. Append(r, Head(todo)) # <<>>
        BY <2>2, InsertFacts, AppendProperties
      <4> QED
        BY <2>2, <3>2, <4>1
    <3>3. CASE n # k
      <4>1. e.file[n] = db.file[n] /\ n \in 1 .. db.number_of_pages
        BY <2>2, <3>1, <3>3
      <4>2. n \in RowPages(db)
        BY <2>4, <4>1 DEF RowPages
      <4> QED
        BY <2>1, <4>1, <4>2 DEF BagInv, RefInv, HeadOpen
    <3> QED
      BY <3>2, <3>3
  <2>5. /\ e.file[1].free_place \in {0, k}
        /\ e.file[1].free_place # 0 => e.file[k].free_space >= RowSize
    <3>1. e.file[k].free_space \in Nat /\ RowSize \in Nat
      <4>1. \A x \in uint16_t : x \in Nat
        BY WordType
      <4>2. e.file[k].free_space \in uint16_t
        BY <2>2
      <4>3. RowSize \in Nat
        BY PageSpaceType
      <4> QED
        BY <4>1, <4>2, <4>3
    <3> QED
      BY <2>2, <2>3, <3>1
  <2>6. HeadOpen(e)
    BY <2>3, <2>4, <2>5 DEF HeadOpen
  <2>7. HandleSaved(e, tbl', stmt')
    BY <1>2, <2>2, <2>3 DEF HandleSaved
  <2> QED
    BY <2>6, <2>7 DEF e
<1> QED
  BY <1>1, <1>3 DEF PagesNext

(* DROP empties what it frees, and keeps the struct.                       *)
LEMMA DropRef ==
    ASSUME MaxFaults = 0, BagInv, DropRowPage \/ DropTablePage
    PROVE  PagesNext
<1>1. /\ tbl.st = "live" /\ stmt.op = "DROP" /\ stmt' = stmt
      /\ tbl.name = stmt.name
  <2>1. tbl.st = "live" /\ stmt.op = "DROP"
    BY DEF DropRowPage, DropTablePage, Running
  <2> QED
    BY <2>1 DEF DropRowPage, DropTablePage, set_result, Return, BagInv, RefInv, TableNamed
<1>2. /\ db \in Database /\ FileLinked(db) /\ db.number_of_pages \in Nat
      /\ tbl \in Handle /\ HandleLinks(tbl) \subseteq PageNumbers(db)
      /\ Numbered(db) /\ tbl.page_number = 1 /\ tbl.prev_table = 0
      /\ tbl.iterator # 0 => tbl.iterator \in 1 .. db.number_of_pages
  BY <1>1, LiveFacts DEF BagInv
<1>3. ~NothingDropped' /\ db'.first_free_page # 0
  <2>1. ~NothingDropped'
    BY DropFrees DEF BagInv
  <2> QED
    BY <2>1 DEF NothingDropped
<1>4. ASSUME NEW d \in Database, FileLinked(d), d.file = db.file,
             d.number_of_pages = db.number_of_pages,
             NEW pg \in Page, PageLinks(pg) \subseteq PageNumbers(d),
             NEW ok \in BOOLEAN, db' = freeRowPage(d, pg, ok)
      PROVE  AllFit(db')
  <2>1. PICK freed \in Page :
          /\ freed.rows = <<>>
          /\ \A m \in 1 .. d.number_of_pages :
               db'.file[m] = IF ok /\ m = pg.page_number THEN freed ELSE d.file[m]
    BY <1>4, FreedPage
  <2>2. db'.number_of_pages = db.number_of_pages
    BY <1>4, FreeRowPageEffect
  <2>3. ~Overflows(<<>>)
    <3>1. PageSpace \in Nat
      BY PageSpaceType
    <3> QED
      BY <3>1, PageBytesOfNone DEF Overflows
  <2>4. AllFit(db)
    BY DEF BagInv, RefInv
  <2> QED
    BY <1>2, <1>4, <2>1, <2>2, <2>3, <2>4 DEF AllFit
<1>5. CASE DropRowPage
  <2> DEFINE pg == readRowPage(db, tbl.iterator)
  <2>1. PICK ok \in BOOLEAN : db' = freeRowPage(db, pg, ok)
    BY <1>5 DEF DropRowPage
  <2>2. tbl.iterator # 0 /\ tbl' = [tbl EXCEPT !.iterator = pg.next]
    BY <1>5 DEF DropRowPage, Reads
  <2>3. pg \in Page /\ PageLinks(pg) \subseteq PageNumbers(db)
    BY <1>2, <2>2, ReadRowPageEffect
  <2> HIDE DEF pg
  <2>4. AllFit(db')
    BY <1>2, <1>4, <2>1, <2>3
  <2>5. tbl'.st = "live" /\ tbl'.name = tbl.name
    BY <1>1, <1>2, <2>2 DEF Handle
  <2> QED
    BY <1>1, <1>3, <2>4, <2>5 DEF PagesNext, TableNamed
<1>6. CASE DropTablePage
  <2> DEFINE d  == [db EXCEPT !.first_table_page = tbl.prev_table]
             pg == [ZeroPage EXCEPT !.page_number = tbl.page_number]
  <2>1. PICK ok \in BOOLEAN : db' = freeTablePage(db, tbl, ok)
    BY <1>6 DEF DropTablePage
  <2>2. db'.first_table_page = 0
    BY <1>2, <2>1, FreeTablePageEffect
  <2>3. /\ d \in Database /\ FileLinked(d)
        /\ d.number_of_pages = db.number_of_pages /\ d.file = db.file
    BY <1>2 DEF Database, FileLinked, PageNumbers
  <2>4. pg \in Page /\ PageLinks(pg) \subseteq PageNumbers(d)
    <3>1. pg \in Page
      BY <1>2, ZeroPageType DEF Page
    <3>2. PageLinks(pg) \subseteq {0, 1}
      BY <1>2 DEF ZeroPage, PageLinks
    <3>3. {0, 1} \subseteq PageNumbers(d)
      BY <1>2, <2>3 DEF HandleLinks, PageNumbers
    <3> QED
      BY <3>1, <3>2, <3>3
  <2>5. db' = freeRowPage(d, pg, ok)
    BY <2>1 DEF freeTablePage
  <2> HIDE DEF d, pg
  <2>6. AllFit(db')
    BY <1>4, <2>3, <2>4, <2>5
  <2>7. tbl'.st = "null"
    BY <1>6 DEF DropTablePage, set_result, Return, ClearLocals, NullHandle
  <2> QED
    BY <1>3, <2>2, <2>6, <2>7 DEF PagesNext, TableNamed
<1> QED
  BY <1>5, <1>6

(* A scan moves on; DELETE finds no empty page to do so before a DROP.     *)
LEMMA ScanRef == ASSUME BagInv, SelectPage \/ DeleteEmptyPage PROVE PagesNext
<1>1. /\ db' = db /\ stmt' = stmt /\ tbl.st = "live" /\ tbl.iterator # 0
      /\ tbl' = [tbl EXCEPT !.iterator = db.file[tbl.iterator].next]
      /\ stmt.op # "DROP"
  BY DEF SelectPage, DeleteEmptyPage, AtPage, Scanning, Running, Reads, NextPage, disk
<1>2. tbl \in Handle
  BY DEF BagInv, IInv, TypeOK
<1>3. /\ tbl'.st = "live" /\ tbl'.name = tbl.name
      /\ tbl'.first_row_page = tbl.first_row_page /\ tbl'.free_place = tbl.free_place
  BY <1>1, <1>2 DEF Handle
<1>4. TableNamed(db, tbl, stmt) /\ AllFit(db)
  BY DEF BagInv, RefInv
<1>5. ASSUME db.first_free_page = 0 PROVE HeadOpen(db) /\ HandleSaved(db, tbl', stmt)
  <2>1. NothingDropped
    BY <1>5 DEF NothingDropped
  <2>2. HeadOpen(db) /\ HandleSaved(db, tbl, stmt)
    BY <2>1 DEF BagInv, RefInv
  <2>3. tbl.iterator \in RowPages(db)
    BY <1>1, <2>1, LiveListed DEF BagInv, HandleListed, Listed
  <2>4. ~DeleteEmptyPage
    BY <2>2, <2>3 DEF HeadOpen, DeleteEmptyPage
  <2>5. stmt.op = "SELECT"
    BY <2>4 DEF SelectPage, AtPage, Scanning, Running
  <2> QED
    BY <1>1, <1>3, <2>2, <2>5 DEF HandleSaved
<1> QED
  BY <1>1, <1>3, <1>4, <1>5 DEF PagesNext, TableNamed

(* A server started anew finds every page readable.                        *)
LEMMA RestartRef == ASSUME BagInv, Restart PROVE PagesNext
<1>1. /\ db' = createDatabase /\ tbl' = tbl /\ pc = "crashed"
  BY DEF Restart, locals
<1>2. tbl.st = "null"
  BY <1>1 DEF BagInv, IInv, AtRest, NullHandle
<1>3. /\ createDatabase.number_of_pages = 0 /\ createDatabase.first_table_page = 0
      /\ RowPages(createDatabase) = {}
  BY DEF createDatabase, RowPages
<1> HIDE DEF createDatabase
<1> QED
  BY <1>1, <1>2, <1>3 DEF PagesNext, TableNamed, AllFit, HeadOpen, HandleSaved

(* Once something was dropped there is nothing left to select.             *)
LEMMA FoundNothing ==
    ASSUME BagInv, [Next]_vars PROVE db'.first_free_page # 0 => found' = NoRows
<1> SUFFICES ASSUME db'.first_free_page # 0 PROVE found' = NoRows
  OBVIOUS
<1>1. ~Scanning("SELECT")' => found' = NoRows
  BY FoundStep DEF BagInv, ScanInv
<1>2. CASE FindVisit
  <2>1. found' = found /\ pc = "find"
    BY <1>2 DEF FindVisit
  <2> QED
    BY <2>1 DEF BagInv, ScanInv, Scanning, Running
<1>3. CASE UNCHANGED vars
  BY <1>3 DEF vars, BagInv, RefInv, NothingDropped
<1>4. CASE SelectPage
  <2> DEFINE more == Selected(db.file[tbl.iterator].rows, stmt.where.match)
  <2>1. /\ db' = db /\ tbl.st = "live" /\ tbl.iterator # 0 /\ stmt.op # "DROP"
        /\ found' = [v \in Values |-> found[v] + more[v]]
    BY <1>4 DEF SelectPage, AtPage, Scanning, Running, Reads, disk
  <2>2. found = NoRows
    BY <2>1 DEF BagInv, RefInv, NothingDropped
  <2>3. db.first_free_page = 1 /\ db.number_of_pages \in Nat
        /\ tbl.iterator \in 1 .. db.number_of_pages
    BY <2>1, LiveFacts DEF BagInv
  <2>4. tbl.iterator = 1
    BY <2>1, <2>3 DEF BagInv, DropInv, PageOneFree, HandleLow, Low
  <2>5. db.file[tbl.iterator].rows = <<>>
    BY <2>3, <2>4 DEF BagInv, RefInv, AllFit
  <2>6. ASSUME NEW v \in Values PROVE more[v] = 0
    <3>1. \A match : {i \in DOMAIN <<>> : <<>>[i] = v /\ Intact(<<>>, i)} = {}
      OBVIOUS
    <3> QED
      BY <2>5, <3>1, FS_EmptySet DEF Selected
  <2> HIDE DEF more
  <2> QED
    BY <2>1, <2>2, <2>6 DEF NoRows
<1> QED
  BY <1>1, <1>2, <1>3, <1>4, ToScanning DEF BagInv

(* With page 1 on the stack findTable stays there.                         *)
LEMMA CursorStaysLow ==
    ASSUME BagInv, [Next]_vars, pc' = "find", db'.first_free_page = 1
    PROVE  cursor' \in Low
<1>1. ASSUME NEW s \in Requests, Request(s) PROVE cursor' \in Low
  BY <1>1 DEF Request, BagInv, IInv, TableAtPageOne, Low
<1>2. CASE UNCHANGED vars
  BY <1>2 DEF vars, BagInv, RefInv
<1>3. CASE FindVisit
  <2>1. db' = db /\ pc = "find" /\ cursor # 0 /\ db.first_free_page = 1
    BY <1>3 DEF FindVisit, disk
  <2>2. cursor = 1 /\ db.first_table_page = 1
    BY <2>1, VisitsPageOne
  <2>3. cursor' = 0 \/ cursor' = readTable(db, 1).next_table
    BY <1>3, <2>2 DEF FindVisit
  <2>4. readTable(db, 1).next_table = db.file[1].next
    BY DEF readTable
  <2> QED
    BY <2>1, <2>2, <2>3, <2>4 DEF BagInv, DropInv, PageOneFree, PageLow, Low
<1>4. ~Crash /\ (\A r : ~Return(r)) /\ \A status : ~set_result(status)
  BY DEF Crash, Return, set_result
<1>5. ~FindEnd /\ ~Restart
  BY DEF FindEnd, Restart
<1>6. ~(FindCrash \/ UpdateNull \/ FreedTableCrash \/ InsertCrash \/ ScanCrash)
  BY <1>4 DEF FindCrash, UpdateNull, FreedTableCrash, InsertCrash, ScanCrash
<1>7. ~(\/ TableNotFound \/ TableAlreadyExists \/ InsertDone \/ DeleteEnd
        \/ DeleteFirstRow \/ CreateTable \/ DropTablePage \/ SelectEnd
        \/ FreedTableScan \/ JoinSelect)
  BY <1>4 DEF TableNotFound, TableAlreadyExists, InsertDone, DeleteEnd, DeleteFirstRow,
       CreateTable, DropTablePage, SelectEnd, FreedTableScan, JoinSelect
<1>8. ~(DropRowPage \/ SelectPage \/ DeleteEmptyPage)
  BY DEF DropRowPage, SelectPage, DeleteEmptyPage, AtPage, Scanning, Running
<1>9. ~InsertRow
  BY <1>4 DEF InsertRow, Running
<1>10. DropSpin \/ DeleteSpin => UNCHANGED vars
  BY DEF DropSpin, DeleteSpin
<1> QED
  BY <1>1, <1>2, <1>3, <1>5, <1>6, <1>7, <1>8, <1>9, <1>10 DEF Next, Step

(* The strengthened invariant is kept by every step.                       *)
LEMMA RefStepSafe ==
    ASSUME MaxFaults = 0, RowsFit, BagInv, [Next]_vars
    PROVE  RefInv'
<1>1. PagesNext
  BY StepKinds, IdlesRef, FindVisitRef, CreateRef, InsertRef, DropRef, ScanRef,
     RestartRef DEF BagInv
<1>2. RefInvNext
  BY <1>1, FoundNothing, CursorStaysLow DEF RefInvNext, PagesNext
<1> QED
  BY <1>2, PrimedRef

(* RefInv holds of a new file.                                             *)
LEMMA RefInit == ASSUME Init PROVE RefInv
<1>1. RowPages(createDatabase) = {}
  BY DEF RowPages, createDatabase
<1> QED
  BY <1>1 DEF Init, createDatabase, NullHandle, RefInv, TableNamed, AllFit, HeadOpen,
              HandleSaved, NothingDropped

(* All that the refinement rests on is an invariant, if no write fails     *)
(* and rows fit.                                                           *)
LEMMA BagInvariance == ASSUME MaxFaults = 0, RowsFit PROVE Spec => []BagInv
<1>1. Init => BagInv
  <2>1. Init => AccountInv
    BY DEF Init, createDatabase, AccountInv, Accounted, RowPages
  <2> QED
    BY <2>1, InitSafe, RowInit, DropInit, ScanInit, RefInit DEF BagInv
<1>2. BagInv /\ [Next]_vars => BagInv'
  BY StepSafe, RowStepSafe, AccountStepSafe, DropStepSafe, ScanStepSafe, RefStepSafe
     DEF BagInv
<1> QED
  BY <1>1, <1>2, PTL DEF Spec

\* The table and the bag that BagTable sees.
Table == IF tbl.st = "live" THEN tbl.name
         ELSE IF db.first_table_page = 0 THEN NoName
         ELSE db.file[db.first_table_page].name
Rows == IF NothingDropped THEN Stored ELSE NoRows

(* What the bag is after a step, in terms of the file after it.            *)
LEMMA PrimedBag ==
    /\ Stored' = StoredIn(db') /\ NoRows' = NoRows
    /\ NothingDropped' <=> db'.first_free_page = 0
    /\ Rows' = IF db'.first_free_page = 0 THEN StoredIn(db') ELSE NoRows
BY DEF Stored, StoredIn, NothingDropped, Places, ListFrom, Intact, RowEnd, Rows, NoRows

(* The pointer findTable returned tells which table there is.              *)
LEMMA TableFound ==
    ASSUME BagInv, pc = "run"
    PROVE  /\ tbl.st \in {"null", "live", "freed"}
           /\ tbl.st = "null" => Table = NoName
           /\ tbl.st = "live" => Table = stmt.name /\ Table # NoName
           /\ tbl.st = "freed" => Table # stmt.name /\ Table # NoName
<1>1. /\ tbl.st \in {"null", "live", "freed"} /\ stmt.name \in Names
      /\ tbl.st = "null" => db.first_table_page = 0
  BY DEF BagInv, IInv, TypeOK, Handle, TableAtPageOne, Statement
<1>2. /\ tbl.st = "live" => tbl.name = stmt.name
      /\ tbl.st = "freed" => /\ db.first_table_page = 1 /\ db.file[1].name \in Names
                             /\ db.file[1].name # stmt.name
  BY DEF BagInv, RefInv, TableNamed
<1> QED
  BY <1>1, <1>2, NamesAssumption DEF Table

(* A step without a write after which the struct is gone or names the same *)
(* table changes nothing that BagTable sees of the store.                  *)
LEMMA StoreKept ==
    ASSUME BagInv, db' = db, ~(tbl.st = "live" /\ stmt.op = "DROP"),
           tbl'.st = "null" \/ (tbl'.st = tbl.st /\ tbl'.name = tbl.name)
    PROVE  UNCHANGED Bag!store
<1>1. tbl.st = "live" => db.first_table_page = 1 /\ tbl.name = db.file[1].name
  BY DEF BagInv, IInv, TableAtPageOne, RefInv, TableNamed
<1>2. Stored' = Stored /\ (NothingDropped' <=> NothingDropped)
  BY PrimedBag DEF Stored, NothingDropped
<1> QED
  BY <1>1, <1>2 DEF Bag!store, NoRows

(* The return of executeQuery is an answer of BagTable.                    *)
LEMMA Answers ==
    ASSUME NEW status, NEW rows, NEW cut, pc = "run",
           Return([status |-> status, rows |-> rows, junk |-> cut])
    PROVE  Bag!Answer(status, rows)
BY DEF Return, ClearLocals, Bag!Answer

(* An engine that sets a result and touches no page gives an answer        *)
(* without rows.                                                           *)
LEMMA SetsResult ==
    ASSUME BagInv, NEW status, pc = "run", set_result(status), UNCHANGED disk,
           ~(tbl.st = "live" /\ stmt.op = "DROP")
    PROVE  Bag!Answer(status, NoRows) /\ UNCHANGED Bag!store
<1>1. Bag!Answer(status, NoRows)
  BY Answers DEF set_result
<1>2. db' = db /\ tbl'.st = "null"
  BY DEF set_result, Return, ClearLocals, disk, NullHandle
<1> QED
  BY <1>1, <1>2, StoreKept

(* The process ends only where BagTable lets it.                           *)
LEMMA Ends ==
    ASSUME BagInv, pc = "run", Crash, ~(tbl.st = "live" /\ stmt.op = "DROP"),
           \/ Table \notin {NoName, stmt.name}
           \/ stmt.op = "UPDATE" /\ Table = NoName
           \/ stmt.join /\ Table # NoName
    PROVE  Bag!End
<1>1. db' = db /\ tbl'.st = "null"
  BY DEF Crash, ClearLocals, disk, NullHandle
<1>2. UNCHANGED Bag!store
  BY <1>1, StoreKept
<1> QED
  BY <1>2 DEF Crash, ClearLocals, Bag!End, Table, NoReply, Bag!NoAnswer, NoRows,
              Bag!NoRows

(* The bag is empty when the list of rows is, and after a DROP.            *)
LEMMA EmptyList ==
    ASSUME NEW d \in Database, FileLinked(d),
           d.first_table_page = 0 \/ (d.first_table_page = 1 /\ d.file[1].next_free = 0)
    PROVE  StoredIn(d) = NoRows
<1>1. \A v \in Values : Cardinality(Places(d, 0, v)) = 0
  BY NoPlaces
<1> QED
  BY <1>1 DEF StoredIn, NoRows

(* Without a page in its row list the bag is empty.                        *)
LEMMA NoneStored ==
    ASSUME BagInv, db.first_table_page = 1,
           NothingDropped => db.file[1].next_free = 0
    PROVE  Rows = NoRows
<1>1. db \in Database /\ FileLinked(db)
  BY DEF BagInv, IInv, TypeOK, LinksInFile
<1> QED
  BY <1>1, EmptyList DEF Rows, Stored

----------------------------------------------------------------------------
(* A request that arrives is asked of the bag.                             *)
LEMMA RequestAsks ==
    ASSUME BagInv, NEW s \in Requests, Request(s) PROVE Bag!Ask(s)
<1>1. db' = db /\ tbl'.st = "null" /\ tbl.st = "null"
  BY DEF Request, disk, NullHandle, BagInv, IInv, AtRest
<1>2. UNCHANGED Bag!store
  BY <1>1, StoreKept
<1> QED
  BY <1>2 DEF Request, Bag!Ask, NoReply, Bag!NoAnswer, NoRows, Bag!NoRows

(* Looking for a table changes nothing of the bag.                         *)
LEMMA FindStutters ==
    ASSUME BagInv, FindVisit \/ FindEnd PROVE UNCHANGED Bag!vars
<1>1. /\ db' = db /\ pc = "find" /\ pc' \in {"find", "run"}
      /\ UNCHANGED <<stmt, todo, reply>>
  BY DEF FindVisit, FindEnd, disk
<1>2. UNCHANGED Bag!store
  <2>1. CASE FindEnd
    <3>1. tbl' = tbl /\ tbl.st # "live"
      BY <2>1 DEF FindEnd, BagInv, IInv, TableAtPageOne
    <3> QED
      BY <1>1, <3>1, StoreKept
  <2>2. CASE FindVisit
    <3> DEFINE t == readTable(db, 1)
    <3>1. cursor = 1 /\ db.first_table_page = 1 /\ 1 \in 1 .. db.number_of_pages
      BY <2>2, VisitsPageOne DEF FindVisit
    <3>2. t \in Handle /\ t.name = db.file[1].name
      <4>1. db \in Database /\ FileLinked(db)
        BY DEF BagInv, IInv, TypeOK, LinksInFile
      <4> QED
        BY <3>1, <4>1, ReadTableEffect
    <3>3. tbl' = t \/ tbl' = [t EXCEPT !.st = "freed"]
      BY <2>2, <3>1 DEF FindVisit
    <3> HIDE DEF t
    <3>4. tbl'.name = db.file[1].name /\ tbl.st # "live"
      BY <1>1, <3>2, <3>3 DEF Handle, BagInv, IInv, TableAtPageOne
    <3>5. Stored' = Stored /\ (NothingDropped' <=> NothingDropped)
      BY <1>1, PrimedBag DEF Stored, NothingDropped
    <3> QED
      BY <1>1, <3>1, <3>4, <3>5 DEF Bag!store, NoRows
  <2> QED
    BY <2>1, <2>2
<1> QED
  BY <1>1, <1>2 DEF Bag!vars, Bag!store

\* Steps that end a statement or the process without a write.
LEMMA RefusalRefuses ==
    ASSUME BagInv, TableNotFound \/ TableAlreadyExists PROVE Bag!Refused
<1>1. /\ pc = "run" /\ set_result("BAD_REQUEST") /\ UNCHANGED disk
      /\ \/ stmt.op \in {"CREATE", "UPDATE"} /\ tbl.st \in {"live", "freed"}
         \/ stmt.op \in {"DROP", "INSERT", "SELECT", "DELETE"} /\ tbl.st = "null"
  BY DEF TableNotFound, TableAlreadyExists, Running
<1>2. Bag!Answer("BAD_REQUEST", NoRows) /\ UNCHANGED Bag!store
  BY <1>1, SetsResult
<1>3. \/ stmt.op \in {"CREATE", "UPDATE"} /\ Table # NoName
      \/ stmt.op \in {"DROP", "INSERT", "SELECT", "DELETE"} /\ Table = NoName
  BY <1>1, TableFound
<1> QED
  BY <1>2, <1>3 DEF Bag!Refused, Table, NoRows, Bag!NoRows

(* A crash of the engine ends the statement.                               *)
LEMMA CrashEnds ==
    ASSUME BagInv, UpdateNull \/ FreedTableCrash PROVE Bag!End
<1>1. /\ pc = "run" /\ Crash
      /\ tbl.st = "freed" \/ (stmt.op = "UPDATE" /\ tbl.st = "null")
  BY DEF UpdateNull, FreedTableCrash, Running
<1> QED
  BY <1>1, TableFound, Ends

(* A SELECT with a join is refused or ends in a crash.                     *)
LEMMA JoinRefusesOrEnds ==
    ASSUME BagInv, JoinSelect PROVE Bag!Refused \/ Bag!End
<1>1. pc = "run" /\ stmt.join /\ tbl.st \in {"live", "freed"} /\ stmt.op = "SELECT"
  BY DEF JoinSelect, Running
<1>2. Table # NoName
  BY <1>1, TableFound
<1>3. CASE Crash
  BY <1>1, <1>2, <1>3, Ends
<1>4. CASE set_result("garbage") /\ UNCHANGED disk
  <2>1. Bag!Answer("garbage", NoRows) /\ UNCHANGED Bag!store
    BY <1>1, <1>4, SetsResult
  <2> QED
    BY <1>1, <1>2, <2>1 DEF Bag!Refused, Table, NoRows, Bag!NoRows
<1> QED
  BY <1>3, <1>4 DEF JoinSelect

(* A statement that scans a freed struct finds no rows, or crashes.        *)
LEMMA FreedScanMaps ==
    ASSUME BagInv, FreedTableScan PROVE Bag!Selected \/ Bag!Deleted \/ Bag!End
<1>1. /\ pc = "run" /\ stmt.op \in {"SELECT", "DELETE"} /\ tbl.st = "freed"
      /\ Crash \/ (tbl.iterator = 0 /\ set_result("OK") /\ UNCHANGED disk)
  BY DEF FreedTableScan, Running
<1>2. Table # NoName /\ Table # stmt.name
  BY <1>1, TableFound
<1>3. CASE Crash
  BY <1>1, <1>2, <1>3, Ends
<1>4. CASE tbl.iterator = 0 /\ set_result("OK") /\ UNCHANGED disk
  <2>1. Bag!Answer("OK", NoRows) /\ UNCHANGED Bag!store
    BY <1>1, <1>4, SetsResult
  <2>2. Rows = NoRows
    <3>1. db.first_table_page = 1
      BY <1>1 DEF BagInv, RefInv, TableNamed
    <3>2. NothingDropped => db.file[1].next_free = 0
      BY <1>1, <1>4 DEF BagInv, ScanInv, OneVisit
    <3> QED
      BY <3>1, <3>2, NoneStored
  <2>3. CASE stmt.op = "DELETE"
    BY <1>2, <2>1, <2>2, <2>3 DEF Bag!Deleted, Table, Rows, NoRows, Bag!NoRows
  <2>4. CASE stmt.op = "SELECT"
    <3>1. [v \in Values |-> IF v \in stmt.where.match THEN Rows[v] ELSE 0] = NoRows
      BY <2>2 DEF NoRows
    <3>2. Bag!Answer("OK", [v \in Values |-> IF v \in stmt.where.match
                                             THEN Rows[v] ELSE 0])
      BY <2>1, <3>1
    <3> QED
      BY <1>2, <2>1, <2>2, <2>4, <3>2 DEF Bag!Selected, Table, Rows, NoRows, Bag!NoRows
  <2> QED
    BY <1>1, <2>3, <2>4
<1> QED
  BY <1>1, <1>3, <1>4

(* createTable makes a table with no rows in it.                           *)
LEMMA CreateCreates == ASSUME MaxFaults = 0, BagInv, CreateTable PROVE Bag!Create
<1>1. /\ db' = createTable(db, stmt.name, TRUE) /\ set_result("OK")
      /\ pc = "run" /\ tbl.st = "null" /\ stmt.op = "CREATE"
  <2>1. PICK saved \in BOOLEAN :
          /\ Writes(saved)
          /\ db' = createTable(db, stmt.name, saved)
          /\ saved => set_result("OK")
    BY DEF CreateTable
  <2>2. saved = TRUE
    BY <2>1, NoFault DEF BagInv
  <2> QED
    BY <2>1, <2>2 DEF CreateTable, Running
<1>2. /\ db \in Database /\ FileLinked(db) /\ stmt.name \in Names
      /\ db.first_table_page = 0 /\ db.first_free_page \in {0, 1}
      /\ db.first_free_page = 0 => db.number_of_pages = 0
  BY <1>1 DEF BagInv, IInv, TypeOK, LinksInFile, TableAtPageOne, Running, Statement
<1>3. /\ db'.first_table_page = 1 /\ db'.first_free_page = db.first_free_page
      /\ db'.file[1] = NewTable(stmt.name)
  BY <1>1, <1>2, CreatePageOne
<1>4. db' \in Database /\ FileLinked(db')
  BY <1>1, <1>2, CreateTableEffect DEF Grown
<1>5. db'.file[1].next_free = 0 /\ db'.file[1].name = stmt.name
  BY <1>3 DEF NewTable
<1>6. StoredIn(db) = NoRows /\ StoredIn(db') = NoRows
  BY <1>2, <1>3, <1>4, <1>5, EmptyList
<1>7. Bag!Answer("OK", NoRows) /\ tbl'.st = "null"
  BY <1>1, Answers DEF set_result, Return, ClearLocals, NullHandle
<1>8. Table = NoName
  BY <1>1, TableFound
<1>9. Table' = stmt.name
  BY <1>3, <1>5, <1>7 DEF Table
<1>10. Rows' = Rows /\ (NothingDropped' <=> NothingDropped)
  BY <1>3, <1>6, PrimedBag DEF Rows, Stored, NothingDropped
<1> QED
  BY <1>1, <1>7, <1>8, <1>9, <1>10 DEF Bag!Create, Table, Rows, NoRows, Bag!NoRows

(* To free a page of the table that is dropped is a Drop of the bag.       *)
LEMMA DropDrops ==
    ASSUME BagInv, DropRowPage \/ DropTablePage PROVE Bag!Drop
<1>1. /\ pc = "run" /\ stmt.op = "DROP" /\ tbl.st = "live"
      /\ Table = stmt.name
  <2>1. pc = "run" /\ stmt.op = "DROP" /\ tbl.st = "live"
    BY DEF DropRowPage, DropTablePage, Running
  <2> QED
    BY <2>1, TableFound
<1>2. ~NothingDropped'
  BY DropFrees DEF BagInv
<1>3. CASE DropRowPage
  <2>1. /\ tbl' = [tbl EXCEPT !.iterator = readRowPage(db, tbl.iterator).next]
        /\ UNCHANGED <<pc, stmt, todo, reply>>
    BY <1>3 DEF DropRowPage
  <2>2. tbl'.st = "live" /\ tbl'.name = tbl.name
    BY <1>1, <2>1 DEF BagInv, IInv, TypeOK, Handle
  <2> QED
    BY <1>1, <1>2, <2>1, <2>2, PrimedBag DEF Bag!Drop, Table, NoRows, Bag!NoRows
<1>4. CASE DropTablePage
  <2>1. PICK ok \in BOOLEAN : db' = freeTablePage(db, tbl, ok)
    BY <1>4 DEF DropTablePage
  <2>2. db'.first_table_page = 0
    BY <1>1, <2>1, LiveFacts, FreeTablePageEffect DEF BagInv
  <2>3. set_result("OK")
    BY <1>4 DEF DropTablePage
  <2>4. Bag!Answer("OK", NoRows) /\ tbl'.st = "null"
    BY <1>1, <2>3, Answers DEF set_result, Return, ClearLocals, NullHandle
  <2> QED
    BY <1>1, <1>2, <2>2, <2>4, PrimedBag DEF Bag!Drop, Table, NoRows, Bag!NoRows
<1> QED
  BY <1>3, <1>4

(* insertData puts one row into the bag.                                   *)
LEMMA InsertPuts ==
    ASSUME MaxFaults = 0, RowsFit, BagInv, InsertRow PROVE Bag!Put
<1>1. /\ tbl.st = "live" /\ stmt.op = "INSERT" /\ pc = "run"
      /\ todo # <<>> /\ Head(todo) \in Values
      /\ db' = insertData(db, tbl, Head(todo), TRUE, TRUE).db
      /\ tbl' = insertData(db, tbl, Head(todo), TRUE, TRUE).tbl
      /\ todo' = Tail(todo) /\ UNCHANGED <<pc, stmt, reply>>
  BY InsertFacts
<1>2. /\ db \in Database /\ FileLinked(db)
      /\ tbl \in Handle /\ HandleLinks(tbl) \subseteq PageNumbers(db)
  BY <1>1, LiveFacts DEF BagInv
<1>3. SameTable(tbl, tbl') /\ db'.first_free_page = db.first_free_page
  BY <1>1, <1>2, InsertDataEffect
<1>4. Table = stmt.name /\ tbl'.st = "live" /\ tbl'.name = tbl.name
  BY <1>1, <1>3, TableFound DEF SameTable
<1>5. Rows' = IF NothingDropped THEN [Rows EXCEPT ![Head(todo)] = @ + 1] ELSE Rows
  <2>1. NothingDropped => StoredIn(db') = [StoredIn(db) EXCEPT ![Head(todo)] = @ + 1]
    BY InsertFits, StoredOnceMore
  <2> QED
    BY <1>3, <2>1, PrimedBag DEF Rows, Stored, NothingDropped
<1>6. NothingDropped' <=> NothingDropped
  BY <1>3, PrimedBag DEF NothingDropped
<1> QED
  BY <1>1, <1>4, <1>5, <1>6 DEF Bag!Put, Table, Rows

(* INSERT answers when each of its rows was put.                           *)
LEMMA DoneInserted == ASSUME BagInv, InsertDone PROVE Bag!Inserted
<1>1. /\ pc = "run" /\ stmt.op = "INSERT" /\ tbl.st = "live" /\ todo = <<>>
      /\ set_result("OK") /\ UNCHANGED disk
  BY DEF InsertDone, Running
<1>2. Bag!Answer("OK", NoRows) /\ UNCHANGED Bag!store
  BY <1>1, SetsResult
<1>3. Table = stmt.name
  BY <1>1, TableFound
<1> QED
  BY <1>1, <1>2, <1>3 DEF Bag!Inserted, Table, NoRows, Bag!NoRows

(* To pass a page changes nothing of the bag.                              *)
LEMMA ScanStutters ==
    ASSUME BagInv, SelectPage \/ DeleteEmptyPage PROVE UNCHANGED Bag!vars
<1>1. /\ db' = db /\ tbl.st = "live" /\ stmt.op # "DROP"
      /\ tbl' = [tbl EXCEPT !.iterator = db.file[tbl.iterator].next]
      /\ UNCHANGED <<pc, stmt, todo, reply>>
  BY DEF SelectPage, DeleteEmptyPage, AtPage, Scanning, Running, NextPage, disk
<1>2. tbl'.st = tbl.st /\ tbl'.name = tbl.name
  BY <1>1 DEF BagInv, IInv, TypeOK, Handle
<1>3. UNCHANGED Bag!store
  BY <1>1, <1>2, StoreKept
<1> QED
  BY <1>1, <1>3 DEF Bag!vars, Bag!store

(* In a file all of whose rows fit, SELECT reaches the end of its list with*)
(* what is stored.                                                         *)
LEMMA SelectEndSelects ==
    ASSUME RowsFit, BagInv, SelectEnd PROVE Bag!Selected
<1>1. /\ pc = "run" /\ stmt.op = "SELECT" /\ tbl.st = "live" /\ Scanning("SELECT")
      /\ tbl.iterator = 0 \/ Reads("null")
      /\ Return([status |-> "OK", rows |-> found, junk |-> junk]) /\ UNCHANGED disk
  BY DEF SelectEnd, ScanEnds, Scanning, Running
<1>2. tbl.iterator = 0 /\ Table = stmt.name /\ Table # NoName
  BY <1>1, PagesRead, TableFound
<1>3. Bag!Answer("OK", found) /\ db' = db /\ tbl'.st = "null"
  BY <1>1, Answers DEF Return, ClearLocals, NullHandle, disk
<1>4. UNCHANGED Bag!store
  BY <1>1, <1>3, StoreKept
<1>5. /\ db \in Database /\ FileLinked(db) /\ AllFit(db) /\ found \in [Values -> Nat]
      /\ DOMAIN db.file = 1 .. db.number_of_pages
  BY DEF BagInv, IInv, TypeOK, LinksInFile, RefInv, Counts, Database, FileLinked
<1>6. Sound
  BY <1>5, FitsIsSound DEF Sound, AllFit
<1>7. ASSUME NEW v \in Values
      PROVE  found[v] = IF v \in stmt.where.match THEN Rows[v] ELSE 0
  <2>1. CASE NothingDropped
    <3>1. Cardinality(Places(db, 0, v)) = 0
      BY <1>5, NoPlaces
    <3>2. found[v] \in Nat
      BY <1>5
    <3> QED
      BY <1>1, <1>2, <1>6, <2>1, <3>1, <3>2 DEF BagInv, ScanInv, Tally, Rows
  <2>2. CASE ~NothingDropped
    BY <2>2 DEF BagInv, RefInv, Rows, NoRows
  <2> QED
    BY <2>1, <2>2
<1>8. found = [v \in Values |-> IF v \in stmt.where.match THEN Rows[v] ELSE 0]
  BY <1>5, <1>7
<1>9. Bag!Answer("OK", [v \in Values |-> IF v \in stmt.where.match
                                         THEN Rows[v] ELSE 0])
  BY <1>3, <1>8
<1> QED
  BY <1>1, <1>2, <1>4, <1>9 DEF Bag!Selected, Table, Rows

(* DELETE comes to its end only if there are no rows.                      *)
LEMMA DeleteEndDeletes ==
    ASSUME RowsFit, BagInv, DeleteEnd PROVE Bag!Deleted
<1>1. /\ pc = "run" /\ stmt.op = "DELETE" /\ tbl.st = "live"
      /\ tbl.iterator = 0 \/ Reads("null")
      /\ set_result("OK") /\ UNCHANGED disk
  BY DEF DeleteEnd, ScanEnds, Scanning, Running
<1>2. tbl.iterator = 0 /\ Table # NoName
  BY <1>1, PagesRead, TableFound
<1>3. Rows = NoRows
  <2>1. db.first_table_page = 1
    BY <1>1, LiveFacts DEF BagInv
  <2>2. NothingDropped => db.file[1].next_free = 0
    BY <1>1, <1>2 DEF BagInv, RefInv, HandleSaved
  <2> QED
    BY <2>1, <2>2, NoneStored
<1>4. Bag!Answer("OK", NoRows) /\ UNCHANGED Bag!store
  BY <1>1, SetsResult
<1> QED
  BY <1>1, <1>2, <1>3, <1>4 DEF Bag!Deleted, Table, Rows, NoRows, Bag!NoRows

(* DELETE that has found a row is refused, and there is one.               *)
LEMMA DeleteRefuses ==
    ASSUME BagInv, DeleteFirstRow PROVE Bag!Refused
<1> DEFINE n == tbl.iterator
           v == db.file[n].rows[1]
<1>1. /\ pc = "run" /\ stmt.op = "DELETE" /\ tbl.st = "live" /\ n # 0
      /\ db.file[n].rows # <<>> /\ UNCHANGED disk
      /\ \/ stmt.where.given /\ set_result("BAD_REQUEST")
         \/ set_result("INTERNAL_ERROR")
  BY DEF DeleteFirstRow, FirstRow, AtPage, Scanning, Running, Reads
<1>2. /\ db \in Database /\ FileLinked(db) /\ db.number_of_pages \in Nat
      /\ n \in 1 .. db.number_of_pages /\ db.first_table_page = 1
      /\ db.first_free_page \in {0, 1}
  BY <1>1, LiveFacts DEF BagInv
<1>3. NothingDropped
  <2>1. CASE db.first_free_page = 1
    <3>1. n = 1
      BY <1>1, <2>1 DEF BagInv, DropInv, PageOneFree, HandleLow, Low
    <3> QED
      BY <1>1, <1>2, <3>1 DEF BagInv, RefInv, AllFit
  <2> QED
    BY <1>2, <2>1 DEF NothingDropped
<1>4. /\ n \in RowPages(db) /\ db.file[n].next < n
      /\ n = db.file[1].next_free
  BY <1>1, <1>3, LiveListed DEF BagInv, RefInv, HandleSaved, HandleListed, Listed,
     RowsLinked, RowLinks
<1>5. /\ db.file[n].rows \in Seq(Values) /\ ~Overflows(db.file[n].rows)
  BY <1>2, PageFacts DEF BagInv, RefInv, AllFit
<1>6. 1 \in Indexes(db.file[n].rows, v) /\ v \in Values
  <2>1. 1 \in DOMAIN db.file[n].rows
    BY <1>1, <1>5, EmptySeq, LenProperties
  <2> QED
    BY <1>5, <2>1 DEF Indexes
<1>7. PlacesOn(db, n, v) # {} /\ IsFiniteSet(PlacesOn(db, n, v))
  BY <1>2, <1>5, <1>6, WholeRows, PlacesOnFinite
<1>8. Cardinality(PlacesOn(db, n, v)) # 0
  BY <1>7, FS_EmptySet
<1>9. Cardinality(Places(db, n, v)) # 0
  <2> DEFINE p == Cardinality(PlacesOn(db, n, v))
             q == Cardinality(Places(db, db.file[n].next, v))
  <2>1. p \in Nat /\ q \in Nat /\ Cardinality(Places(db, n, v)) = p + q
    BY <1>2, <1>4, PlacesCount
  <2>2. p # 0
    BY <1>8
  <2> HIDE DEF p, q
  <2> QED
    BY <2>1, <2>2
<1>10. Rows # NoRows
  <2>1. Rows[v] = Cardinality(Places(db, n, v))
    BY <1>2, <1>3, <1>4, <1>6 DEF Rows, Stored, StoredIn
  <2>2. NoRows[v] = 0
    BY <1>6 DEF NoRows
  <2> QED
    BY <1>9, <2>1, <2>2
<1>11. \E status : \/ /\ status = "BAD_REQUEST" /\ stmt.where.given
                      /\ Bag!Answer(status, NoRows) /\ UNCHANGED Bag!store
                   \/ /\ status = "INTERNAL_ERROR"
                      /\ Bag!Answer(status, NoRows) /\ UNCHANGED Bag!store
  BY <1>1, SetsResult
<1> QED
  BY <1>1, <1>10, <1>11 DEF Bag!Refused, Rows, NoRows, Bag!NoRows

(* A server started anew has an empty bag.                                 *)
LEMMA RestartRestarts == ASSUME BagInv, Restart PROVE Bag!Restart
<1>1. /\ pc = "crashed" /\ pc' = "idle" /\ db' = createDatabase /\ tbl' = tbl
      /\ UNCHANGED <<stmt, todo, reply>>
  BY DEF Restart, locals
<1>2. tbl.st = "null"
  BY <1>1 DEF BagInv, IInv, AtRest, NullHandle
<1>3. db'.first_table_page = 0 /\ db'.first_free_page = 0 /\ StoredIn(db') = NoRows
  BY <1>1 DEF createDatabase, StoredIn
<1> QED
  BY <1>1, <1>2, <1>3, PrimedBag DEF Bag!Restart, NoRows, Bag!NoRows

(* As long as no write fails and rows fit, no other step is taken.         *)
LEMMA NoOtherCrash ==
    ASSUME MaxFaults = 0, RowsFit, BagInv
    PROVE  ~FindCrash /\ ~InsertCrash /\ ~ScanCrash
<1>1. ~FindCrash
  <2>1. SUFFICES ASSUME FindCrash PROVE FALSE
    OBVIOUS
  <2>2. /\ pc = "find" /\ cursor # 0
        /\ db.file[cursor].rows # <<>> \/ db.file[cursor] = ZeroPage
    BY <2>1 DEF FindCrash
  <2>3. db.file[cursor].name \in Names /\ db.file[cursor].rows = <<>>
    BY <2>2, VisitsPageOne
  <2> QED
    BY <2>2, <2>3, NamesAssumption DEF ZeroPage
<1>2. ~InsertCrash
  <2>1. SUFFICES ASSUME InsertCrash PROVE FALSE
    OBVIOUS
  <2>2. /\ tbl.st = "live" /\ stmt.op = "INSERT" /\ todo # <<>>
    BY <2>1 DEF InsertCrash, Running
  <2>3. ~(faults < MaxFaults) /\ Head(todo) \in Values
    <3>1. faults \in 0 .. MaxFaults /\ todo \in Seq(Values)
      BY DEF BagInv, IInv, TypeOK
    <3> QED
      BY <2>2, <3>1, HeadTailProperties
  <2>4. ~Overflows(Append(getTableFreePage(db, tbl).pg.rows, Head(todo)))
    BY <2>2, <2>3, RowHasRoom
  <2> QED
    BY <2>1, <2>3, <2>4, PagesRead DEF InsertCrash
<1>3. ~ScanCrash
  BY PagesRead DEF ScanCrash
<1> QED
  BY <1>1, <1>2, <1>3

(* A new file is an empty bag.                                             *)
LEMMA BagInit == Init => Bag!Init
BY DEF Init, Bag!Init, createDatabase, NullHandle, NothingDropped, Stored, StoredIn,
       NoRows, Bag!NoRows, NoReply, Bag!NoAnswer, Requests, Statement

(* Every step is one of BagTable, or one that BagTable does not see.       *)
LEMMA BagStep ==
    ASSUME MaxFaults = 0, RowsFit, BagInv, [Next]_vars
    PROVE  [Bag!Next]_(Bag!vars)
<1>1. CASE UNCHANGED vars \/ DropSpin \/ DeleteSpin
  <2>1. db' = db /\ tbl' = tbl /\ UNCHANGED <<pc, stmt, todo, reply>>
    BY <1>1 DEF DropSpin, DeleteSpin, vars
  <2>2. Stored' = Stored /\ (NothingDropped' <=> NothingDropped)
    BY <2>1, PrimedBag DEF Stored, NothingDropped
  <2> QED
    BY <2>1, <2>2 DEF Bag!vars, NoRows
<1>2. CASE \E s \in Requests : Request(s)
  BY <1>2, RequestAsks DEF Bag!Next
<1>3. CASE FindVisit \/ FindEnd \/ SelectPage \/ DeleteEmptyPage
  BY <1>3, FindStutters, ScanStutters
<1>4. CASE \/ TableNotFound \/ TableAlreadyExists \/ UpdateNull \/ FreedTableCrash
           \/ FreedTableScan \/ JoinSelect \/ DeleteFirstRow
  BY <1>4, RefusalRefuses, CrashEnds, FreedScanMaps, JoinRefusesOrEnds, DeleteRefuses
     DEF Bag!Next
<1>5. CASE \/ CreateTable \/ DropRowPage \/ DropTablePage \/ InsertRow \/ InsertDone
           \/ SelectEnd \/ DeleteEnd \/ Restart
  BY <1>5, CreateCreates, DropDrops, InsertPuts, DoneInserted, SelectEndSelects,
     DeleteEndDeletes, RestartRestarts DEF Bag!Next
<1>6. CASE FindCrash \/ InsertCrash \/ ScanCrash
  BY <1>6, NoOtherCrash
<1> QED
  BY <1>1, <1>2, <1>3, <1>4, <1>5, <1>6 DEF Next, Step

(* As long as no write fails and rows have their declared size and fit     *)
(* their page, executeQuery on pages is a bag of rows: it does what module *)
(* BagTable says, in every sequence of statements, of any number of rows,  *)
(* with DROPs, restarts and the loops that do not end.                     *)
THEOREM PagesAreABag == ASSUME MaxFaults = 0, RowsFit PROVE Spec => ImplementsBag
<1>1. Init => Bag!Init
  BY BagInit
<1>2. BagInv /\ [Next]_vars => [Bag!Next]_(Bag!vars)
  BY BagStep
<1> QED
  BY <1>1, <1>2, BagInvariance, PTL DEF Spec, ImplementsBag, Bag!Spec
=============================================================================
