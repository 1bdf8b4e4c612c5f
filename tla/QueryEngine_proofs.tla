------------------------- MODULE QueryEngine_proofs -------------------------
(***************************************************************************)
(* Safety of QueryEngine for every set of names, rows, lengths, conditions  *)
(* and bounds, in three parts: types, page links inside the file, and the   *)
(* one table at page 1; the row list until a DROP; and what is written      *)
(* after one.                                                               *)
(*                                                                          *)
(* IInv is the inductive invariant of the first part, and the others rest   *)
(* on it. A step that answers or ends the process goes through lemma        *)
(* AtRestSafe, and every step that writes goes through the lemma of         *)
(* Pages_proofs about the operator it applies to db.                        *)
(***************************************************************************)
EXTENDS QueryEngineProperties, Pages_proofs, FiniteSetTheorems

\* Between statements no table struct and no page is in use.
AtRest == pc \in {"idle", "crashed"} => tbl = NullHandle /\ cursor = 0

IInv == TypeOK /\ LinksInFile /\ AtRest /\ TableAtPageOne

----------------------------------------------------------------------------
(* The predicates on a database say the same of db' primed and applied.    *)
LEMMA Primed ==
    /\ FileLinked(db)' <=> FileLinked(db')
    /\ PagesAtHome(db)' <=> PagesAtHome(db')
    /\ PageNumbers(db)' = PageNumbers(db')
    /\ HandleLinks(tbl)' = HandleLinks(tbl')
BY DEF FileLinked, PagesAtHome, PageNumbers, HandleLinks, PageLinks, ZeroPage

(* The cleared locals, and an empty answer, have their types.              *)
LEMMA ClearedTypes ==
    /\ NullHandle \in Handle /\ NullHandle.st = "null"
    /\ HandleLinks(NullHandle) = {0}
    /\ NoRows \in Counts
    /\ NoReply \in Reply
    /\ \A status \in {"OK", "BAD_REQUEST", "INTERNAL_ERROR", "garbage"} :
          [status |-> status, rows |-> NoRows, junk |-> FALSE] \in Reply
<1>1. NoRows \in Counts
  BY DEF NoRows, Counts
<1>2. /\ NullHandle \in Handle /\ NullHandle.st = "null"
      /\ HandleLinks(NullHandle) = {0}
  BY DEF NullHandle, Handle, HandleLinks
<1>3. NoReply \in Reply
  BY <1>1 DEF NoReply, Reply
<1>4. ASSUME NEW status \in {"OK", "BAD_REQUEST", "INTERNAL_ERROR", "garbage"}
      PROVE  [status |-> status, rows |-> NoRows, junk |-> FALSE] \in Reply
  BY <1>1 DEF Reply
<1> QED
  BY <1>1, <1>2, <1>3, <1>4

(* With pages at home, and page 1 numbered or not in use as a table page,  *)
(* the hypotheses of the lemmas of Pages_proofs hold (Numbered, OneName).  *)
LEMMA HomeIsNumbered ==
    ASSUME NEW d \in Database, FileLinked(d), PagesAtHome(d),
           d.first_table_page = 0 \/ d.file[1].page_number = 1
    PROVE  Numbered(d) /\ OneName(d)
<1>1. DOMAIN d.file = 1 .. d.number_of_pages
  BY DEF Database, FileLinked
<1>2. ZeroPage.page_number = 0
  BY DEF ZeroPage
<1> QED
  BY <1>1, <1>2 DEF PagesAtHome, Numbered, OneName

(* And the converse, for what an operation returns.                        *)
LEMMA NumberedIsHome ==
    ASSUME NEW d \in Database, FileLinked(d), Numbered(d), OneName(d)
    PROVE  PagesAtHome(d)
<1>1. DOMAIN d.file = 1 .. d.number_of_pages
  BY DEF Database, FileLinked
<1> QED
  BY <1>1 DEF PagesAtHome, Numbered, OneName

(* A database in which the next statement finds the table at page 1, or an *)
(* empty stack and file, or page 1 on the stack.                           *)
Settled(d) ==
    /\ d \in Database /\ FileLinked(d) /\ PagesAtHome(d)
    /\ d.first_table_page \in {0, 1}
    /\ d.first_free_page = 0 /\ d.first_table_page = 0 => d.number_of_pages = 0

(* A step that answers, ends the process or restarts it, and leaves the    *)
(* file settled, keeps the invariant (set_result, Return, Crash, Restart). *)
LEMMA AtRestSafe ==
    ASSUME tbl' = NullHandle, cursor' = 0, todo' \in Seq(Values),
           found' \in Counts, junk' \in BOOLEAN,
           stmt' \in Statement, reply' \in Reply, faults' \in 0 .. MaxFaults,
           Settled(db'),
           \/ pc' = "idle" /\ db'.first_free_page \in {0, 1}
           \/ pc' = "crashed"
    PROVE  IInv'
<1>1. TypeOK'
  BY ClearedTypes DEF TypeOK, Settled
<1>2. LinksInFile'
  <2>1. db'.number_of_pages \in Nat
    BY DEF Settled, Database
  <2>2. 0 \in PageNumbers(db')
    BY <2>1 DEF PageNumbers
  <2> QED
    BY <2>2, Primed, ClearedTypes DEF LinksInFile, Settled
<1>3. AtRest'
  BY DEF AtRest, NullHandle
<1>4. TableAtPageOne'
  BY Primed, ClearedTypes DEF TableAtPageOne, Settled
<1> QED
  BY <1>1, <1>2, <1>3, <1>4 DEF IInv

(* The same for an answer without a write.                                 *)
LEMMA AnswerSafe ==
    ASSUME IInv, UNCHANGED <<disk, stmt>>, ClearLocals, reply' \in Reply,
           (pc' = "idle" /\ ~Running("DROP", "live")) \/ pc' = "crashed",
           pc # "crashed"
    PROVE  IInv'
<1>1. db' = db /\ faults' = faults /\ stmt' = stmt
  BY DEF disk
<1>2. Settled(db')
  BY <1>1 DEF IInv, TypeOK, LinksInFile, TableAtPageOne, Settled
<1>3. \/ pc' = "idle" /\ db'.first_free_page \in {0, 1}
      \/ pc' = "crashed"
  BY <1>1 DEF IInv, TableAtPageOne
<1>4. /\ tbl' = NullHandle /\ cursor' = 0 /\ found' = NoRows
      /\ todo' = <<>> /\ junk' = FALSE
  BY DEF ClearLocals
<1>5. todo' \in Seq(Values) /\ junk' \in BOOLEAN /\ found' \in Counts
  <2>1. todo' \in Seq(Values)
    BY <1>4
  <2>2. junk' \in BOOLEAN
    BY <1>4
  <2> QED
    BY <1>4, <2>1, <2>2, ClearedTypes
<1>6. stmt' \in Statement /\ faults' \in 0 .. MaxFaults
  BY <1>1 DEF IInv, TypeOK
<1> QED
  BY <1>2, <1>3, <1>4, <1>5, <1>6, AtRestSafe

(* Crash keeps the invariant.                                              *)
LEMMA CrashSafe == ASSUME IInv, Crash, pc # "crashed" PROVE IInv'
BY AnswerSafe, ClearedTypes DEF Crash
----------------------------------------------------------------------------
(* What a statement that holds a live table struct can rely on.            *)
LEMMA LiveFacts ==
    ASSUME IInv, tbl.st = "live"
    PROVE  /\ db \in Database /\ FileLinked(db) /\ db.number_of_pages \in Nat
           /\ Numbered(db) /\ OneName(db)
           /\ tbl \in Handle /\ HandleLinks(tbl) \subseteq PageNumbers(db)
           /\ tbl.page_number = 1 /\ tbl.prev_table = 0
           /\ pc = "run" /\ db.first_table_page = 1
           /\ tbl.iterator # 0 => tbl.iterator \in 1 .. db.number_of_pages
           /\ stmt.op # "DROP" => db.first_free_page \in {0, 1}
<1>1. /\ db \in Database /\ FileLinked(db) /\ db.number_of_pages \in Nat
      /\ tbl \in Handle /\ HandleLinks(tbl) \subseteq PageNumbers(db)
      /\ PagesAtHome(db)
      /\ tbl.page_number = 1 /\ tbl.prev_table = 0
      /\ pc = "run" /\ db.first_table_page = 1 /\ db.file[1].page_number = 1
      /\ stmt.op # "DROP" => db.first_free_page \in {0, 1}
  BY DEF IInv, TypeOK, LinksInFile, TableAtPageOne, Database, Running
<1>2. Numbered(db) /\ OneName(db)
  BY <1>1, HomeIsNumbered
<1>3. tbl.iterator \in 0 .. db.number_of_pages
  BY <1>1 DEF HandleLinks, PageNumbers
<1> QED
  BY <1>1, <1>2, <1>3

(* A step of a statement that keeps the table struct live, at page 1, and  *)
(* the file linked and numbered, keeps the invariant (InsertRow,           *)
(* DropRowPage and the page by page scans).                                *)
LEMMA LiveSafe ==
    ASSUME IInv, tbl.st = "live",
           UNCHANGED <<pc, stmt, cursor, reply>>,
           todo' \in Seq(Values), found' \in Counts, junk' \in BOOLEAN,
           faults' \in 0 .. MaxFaults,
           tbl' \in Handle, SameTable(tbl, tbl'),
           HandleLinks(tbl') \subseteq PageNumbers(db'),
           Grown(db, db'), Numbered(db'), OneName(db'),
           db'.first_table_page = 1,
           stmt.op # "DROP" => db'.first_free_page = db.first_free_page
    PROVE  IInv'
<1>1. /\ db \in Database /\ db.number_of_pages \in Nat
      /\ tbl.page_number = 1 /\ tbl.prev_table = 0 /\ pc = "run"
      /\ db.first_table_page = 1
      /\ stmt.op # "DROP" => db.first_free_page \in {0, 1}
  BY LiveFacts
<1>2. /\ db' \in Database /\ FileLinked(db') /\ db'.number_of_pages \in Nat
      /\ PageNumbers(db) \subseteq PageNumbers(db')
  BY <1>1 DEF Grown, Database, PageNumbers
<1>3. TypeOK'
  BY <1>2 DEF IInv, TypeOK
<1>4. LinksInFile'
  BY <1>2, Primed DEF IInv, LinksInFile
<1>5. AtRest'
  BY <1>1 DEF AtRest
<1>6. TableAtPageOne'
  <2>1. PagesAtHome(db')
    BY <1>2, NumberedIsHome
  <2>2. /\ tbl'.st = "live" /\ tbl'.page_number = 1 /\ tbl'.prev_table = 0
    BY <1>1 DEF SameTable
  <2>3. db'.file[1].page_number = 1
    <3>1. 1 \in PageNumbers(db')
      BY <1>2 DEF FileLinked
    <3> QED
      BY <3>1, <1>2 DEF PageNumbers, Numbered
  <2>4. db'.first_free_page \in {0, 1} \/ Running("DROP", "live")'
    BY <1>1, <2>2 DEF Running
  <2> QED
    BY <1>1, <2>1, <2>2, <2>3, <2>4, Primed DEF TableAtPageOne
<1> QED
  BY <1>3, <1>4, <1>5, <1>6 DEF IInv

(* The same when nothing is written: the iterator moves to the next page,  *)
(* or stays (SelectPage, DeleteEmptyPage).                                 *)
LEMMA ScanSafe ==
    ASSUME IInv, tbl.st = "live", tbl.iterator # 0, NextPage,
           UNCHANGED <<disk, pc, stmt, cursor, todo, reply>>,
           found' \in Counts, junk' \in BOOLEAN
    PROVE  IInv'
<1> DEFINE n == tbl.iterator
<1>1. /\ db \in Database /\ FileLinked(db) /\ db.number_of_pages \in Nat
      /\ Numbered(db) /\ OneName(db)
      /\ tbl \in Handle /\ HandleLinks(tbl) \subseteq PageNumbers(db)
      /\ n \in 1 .. db.number_of_pages
      /\ db.first_table_page = 1
  BY LiveFacts
<1>2. db' = db /\ faults' = faults
  BY DEF disk
<1>3. /\ db.file[n].next \in PageNumbers(db)
      /\ db.file[n].next \in Nat
  <2>1. n \in DOMAIN db.file
    BY <1>1 DEF Database, FileLinked
  <2> QED
    BY <1>1, <2>1 DEF FileLinked, PageLinks, PageNumbers
<1>4. /\ tbl' \in Handle /\ SameTable(tbl, tbl')
      /\ HandleLinks(tbl') \subseteq PageNumbers(db)
  BY <1>1, <1>3 DEF NextPage, Handle, SameTable, HandleLinks
<1>5. Grown(db, db')
  BY <1>1, <1>2 DEF Grown
<1>6. todo' \in Seq(Values) /\ faults' \in 0 .. MaxFaults
  BY <1>2 DEF IInv, TypeOK
<1> QED
  BY <1>1, <1>2, <1>4, <1>5, <1>6, LiveSafe

----------------------------------------------------------------------------
(* findTable: the structs it makes are linked, and the one it returns live *)
(* is the table at page 1.                                                 *)
LEMMA FindVisitSafe == ASSUME IInv, FindVisit PROVE IInv'
<1> DEFINE t == readTable(db, cursor)
<1>1. /\ pc = "find" /\ cursor # 0
      /\ db' = db /\ faults' = faults /\ stmt' = stmt /\ todo' = todo
      /\ found' = found /\ junk' = junk /\ reply' = reply
  BY DEF FindVisit, disk
<1>2. /\ db \in Database /\ FileLinked(db) /\ db.number_of_pages \in Nat
      /\ PagesAtHome(db) /\ db.first_table_page = 1
      /\ db.first_free_page \in {0, 1}
      /\ stmt.name \in Names
  BY <1>1 DEF IInv, TypeOK, LinksInFile, TableAtPageOne, Running, Database, Statement
<1>3. cursor \in 1 .. db.number_of_pages /\ cursor \in DOMAIN db.file
  <2>1. cursor \in 0 .. db.number_of_pages
    BY DEF IInv, LinksInFile, PageNumbers
  <2> QED
    BY <1>1, <1>2, <2>1 DEF FileLinked, Database
<1>4. /\ t \in Handle /\ t.st = "live"
      /\ HandleLinks(t) \subseteq PageNumbers(db)
      /\ t.name = db.file[cursor].name
      /\ t.page_number = db.file[cursor].page_number
      /\ t.prev_table = db.file[cursor].prev
      /\ t.next_table = db.file[cursor].next
  BY <1>2, <1>3, ReadTableEffect
<1>5. CASE t.name = stmt.name
  <2>1. tbl' = t /\ pc' = "run" /\ cursor' = 0
    BY <1>5 DEF FindVisit
  <2> HIDE DEF t
  <2>2. db.file[cursor].name # NoName
    BY <1>2, <1>4, <1>5, NamesAssumption
  <2>3. cursor = 1 /\ t.page_number = 1 /\ t.prev_table = 0
    <3>1. ZeroPage.name = NoName
      BY DEF ZeroPage
    <3> QED
      BY <1>2, <1>3, <1>4, <2>2, <3>1 DEF PagesAtHome
  <2>4. TypeOK'
    BY <1>1, <1>4, <2>1 DEF IInv, TypeOK
  <2>5. LinksInFile'
    BY <1>1, <1>2, <1>4, <2>1, Primed DEF LinksInFile, PageNumbers
  <2>6. AtRest'
    BY <2>1 DEF AtRest
  <2>7. TableAtPageOne'
    BY <1>1, <1>2, <1>4, <2>1, <2>3, Primed DEF TableAtPageOne
  <2> QED
    BY <2>4, <2>5, <2>6, <2>7 DEF IInv
<1>6. CASE t.name # stmt.name
  <2>1. tbl' = [t EXCEPT !.st = "freed"] /\ cursor' = t.next_table /\ pc' = pc
    BY <1>6 DEF FindVisit
  <2> HIDE DEF t
  <2>2. tbl' \in Handle /\ tbl'.st = "freed" /\ HandleLinks(tbl') = HandleLinks(t)
    BY <1>4, <2>1 DEF Handle, HandleLinks
  <2>3. t.next_table \in PageNumbers(db) /\ t.next_table \in Nat
    BY <1>4 DEF HandleLinks, Handle
  <2>4. TypeOK'
    BY <1>1, <2>1, <2>2, <2>3 DEF IInv, TypeOK
  <2>5. LinksInFile'
    BY <1>1, <1>2, <1>4, <2>1, <2>2, <2>3, Primed DEF LinksInFile
  <2>6. AtRest'
    BY <1>1, <2>1 DEF AtRest
  <2>7. TableAtPageOne'
    BY <1>1, <1>2, <2>1, <2>2, Primed DEF TableAtPageOne
  <2> QED
    BY <2>4, <2>5, <2>6, <2>7 DEF IInv
<1> QED
  BY <1>5, <1>6

(* The end of the table list: NULL is returned only when there is no table.*)
LEMMA FindEndSafe == ASSUME IInv, FindEnd PROVE IInv'
<1>1. /\ pc = "find" /\ cursor = 0 /\ pc' = "run"
      /\ db' = db /\ faults' = faults /\ stmt' = stmt /\ tbl' = tbl
      /\ cursor' = cursor /\ todo' = todo
      /\ found' = found /\ junk' = junk /\ reply' = reply
  BY DEF FindEnd, disk
<1>2. TypeOK' /\ AtRest'
  BY <1>1 DEF IInv, TypeOK, AtRest
<1>3. LinksInFile'
  BY <1>1, Primed DEF IInv, LinksInFile
<1>4. TableAtPageOne'
  BY <1>1, Primed DEF IInv, TableAtPageOne, Running
<1> QED
  BY <1>2, <1>3, <1>4 DEF IInv

(* A new statement starts findTable at the first table page.               *)
LEMMA RequestSafe == ASSUME IInv, NEW s \in Requests, Request(s) PROVE IInv'
<1>1. /\ pc = "idle" /\ pc' = "find" /\ stmt' = s
      /\ cursor' = db.first_table_page /\ tbl' = NullHandle
      /\ todo' = s.rows /\ reply' = NoReply
      /\ db' = db /\ faults' = faults /\ found' = found /\ junk' = junk
  BY DEF Request, disk
<1>2. s \in Statement
  BY DEF Requests
<1>3. s.rows \in Seq(Values)
  <2>1. s.rows \in Batches \cup {<<>>}
    BY <1>2 DEF Statement
  <2>2. <<>> \in Seq(Values)
    OBVIOUS
  <2> QED
    BY <2>1, <2>2, BatchesAssumption
<1>4. /\ db \in Database /\ FileLinked(db) /\ db.number_of_pages \in Nat
      /\ db.first_table_page \in Nat
      /\ db.first_table_page \in PageNumbers(db)
  BY DEF IInv, TypeOK, LinksInFile, Database, FileLinked
<1>5. TypeOK'
  BY <1>1, <1>2, <1>3, <1>4, ClearedTypes DEF IInv, TypeOK
<1>6. LinksInFile'
  BY <1>1, <1>4, Primed, ClearedTypes DEF LinksInFile, PageNumbers
<1>7. AtRest'
  BY <1>1 DEF AtRest
<1>8. TableAtPageOne'
  BY <1>1, Primed, ClearedTypes DEF IInv, TableAtPageOne, Running
<1> QED
  BY <1>5, <1>6, <1>7, <1>8 DEF IInv
----------------------------------------------------------------------------
(* createTable finds no table and leaves one at page 1, written or not.    *)
LEMMA CreateTableSafe == ASSUME IInv, CreateTable PROVE IInv'
<1>1. PICK saved \in BOOLEAN :
        /\ Writes(saved)
        /\ db' = createTable(db, stmt.name, saved)
        /\ IF saved THEN set_result("OK") ELSE set_result("INTERNAL_ERROR")
  BY DEF CreateTable
<1>2. pc = "run" /\ stmt.op = "CREATE" /\ tbl.st = "null"
  BY DEF CreateTable, Running
<1>3. /\ db \in Database /\ FileLinked(db) /\ PagesAtHome(db)
      /\ db.number_of_pages \in Nat
      /\ stmt \in Statement /\ stmt.name \in Names
      /\ db.first_table_page = 0
      /\ db.first_free_page \in {0, 1}
      /\ db.first_free_page = 0 => db.number_of_pages = 0
  BY <1>2 DEF IInv, TypeOK, LinksInFile, TableAtPageOne, Running, Database, Statement
<1> DEFINE name == stmt.name
           d == createTable(db, name, saved)
<1>4. /\ Grown(db, d)
      /\ d.first_free_page = db.first_free_page
      /\ d.first_table_page = 1
      /\ \A m \in 1 .. d.number_of_pages :
           \/ m <= db.number_of_pages /\ d.file[m] = db.file[m]
           \/ m = 1 /\ d.file[m].page_number = 1 /\ d.file[m].prev = 0
           \/ m = 1 /\ d.file[m] = ZeroPage
  <2> DEFINE n == IF db.first_free_page # 0 THEN db.first_free_page
                  ELSE db.number_of_pages + 1
  <2>1. n = 1
    BY <1>3
  <2>2. name \in Names
    BY <1>3
  <2> HIDE DEF name
  <2>3. /\ Grown(db, d)
        /\ d.first_free_page = db.first_free_page
        /\ d.first_table_page = n
        /\ \A m \in 1 .. d.number_of_pages :
             \/ m <= db.number_of_pages /\ d.file[m] = db.file[m]
             \/ /\ m = n
                /\ d.file[m].page_number = n
                /\ d.file[m].prev = db.first_table_page
             \/ m = n /\ n > db.number_of_pages /\ d.file[m] = ZeroPage
    BY <1>3, <2>2, CreateTableEffect
  <2> HIDE DEF n
  <2> QED
    BY <1>3, <2>1, <2>3
<1>5. db' = d
  BY <1>1
<1> HIDE DEF d
<1>6. Settled(d)
  <2>1. DOMAIN d.file = 1 .. d.number_of_pages /\ DOMAIN db.file = 1 .. db.number_of_pages
    BY <1>3, <1>4 DEF Grown, FileLinked, Database
  <2>2. ZeroPage.prev = 0 /\ ZeroPage.name = NoName
    BY DEF ZeroPage
  <2>3. ASSUME NEW m \in 1 .. d.number_of_pages
        PROVE  /\ d.file[m].prev = 0
               /\ d.file[m].name # NoName => m = 1
               /\ \/ d.file[m].page_number = m
                  \/ d.file[m] = ZeroPage /\ m = 1
    <3>1. CASE m <= db.number_of_pages /\ d.file[m] = db.file[m]
      BY <3>1, <1>3, <2>1, <2>3 DEF PagesAtHome
    <3>2. CASE m = 1 /\ d.file[m].page_number = 1 /\ d.file[m].prev = 0
      BY <3>2
    <3>3. CASE m = 1 /\ d.file[m] = ZeroPage
      BY <3>3, <2>2
    <3> QED
      BY <1>4, <3>1, <3>2, <3>3
  <2>4. PagesAtHome(d)
    BY <1>4, <2>1, <2>3 DEF PagesAtHome
  <2> QED
    BY <1>4, <2>4 DEF Settled, Grown
<1>7. /\ tbl' = NullHandle /\ cursor' = 0 /\ found' = NoRows
      /\ todo' = <<>> /\ junk' = FALSE /\ pc' = "idle" /\ stmt' = stmt
      /\ reply' \in Reply
  BY <1>1, ClearedTypes DEF set_result, Return, ClearLocals
<1>8. /\ todo' \in Seq(Values) /\ found' \in Counts
  BY <1>7, ClearedTypes
<1>9. junk' \in BOOLEAN
  BY <1>7
<1>10. faults' \in 0 .. MaxFaults
  BY <1>1, BoundAssumption DEF Writes, IInv, TypeOK
<1> QED
  BY <1>3, <1>4, <1>5, <1>6, <1>7, <1>8, <1>9, <1>10, AtRestSafe

(* One turn of the loop of dropTable: a row page goes to the free stack.   *)
LEMMA DropRowPageSafe == ASSUME IInv, DropRowPage PROVE IInv'
<1> DEFINE n  == tbl.iterator
           pg == readRowPage(db, n)
<1>1. PICK ok \in BOOLEAN : Writes(ok) /\ db' = freeRowPage(db, pg, ok)
  BY DEF DropRowPage
<1>2. /\ tbl.st = "live" /\ stmt.op = "DROP" /\ n # 0
      /\ UNCHANGED <<pc, stmt, cursor, todo, found, junk, reply>>
      /\ tbl' = [tbl EXCEPT !.iterator = pg.next]
  BY DEF DropRowPage, Running, Reads
<1>3. /\ db \in Database /\ FileLinked(db) /\ db.number_of_pages \in Nat
      /\ Numbered(db) /\ OneName(db)
      /\ tbl \in Handle /\ HandleLinks(tbl) \subseteq PageNumbers(db)
      /\ db.first_table_page = 1
      /\ n \in 1 .. db.number_of_pages
  BY <1>2, LiveFacts
<1>4. /\ pg \in Page /\ pg.name = NoName
      /\ PageLinks(pg) \subseteq PageNumbers(db)
      /\ pg.prev = db.file[n].prev
  BY <1>3, ReadRowPageEffect
<1>5. pg.prev = 0
  BY <1>3, <1>4 DEF OneName
<1>6. pg.next \in PageNumbers(db) /\ pg.next \in Nat
  BY <1>4 DEF PageLinks, Page
<1> HIDE DEF pg
<1>7. /\ Grown(db, db')
      /\ db'.number_of_pages = db.number_of_pages
      /\ db'.first_table_page = db.first_table_page
      /\ Numbered(db') /\ OneName(db')
  BY <1>1, <1>3, <1>4, <1>5, FreeRowPageEffect
<1>8. /\ tbl' \in Handle /\ SameTable(tbl, tbl')
      /\ HandleLinks(tbl') \subseteq PageNumbers(db')
  BY <1>2, <1>3, <1>6, <1>7 DEF Handle, SameTable, HandleLinks, PageNumbers
<1>9. /\ todo' \in Seq(Values) /\ found' \in Counts /\ junk' \in BOOLEAN
  BY <1>2 DEF IInv, TypeOK
<1>10. faults' \in 0 .. MaxFaults
  BY <1>1, BoundAssumption DEF Writes, IInv, TypeOK
<1> QED
  BY <1>2, <1>3, <1>7, <1>8, <1>9, <1>10, LiveSafe

(* The end of dropTable: page 1 is on top of the free stack and no table   *)
(* is left.                                                                *)
LEMMA DropTablePageSafe == ASSUME IInv, DropTablePage PROVE IInv'
<1>1. PICK ok \in BOOLEAN : Writes(ok) /\ db' = freeTablePage(db, tbl, ok)
  BY DEF DropTablePage
<1>2. tbl.st = "live" /\ stmt.op = "DROP"
  BY DEF DropTablePage, Running
<1>3. /\ db \in Database /\ FileLinked(db)
      /\ Numbered(db) /\ OneName(db)
      /\ tbl \in Handle /\ HandleLinks(tbl) \subseteq PageNumbers(db)
      /\ tbl.page_number = 1 /\ tbl.prev_table = 0
  BY <1>2, LiveFacts
<1>4. /\ Grown(db, db')
      /\ db'.first_free_page = 1 /\ db'.first_table_page = 0
      /\ Numbered(db') /\ OneName(db')
  BY <1>1, <1>3, FreeTablePageEffect
<1>5. Settled(db')
  BY <1>4, NumberedIsHome DEF Settled, Grown
<1>6. /\ tbl' = NullHandle /\ cursor' = 0 /\ found' = NoRows
      /\ todo' = <<>> /\ junk' = FALSE /\ pc' = "idle" /\ stmt' = stmt
      /\ reply' \in Reply
  BY ClearedTypes DEF DropTablePage, set_result, Return, ClearLocals
<1>7. /\ todo' \in Seq(Values) /\ found' \in Counts
  BY <1>6, ClearedTypes
<1>8. junk' \in BOOLEAN
  BY <1>6
<1>9. faults' \in 0 .. MaxFaults
  BY <1>1, BoundAssumption DEF Writes, IInv, TypeOK
<1>10. stmt' \in Statement
  BY <1>6 DEF IInv, TypeOK
<1> QED
  BY <1>4, <1>5, <1>6, <1>7, <1>8, <1>9, <1>10, AtRestSafe

(* insertData, and the end of executeInsert when one of its writes fails.  *)
LEMMA InsertRowSafe == ASSUME IInv, InsertRow PROVE IInv'
<1> DEFINE v == Head(todo)
<1>1. PICK wrote \in BOOLEAN, saved \in BOOLEAN :
        LET res == insertData(db, tbl, v, wrote, saved)
        IN  /\ Writes(saved)
            /\ db' = res.db
            /\ IF saved
               THEN /\ tbl' = res.tbl
                    /\ todo' = Tail(todo)
                    /\ UNCHANGED <<pc, stmt, cursor, found, junk, reply>>
               ELSE set_result("INTERNAL_ERROR")
  BY DEF InsertRow
<1>2. tbl.st = "live" /\ stmt.op = "INSERT" /\ todo # <<>>
  BY DEF InsertRow, Running
<1>3. /\ db \in Database /\ FileLinked(db)
      /\ Numbered(db) /\ OneName(db)
      /\ tbl \in Handle /\ HandleLinks(tbl) \subseteq PageNumbers(db)
      /\ tbl.page_number = 1 /\ tbl.prev_table = 0
      /\ db.first_table_page = 1 /\ db.first_free_page \in {0, 1}
  BY <1>2, LiveFacts
<1>4. v \in Values /\ Tail(todo) \in Seq(Values)
  <2>1. todo \in Seq(Values)
    BY DEF IInv, TypeOK
  <2> QED
    BY <1>2, <2>1, HeadTailProperties
<1> DEFINE res == insertData(db, tbl, v, wrote, saved)
<1> HIDE DEF v
<1>5. /\ Grown(db, res.db)
      /\ res.db.first_free_page = db.first_free_page
      /\ res.db.first_table_page = db.first_table_page
      /\ res.tbl \in Handle /\ SameTable(tbl, res.tbl)
      /\ HandleLinks(res.tbl) \subseteq PageNumbers(res.db)
      /\ Numbered(res.db) /\ OneName(res.db)
  BY <1>3, <1>4, InsertDataEffect
<1>6. /\ Writes(saved) /\ db' = res.db
      /\ saved => /\ tbl' = res.tbl /\ todo' = Tail(todo)
                  /\ UNCHANGED <<pc, stmt, cursor, found, junk, reply>>
      /\ ~saved => set_result("INTERNAL_ERROR")
  BY <1>1
<1> HIDE DEF res
<1>7. faults' \in 0 .. MaxFaults
  BY <1>6, BoundAssumption DEF Writes, IInv, TypeOK
<1>8. CASE saved
  <2>1. /\ tbl' = res.tbl /\ todo' \in Seq(Values)
        /\ UNCHANGED <<pc, stmt, cursor, reply>>
        /\ found' \in Counts /\ junk' \in BOOLEAN
    BY <1>4, <1>6, <1>8 DEF IInv, TypeOK
  <2> QED
    BY <1>2, <1>3, <1>5, <1>6, <1>7, <2>1, LiveSafe
<1>9. CASE ~saved
  <2>1. /\ tbl' = NullHandle /\ cursor' = 0 /\ found' = NoRows
        /\ todo' = <<>> /\ junk' = FALSE /\ pc' = "idle" /\ stmt' = stmt
        /\ reply' \in Reply
    BY <1>6, <1>9, ClearedTypes DEF set_result, Return, ClearLocals
  <2>2. /\ todo' \in Seq(Values) /\ found' \in Counts
    BY <2>1, ClearedTypes
  <2>3. junk' \in BOOLEAN
    BY <2>1
  <2>4. stmt' \in Statement
    BY <2>1 DEF IInv, TypeOK
  <2>5. Settled(db')
    BY <1>3, <1>5, <1>6, NumberedIsHome DEF Settled, Grown
  <2> QED
    BY <1>3, <1>5, <1>6, <1>7, <2>1, <2>2, <2>3, <2>4, <2>5, AtRestSafe
<1> QED
  BY <1>8, <1>9
----------------------------------------------------------------------------
(* A page selects a number of rows of each value.                          *)
LEMMA SelectedType ==
    ASSUME NEW rows \in Seq(Values), NEW match
    PROVE  Selected(rows, match) \in Counts
<1>1. IsFiniteSet(DOMAIN rows)
  BY FS_Interval
<1>2. ASSUME NEW v \in Values
      PROVE  Cardinality({i \in DOMAIN rows : rows[i] = v /\ Intact(rows, i)}) \in Nat
  <2> DEFINE S == {i \in DOMAIN rows : rows[i] = v /\ Intact(rows, i)}
  <2>1. S \in SUBSET (DOMAIN rows)
    OBVIOUS
  <2> HIDE DEF S
  <2>2. IsFiniteSet(S)
    BY <1>1, <2>1, FS_Subset
  <2>3. Cardinality(S) \in Nat
    BY <2>2, FS_CardinalityType
  <2> QED
    BY <2>3 DEF S
<1> QED
  BY <1>2 DEF Selected, Counts

(* SELECT counts the rows of a page and moves to the next.                 *)
LEMMA SelectPageSafe == ASSUME IInv, SelectPage PROVE IInv'
<1> DEFINE rows == db.file[tbl.iterator].rows
           more == Selected(rows, stmt.where.match)
<1>1. /\ tbl.st = "live" /\ tbl.iterator # 0 /\ NextPage
      /\ UNCHANGED <<disk, pc, stmt, cursor, todo, reply>>
      /\ found' = [v \in Values |-> found[v] + more[v]]
      /\ junk' = (junk \/ Overflows(rows))
  BY DEF SelectPage, AtPage, Scanning, Running, Reads
<1>2. rows \in Seq(Values)
  <2>1. /\ db \in Database /\ FileLinked(db)
        /\ tbl.iterator \in 1 .. db.number_of_pages
    BY <1>1, LiveFacts
  <2>2. db.file[tbl.iterator] \in Page
    BY <2>1, ElementOfSeq DEF Database, FileLinked
  <2> QED
    BY <2>2 DEF Page
<1>3. more \in Counts
  BY <1>2, SelectedType
<1> HIDE DEF rows, more
<1>4. found' \in Counts
  BY <1>1, <1>3 DEF IInv, TypeOK, Counts
<1>5. junk' \in BOOLEAN
  BY <1>1
<1> QED
  BY <1>1, <1>4, <1>5, ScanSafe

(* DELETE passes over a page without rows.                                 *)
LEMMA DeleteEmptyPageSafe == ASSUME IInv, DeleteEmptyPage PROVE IInv'
<1>1. /\ tbl.st = "live" /\ tbl.iterator # 0 /\ NextPage
      /\ UNCHANGED <<disk, pc, stmt, cursor, todo, reply>>
      /\ found' = found /\ junk' = junk
  BY DEF DeleteEmptyPage, AtPage, Scanning, Running, Reads
<1>2. found' \in Counts /\ junk' \in BOOLEAN
  BY <1>1 DEF IInv, TypeOK
<1> QED
  BY <1>1, <1>2, ScanSafe

(* SELECT answers with the rows it has counted.                            *)
LEMMA SelectEndSafe == ASSUME IInv, SelectEnd PROVE IInv'
<1>1. /\ stmt.op = "SELECT" /\ UNCHANGED disk /\ pc = "run"
      /\ Return([status |-> "OK", rows |-> found, junk |-> junk])
  BY DEF SelectEnd, ScanEnds, Scanning, Running
<1>2. [status |-> "OK", rows |-> found, junk |-> junk] \in Reply
  BY DEF IInv, TypeOK, Reply
<1>3. /\ reply' \in Reply /\ pc' = "idle" /\ ClearLocals /\ stmt' = stmt
  BY <1>1, <1>2 DEF Return
<1>4. ~Running("DROP", "live") /\ pc # "crashed"
  BY <1>1 DEF Running
<1> QED
  BY <1>1, <1>3, <1>4, AnswerSafe

(* An answer that reads and writes nothing.                                *)
LEMMA SetResultSafe ==
    ASSUME IInv, UNCHANGED disk, pc = "run", ~Running("DROP", "live"),
           NEW status \in {"OK", "BAD_REQUEST", "INTERNAL_ERROR", "garbage"},
           set_result(status)
    PROVE  IInv'
<1>1. /\ reply' \in Reply /\ pc' = "idle" /\ ClearLocals /\ stmt' = stmt
  BY ClearedTypes DEF set_result, Return
<1> QED
  BY <1>1, AnswerSafe

(* The server is started again on an empty file.                           *)
LEMMA RestartSafe == ASSUME IInv, Restart PROVE IInv'
<1>1. /\ pc = "crashed" /\ pc' = "idle"
      /\ db' = createDatabase /\ faults' = 0
      /\ UNCHANGED <<stmt, reply, locals>>
  BY DEF Restart
<1>2. Settled(db') /\ db'.first_free_page = 0
  BY <1>1 DEF createDatabase, Settled, Database, FileLinked, PagesAtHome, PageNumbers
<1>3. /\ tbl' = NullHandle /\ cursor' = 0 /\ todo' \in Seq(Values)
      /\ found' \in Counts /\ junk' \in BOOLEAN
      /\ stmt' \in Statement /\ reply' \in Reply
  BY <1>1 DEF IInv, TypeOK, AtRest, locals
<1>4. faults' \in 0 .. MaxFaults
  BY <1>1, BoundAssumption
<1> QED
  BY <1>1, <1>2, <1>3, <1>4, AtRestSafe

----------------------------------------------------------------------------
(* The invariant holds at the start.                                       *)
LEMMA InitSafe == Init => IInv
<1> SUFFICES ASSUME Init PROVE IInv
  OBVIOUS
<1>1. /\ db = createDatabase /\ faults = 0 /\ pc = "idle"
      /\ stmt \in Statement /\ tbl = NullHandle /\ cursor = 0
      /\ todo = <<>> /\ found = NoRows /\ junk = FALSE /\ reply = NoReply
  BY DEF Init, Requests
<1>2. /\ db \in Database /\ FileLinked(db) /\ PagesAtHome(db)
      /\ db.number_of_pages = 0
      /\ db.first_free_page = 0 /\ db.first_table_page = 0
  BY <1>1 DEF createDatabase, Database, FileLinked, PagesAtHome, PageNumbers
<1>3. TypeOK
  <2>1. junk \in BOOLEAN
    BY <1>1
  <2>2. todo \in Seq(Values) /\ faults \in 0 .. MaxFaults
    BY <1>1, BoundAssumption
  <2> QED
    BY <1>1, <1>2, <2>1, <2>2, ClearedTypes DEF TypeOK
<1>4. LinksInFile
  BY <1>1, <1>2, ClearedTypes DEF LinksInFile, PageNumbers
<1>5. AtRest
  BY <1>1 DEF AtRest
<1>6. TableAtPageOne
  BY <1>1, <1>2, ClearedTypes DEF TableAtPageOne
<1> QED
  BY <1>3, <1>4, <1>5, <1>6 DEF IInv

(* A stuttering step, and a loop that does not advance, change nothing.    *)
LEMMA StutterSafe == ASSUME IInv, UNCHANGED vars PROVE IInv'
<1>1. /\ db' = db /\ faults' = faults /\ pc' = pc /\ stmt' = stmt
      /\ tbl' = tbl /\ cursor' = cursor /\ todo' = todo /\ found' = found
      /\ junk' = junk /\ reply' = reply
  BY DEF vars
<1>2. TypeOK' /\ AtRest'
  BY <1>1 DEF IInv, TypeOK, AtRest
<1>3. LinksInFile' /\ TableAtPageOne'
  BY <1>1, Primed DEF IInv, LinksInFile, TableAtPageOne, Running
<1> QED
  BY <1>2, <1>3 DEF IInv

(* Every step of executeQuery, and every request and restart, keeps it.    *)
LEMMA StepSafe == ASSUME IInv, [Next]_vars PROVE IInv'
<1>1. ASSUME NEW s \in Requests, Request(s) PROVE IInv'
  BY <1>1, RequestSafe
<1>2. CASE FindVisit
  BY <1>2, FindVisitSafe
<1>3. CASE FindEnd
  BY <1>3, FindEndSafe
<1>4. CASE FindCrash
  BY <1>4, CrashSafe DEF FindCrash
<1>5. CASE TableNotFound
  <2>1. pc = "run" /\ tbl.st = "null" /\ set_result("BAD_REQUEST") /\ UNCHANGED disk
    BY <1>5 DEF TableNotFound, Running
  <2>2. ~Running("DROP", "live")
    BY <2>1 DEF Running
  <2> QED
    BY <2>1, <2>2, SetResultSafe
<1>6. CASE TableAlreadyExists
  <2>1. /\ pc = "run" /\ stmt.op \in {"CREATE", "UPDATE"}
        /\ set_result("BAD_REQUEST") /\ UNCHANGED disk
    BY <1>6 DEF TableAlreadyExists, Running
  <2>2. ~Running("DROP", "live")
    BY <2>1 DEF Running
  <2> QED
    BY <2>1, <2>2, SetResultSafe
<1>7. CASE UpdateNull
  BY <1>7, CrashSafe DEF UpdateNull, Running
<1>8. CASE FreedTableCrash
  BY <1>8, CrashSafe DEF FreedTableCrash, Running
<1>9. CASE FreedTableScan
  <2>1. /\ pc = "run" /\ tbl.st = "freed"
        /\ Crash \/ (set_result("OK") /\ UNCHANGED disk)
    BY <1>9 DEF FreedTableScan, Running
  <2>2. ~Running("DROP", "live")
    BY <2>1 DEF Running
  <2> QED
    BY <2>1, <2>2, SetResultSafe, CrashSafe
<1>10. CASE JoinSelect
  <2>1. /\ pc = "run" /\ stmt.op = "SELECT"
        /\ Crash \/ (set_result("garbage") /\ UNCHANGED disk)
    BY <1>10 DEF JoinSelect, Running
  <2>2. ~Running("DROP", "live")
    BY <2>1 DEF Running
  <2> QED
    BY <2>1, <2>2, SetResultSafe, CrashSafe
<1>11. CASE CreateTable
  BY <1>11, CreateTableSafe
<1>12. CASE DropRowPage
  BY <1>12, DropRowPageSafe
<1>13. CASE DropSpin \/ DeleteSpin
  BY <1>13, StutterSafe DEF DropSpin, DeleteSpin
<1>14. CASE DropTablePage
  BY <1>14, DropTablePageSafe
<1>15. CASE InsertRow
  BY <1>15, InsertRowSafe
<1>16. CASE InsertCrash
  BY <1>16, CrashSafe DEF InsertCrash, Running
<1>17. CASE InsertDone
  <2>1. pc = "run" /\ stmt.op = "INSERT" /\ set_result("OK") /\ UNCHANGED disk
    BY <1>17 DEF InsertDone, Running
  <2>2. ~Running("DROP", "live")
    BY <2>1 DEF Running
  <2> QED
    BY <2>1, <2>2, SetResultSafe
<1>18. CASE SelectPage
  BY <1>18, SelectPageSafe
<1>19. CASE SelectEnd
  BY <1>19, SelectEndSafe
<1>20. CASE ScanCrash
  BY <1>20, CrashSafe DEF ScanCrash, Running
<1>21. CASE DeleteEmptyPage
  BY <1>21, DeleteEmptyPageSafe
<1>22. CASE DeleteFirstRow
  <2>1. /\ pc = "run" /\ stmt.op = "DELETE" /\ UNCHANGED disk
        /\ set_result("BAD_REQUEST") \/ set_result("INTERNAL_ERROR")
    BY <1>22 DEF DeleteFirstRow, FirstRow, AtPage, Scanning, Running
  <2>2. ~Running("DROP", "live")
    BY <2>1 DEF Running
  <2> QED
    BY <2>1, <2>2, SetResultSafe
<1>23. CASE DeleteEnd
  <2>1. pc = "run" /\ stmt.op = "DELETE" /\ set_result("OK") /\ UNCHANGED disk
    BY <1>23 DEF DeleteEnd, ScanEnds, Scanning, Running
  <2>2. ~Running("DROP", "live")
    BY <2>1 DEF Running
  <2> QED
    BY <2>1, <2>2, SetResultSafe
<1>24. CASE Restart
  BY <1>24, RestartSafe
<1>25. CASE UNCHANGED vars
  BY <1>25, StutterSafe
<1>26. CASE Step
  BY <1>2, <1>3, <1>4, <1>5, <1>6, <1>7, <1>8, <1>9, <1>10, <1>11, <1>12,
     <1>13, <1>14, <1>15, <1>16, <1>17, <1>18, <1>19, <1>20, <1>21, <1>22,
     <1>23, <1>26 DEF Step
<1> QED
  BY <1>1, <1>24, <1>25, <1>26 DEF Next

(* IInv is an invariant of QueryEngine, whatever writes fail.              *)
THEOREM Invariance == Spec => []IInv
BY InitSafe, StepSafe, PTL DEF Spec

(* Every variable keeps its type: in particular free_space stays a         *)
(* uint16_t through the subtraction in insertData, and no read of a page   *)
(* that is not in the file gives a struct.                                 *)
THEOREM TypeCorrect == Spec => []TypeOK
<1>1. IInv => TypeOK
  BY DEF IInv
<1> QED
  BY <1>1, Invariance, PTL

(* Every page number the program keeps leads into the file.                *)
THEOREM LinksStayInFile == Spec => []LinksInFile
<1>1. IInv => LinksInFile
  BY DEF IInv
<1> QED
  BY <1>1, Invariance, PTL

(* The one table lives at page 1, through every CREATE, DROP and failed    *)
(* write.                                                                  *)
THEOREM TableStaysAtPageOne == Spec => []TableAtPageOne
<1>1. IInv => TableAtPageOne
  BY DEF IInv
<1> QED
  BY <1>1, Invariance, PTL

(* There are never two tables, and between statements only page 1 can be   *)
(* on top of the free stack (findTable, createTable, dropTable).           *)
THEOREM NeverTwoTables == Spec => []SingleTable
<1>1. IInv => SingleTable
  BY DEF IInv, TableAtPageOne, PagesAtHome, SingleTable, Running
<1> QED
  BY <1>1, Invariance, PTL

(* Writes go to the page they are meant for, though the code writes to the *)
(* number found in a page and never to the number it was read under.       *)
THEOREM WritesLandAtHome == Spec => []WritesAtHome
<1>1. ASSUME IInv PROVE WritesAtHome
  <2>1. \A n \in DOMAIN db.file :
          \/ db.file[n].page_number = n
          \/ db.file[n] = ZeroPage /\ n = db.first_table_page
    BY <1>1 DEF IInv, TableAtPageOne, PagesAtHome
  <2>2. ASSUME tbl.st = "live"
        PROVE  /\ tbl.page_number = db.first_table_page
               /\ tbl.iterator # 0 =>
                    db.file[tbl.iterator].page_number = tbl.iterator
    <3>1. /\ tbl.page_number = 1 /\ db.first_table_page = 1
          /\ Numbered(db)
          /\ tbl.iterator # 0 => tbl.iterator \in 1 .. db.number_of_pages
      BY <1>1, <2>2, LiveFacts
    <3> QED
      BY <3>1 DEF Numbered
  <2> QED
    BY <2>1, <2>2 DEF WritesAtHome
<1> QED
  BY <1>1, Invariance, PTL

----------------------------------------------------------------------------
(***************************************************************************)
(* The row list of QueryEngine until a DROP: it descends, its rows are     *)
(* only ever appended to, and each page knows what space it has left,      *)
(* whatever writes fail.                                                   *)
(*                                                                         *)
(* RowListDescends is not inductive: it does not say where the links of a  *)
(* row page, of the table page and of the table struct lead, and a link to *)
(* a page that is no row page would end the descent.  RowsLinked says that *)
(* every one of them leads to a row page, or nowhere.                      *)
(***************************************************************************)

RowPages(d) == {n \in 1 .. d.number_of_pages : d.file[n].page_type = "ROW_PAGE"}

Listed(d, n) == n \in RowPages(d) \cup {0}

\* A link below n that leads to a row page or nowhere.
RowLinks(d, n, p) == p.next < n /\ Listed(d, p.next) /\ Listed(d, p.next_free)

RowsLinked(d) ==
    /\ \A n \in RowPages(d) : n # 1 /\ RowLinks(d, n, d.file[n])
    /\ d.number_of_pages # 0 => /\ d.file[1].rows = <<>>
                                /\ Listed(d, d.file[1].next_free)
                                /\ Listed(d, d.file[1].free_place)

HandleListed(d, t) ==
    Listed(d, t.iterator) /\ Listed(d, t.first_row_page) /\ Listed(d, t.free_place)

\* Between d and e the pages of the file keep the rows they have.
RowsStay(d, e) ==
    /\ d.number_of_pages <= e.number_of_pages
    /\ \A n \in 1 .. d.number_of_pages : IsPrefix(d.file[n].rows, e.file[n].rows)

RowInv == NothingDropped => /\ RowsLinked(db)
                            /\ tbl.st = "live" => HandleListed(db, tbl)

----------------------------------------------------------------------------
(* A sequence is a prefix of itself, and of itself with a row appended.    *)
LEMMA PrefixOfItself == ASSUME NEW s \in Seq(Values) PROVE IsPrefix(s, s)
<1>1. Len(s) \in Nat
  BY LenProperties
<1> QED
  BY <1>1 DEF IsPrefix

(* Rows to which one is appended begin as they were.                       *)
LEMMA PrefixOfAppended ==
    ASSUME NEW s \in Seq(Values), NEW v \in Values
    PROVE  IsPrefix(s, Append(s, v))
<1> DEFINE t == Append(s, v)
<1>1. /\ t \in Seq(Values) /\ Len(t) = Len(s) + 1 /\ Len(s) \in Nat
      /\ \A i \in 1 .. Len(s) : t[i] = s[i]
  BY AppendProperties, LenProperties
<1> HIDE DEF t
<1>2. SubSeq(s, 1, Len(s)) = [i \in 1 .. Len(s) |-> s[i]]
  BY <1>1
<1>3. SubSeq(t, 1, Len(s)) = [i \in 1 .. Len(s) |-> t[i]]
  BY <1>1
<1>4. SubSeq(s, 1, Len(s)) = SubSeq(t, 1, Len(s))
  BY <1>1, <1>2, <1>3
<1> QED
  BY <1>1, <1>4 DEF IsPrefix, t

(* Rows stay through two writes if they stay through each of them.         *)
LEMMA PrefixTransitive ==
    ASSUME NEW s \in Seq(Values), NEW t \in Seq(Values), NEW u \in Seq(Values),
           IsPrefix(s, t), IsPrefix(t, u)
    PROVE  IsPrefix(s, u)
<1>1. Len(s) <= Len(t) /\ Len(t) <= Len(u)
      /\ Len(s) \in Nat /\ Len(t) \in Nat /\ Len(u) \in Nat
  BY LenProperties DEF IsPrefix
<1>2. \A i \in 1 .. Len(s) : s[i] = t[i]
  <2>1. SubSeq(s, 1, Len(s)) = SubSeq(t, 1, Len(s))
    BY DEF IsPrefix
  <2>2. \A i \in 1 .. Len(s) : SubSeq(s, 1, Len(s))[i] = s[i] /\ SubSeq(t, 1, Len(s))[i] = t[i]
    BY <1>1
  <2> QED
    BY <2>1, <2>2
<1>3. \A i \in 1 .. Len(t) : t[i] = u[i]
  <2>1. SubSeq(t, 1, Len(t)) = SubSeq(u, 1, Len(t))
    BY DEF IsPrefix
  <2>2. \A i \in 1 .. Len(t) : SubSeq(t, 1, Len(t))[i] = t[i] /\ SubSeq(u, 1, Len(t))[i] = u[i]
    BY <1>1
  <2> QED
    BY <2>1, <2>2
<1>4. \A i \in 1 .. Len(s) : s[i] = u[i]
  BY <1>1, <1>2, <1>3
<1>5. /\ SubSeq(s, 1, Len(s)) = [i \in 1 .. Len(s) |-> s[i]]
      /\ SubSeq(u, 1, Len(s)) = [i \in 1 .. Len(s) |-> u[i]]
  BY <1>1
<1>6. SubSeq(s, 1, Len(s)) = SubSeq(u, 1, Len(s))
  BY <1>4, <1>5
<1> QED
  BY <1>1, <1>6 DEF IsPrefix

----------------------------------------------------------------------------
(* What a page of the file, and its rows, are.                             *)
LEMMA PageFacts ==
    ASSUME NEW d \in Database, FileLinked(d), NEW n \in 1 .. d.number_of_pages
    PROVE  /\ d.number_of_pages \in Nat /\ Len(d.file) = d.number_of_pages
           /\ d.file[n] \in Page /\ d.file[n].rows \in Seq(Values)
<1>1. /\ d.number_of_pages \in Nat /\ Len(d.file) = d.number_of_pages
      /\ d.file \in Seq(Page)
  BY DEF Database, FileLinked
<1>2. d.file[n] \in Page
  BY <1>1, ElementOfSeq
<1> QED
  BY <1>1, <1>2 DEF Page

(* Rows stay where nothing is written.                                     *)
LEMMA SameRowsStay ==
    ASSUME NEW d \in Database, FileLinked(d), NEW e,
           d.number_of_pages <= e.number_of_pages,
           \A n \in 1 .. d.number_of_pages : e.file[n].rows = d.file[n].rows
    PROVE  RowsStay(d, e)
<1>1. ASSUME NEW n \in 1 .. d.number_of_pages
      PROVE  IsPrefix(d.file[n].rows, e.file[n].rows)
  BY PageFacts, PrefixOfItself
<1> QED
  BY <1>1 DEF RowsStay

(* A row page written under its own number, with the rows it has and more, *)
(* and links that lead down, leaves the list as it is (writeRowPage).      *)
LEMMA RowPageWritten ==
    ASSUME NEW d \in Database, FileLinked(d), RowsLinked(d),
           NEW p \in Page, NEW ok \in BOOLEAN,
           p.page_type = "ROW_PAGE", p.page_number \in RowPages(d),
           RowLinks(d, p.page_number, p),
           IsPrefix(d.file[p.page_number].rows, p.rows)
    PROVE  LET e == WritePage(d, p.page_number, p, ok)
           IN  RowsLinked(e) /\ RowPages(e) = RowPages(d) /\ RowsStay(d, e)
<1> DEFINE k == p.page_number
           e == WritePage(d, k, p, ok)
<1>1. k \in Nat /\ k \in 1 .. d.number_of_pages /\ k # 1
  BY DEF Page, RowPages, RowsLinked
<1>2. /\ e.number_of_pages = d.number_of_pages
      /\ \A m \in 1 .. d.number_of_pages :
           e.file[m] = IF ok /\ m = k THEN p ELSE d.file[m]
  <2>1. Len(d.file) = d.number_of_pages
    BY DEF FileLinked
  <2> QED
    BY <1>1, <2>1, WritePageEffect
<1> HIDE DEF e
<1>3. RowPages(e) = RowPages(d)
  BY <1>1, <1>2 DEF RowPages
<1>4. RowsLinked(e)
  <2>1. \A n \in RowPages(e) : n # 1 /\ RowLinks(e, n, e.file[n])
    BY <1>2, <1>3 DEF RowsLinked, RowLinks, Listed, RowPages
  <2>2. e.number_of_pages # 0 => e.file[1] = d.file[1]
    BY <1>1, <1>2, d.number_of_pages \in Nat DEF Database
  <2> QED
    BY <1>2, <1>3, <2>1, <2>2 DEF RowsLinked, Listed
<1>5. RowsStay(d, e)
  <2>1. ASSUME NEW n \in 1 .. d.number_of_pages
        PROVE  IsPrefix(d.file[n].rows, e.file[n].rows)
    <3>1. CASE ok /\ n = k
      BY <1>2, <3>1
    <3>2. CASE ~(ok /\ n = k)
      BY <1>2, <3>2, PageFacts, PrefixOfItself
    <3> QED
      BY <3>1, <3>2
  <2>2. d.number_of_pages <= e.number_of_pages
    BY <1>2 DEF Database
  <2> QED
    BY <2>1, <2>2 DEF RowsStay
<1> QED
  BY <1>3, <1>4, <1>5 DEF e

(* The struct of the table at page 1, saved there, leaves the list as it is*)
(* (saveTable).                                                            *)
LEMMA TablePageWritten ==
    ASSUME NEW d \in Database, FileLinked(d), RowsLinked(d), d.number_of_pages # 0,
           NEW t \in Handle, HandleListed(d, t), t.page_number = 1,
           NEW ok \in BOOLEAN
    PROVE  LET e == saveTable(d, t, ok)
           IN  RowsLinked(e) /\ RowPages(e) = RowPages(d) /\ RowsStay(d, e)
<1> DEFINE p == TablePage(t)
           e == saveTable(d, t, ok)
<1>1. /\ d.number_of_pages \in Nat /\ Len(d.file) = d.number_of_pages
      /\ 1 \in 1 .. d.number_of_pages
  BY DEF Database, FileLinked
<1>2. /\ p \in Page /\ p.page_type = "TABLE_PAGE" /\ p.rows = <<>>
      /\ p.next_free = t.first_row_page /\ p.free_place = t.free_place
  BY TablePageEffect DEF TablePage
<1>3. e = WritePage(d, 1, p, ok)
  BY DEF saveTable
<1> HIDE DEF p
<1>4. /\ e.number_of_pages = d.number_of_pages
      /\ \A m \in 1 .. d.number_of_pages :
           e.file[m] = IF ok /\ m = 1 THEN p ELSE d.file[m]
  <2> HIDE DEF e
  <2>1. 1 \in Nat /\ p \in Page
    BY <1>2
  <2>2. /\ e.number_of_pages = d.number_of_pages
        /\ \A m \in 1 .. Len(d.file) :
             e.file[m] = IF ok /\ m = 1 THEN p ELSE d.file[m]
    BY <1>3, <2>1, WritePageEffect
  <2> QED
    BY <1>1, <2>2
<1> HIDE DEF e
<1>5. 1 \notin RowPages(d) /\ d.file[1].rows = <<>>
  BY DEF RowsLinked
<1>6. RowPages(e) = RowPages(d)
  BY <1>1, <1>2, <1>4, <1>5 DEF RowPages
<1>7. RowsLinked(e)
  <2>1. \A n \in RowPages(e) : n # 1 /\ RowLinks(e, n, e.file[n])
    BY <1>4, <1>5, <1>6 DEF RowsLinked, RowLinks, Listed, RowPages
  <2>2. /\ e.file[1].rows = <<>>
        /\ Listed(e, e.file[1].next_free) /\ Listed(e, e.file[1].free_place)
    BY <1>1, <1>2, <1>4, <1>6 DEF RowsLinked, Listed, HandleListed
  <2> QED
    BY <2>1, <2>2 DEF RowsLinked
<1>8. RowsStay(d, e)
  <2>1. \A n \in 1 .. d.number_of_pages : e.file[n].rows = d.file[n].rows
    BY <1>2, <1>4, <1>5
  <2> QED
    BY <1>1, <1>4, <2>1, SameRowsStay
<1> QED
  BY <1>6, <1>7, <1>8 DEF e

(* With nothing freed, a new row page is one more page behind all others.  *)
LEMMA NewRowPage ==
    ASSUME NEW d \in Database, FileLinked(d), RowsLinked(d),
           d.number_of_pages # 0, d.first_free_page = 0
    PROVE  LET new == createRowPage(d)
               n   == d.number_of_pages + 1
           IN  /\ new.pg = RowPage(n) /\ new.db.number_of_pages = n
               /\ RowPages(new.db) = RowPages(d) \cup {n}
               /\ new.db.file[n] = RowPage(n)
               /\ \A m \in 1 .. d.number_of_pages : new.db.file[m] = d.file[m]
               /\ RowsLinked(new.db) /\ RowsStay(d, new.db)
<1> DEFINE n   == d.number_of_pages + 1
           c   == getFreePage(d).db
           pg  == RowPage(n)
           e   == PutPage(c, n, pg)
<1>1. d.number_of_pages \in Nat /\ n \in Nat /\ n # 1 /\ n \in 1 .. n
  BY DEF Database
<1>2. /\ c \in Database /\ FileLinked(c)
      /\ getFreePage(d).page_number = n /\ c.number_of_pages = n
      /\ \A m \in 1 .. n : c.file[m] =
           IF m <= d.number_of_pages THEN d.file[m] ELSE ZeroPage
  BY GetFreePageEffect DEF Grown
<1>3. createRowPage(d) = [db |-> e, pg |-> pg]
  BY <1>2 DEF createRowPage, RowPage
<1>4. pg \in Page
  <2>1. <<>> \in Seq(Values)
    OBVIOUS
  <2> QED
    BY <1>1, <2>1, PageSpaceType DEF RowPage, Page, PageType
<1>5. /\ e.number_of_pages = n
      /\ \A m \in 1 .. n : e.file[m] = IF m = n THEN pg ELSE d.file[m]
  <2>1. Len(c.file) = n
    BY <1>2 DEF FileLinked
  <2> HIDE DEF pg, c, n, e
  <2>2. /\ e.number_of_pages = c.number_of_pages
        /\ \A m \in 1 .. Len(c.file) :
             e.file[m] = IF m = n THEN pg ELSE c.file[m]
    <3>1. c \in Database /\ n \in Nat /\ pg \in Page
      BY <1>1, <1>2, <1>4
    <3>2. /\ PutPage(c, n, pg).number_of_pages = c.number_of_pages
          /\ \A m \in 1 .. Len(c.file) :
               PutPage(c, n, pg).file[m] = IF m = n THEN pg ELSE c.file[m]
      BY <3>1, PutPageEffect, SMTT(30)
    <3> QED
      BY <3>2 DEF e
  <2> USE DEF n
  <2> QED
    BY <1>1, <1>2, <2>1, <2>2
<1>6. pg.page_type = "ROW_PAGE" /\ pg.next = 0 /\ pg.next_free = 0
  BY DEF RowPage
<1> HIDE DEF pg, e, c
<1>7. RowPages(e) = RowPages(d) \cup {n}
  BY <1>1, <1>5, <1>6 DEF RowPages
<1>8. RowsLinked(e)
  <2>1. ASSUME NEW m \in RowPages(e) PROVE m # 1 /\ RowLinks(e, m, e.file[m])
    <3>1. CASE m = n
      BY <1>1, <1>5, <1>6, <3>1 DEF RowLinks, Listed
    <3>2. CASE m # n
      BY <1>1, <1>5, <1>7, <2>1, <3>2 DEF RowsLinked, RowLinks, Listed, RowPages
    <3> QED
      BY <3>1, <3>2
  <2>2. e.file[1] = d.file[1]
    BY <1>1, <1>5
  <2> QED
    BY <1>7, <2>1, <2>2 DEF RowsLinked, Listed
<1>9. RowsStay(d, e)
  <2>1. \A m \in 1 .. d.number_of_pages : e.file[m].rows = d.file[m].rows
    BY <1>1, <1>5
  <2> QED
    BY <1>1, <1>5, <2>1, SameRowsStay
<1> QED
  BY <1>1, <1>3, <1>5, <1>7, <1>8, <1>9 DEF pg

(* The page a row goes to is a row page of the list, as it is in the file  *)
(* or new and empty, and links down (getTableFreePage).                    *)
LEMMA TableFreePageListed ==
    ASSUME NEW d \in Database, FileLinked(d), Numbered(d), RowsLinked(d),
           d.number_of_pages # 0, d.first_free_page = 0,
           NEW t \in Handle, HandleListed(d, t)
    PROVE  LET got == getTableFreePage(d, t)
               k   == got.pg.page_number
           IN  /\ RowsLinked(got.db) /\ RowsStay(d, got.db)
               /\ HandleListed(got.db, got.tbl)
               /\ k \in RowPages(got.db) /\ got.pg.page_type = "ROW_PAGE"
               /\ RowLinks(got.db, k, got.pg)
               /\ got.pg.rows = got.db.file[k].rows
<1>1. d.number_of_pages \in Nat
  BY DEF Database
<1>2. CASE t.free_place = 0
  <2> DEFINE n  == d.number_of_pages + 1
             c  == createRowPage(d).db
             u  == [t EXCEPT !.first_row_page = n, !.free_place = n, !.iterator = n]
             pg == [RowPage(n) EXCEPT !.next = t.first_row_page, !.next_free = t.free_place]
  <2>1. /\ createRowPage(d).pg = RowPage(n)
        /\ RowPages(c) = RowPages(d) \cup {n}
        /\ c.file[n] = RowPage(n)
        /\ RowsLinked(c) /\ RowsStay(d, c)
    BY NewRowPage
  <2>2. /\ RowPage(n).page_number = n /\ pg.page_number = n
        /\ pg.page_type = "ROW_PAGE" /\ pg.rows = RowPage(n).rows
        /\ pg.next = t.first_row_page /\ pg.next_free = 0
    BY <1>2 DEF RowPage
  <2>3. getTableFreePage(d, t) = [db |-> c, tbl |-> u, pg |-> pg]
    BY <1>2, <2>1, <2>2 DEF getTableFreePage
  <2>4. u.iterator = n /\ u.first_row_page = n /\ u.free_place = n
    BY DEF Handle
  <2> HIDE DEF c, u, pg
  <2>5. HandleListed(c, u)
    BY <2>1, <2>4 DEF HandleListed, Listed
  <2>6. RowLinks(c, n, pg)
    BY <1>1, <2>1, <2>2 DEF RowLinks, Listed, HandleListed, RowPages
  <2> QED
    BY <2>1, <2>2, <2>3, <2>5, <2>6
<1>3. CASE t.free_place # 0
  <2> DEFINE k  == t.free_place
             pg == readRowPage(d, k)
  <2>1. k \in RowPages(d) /\ k \in 1 .. d.number_of_pages /\ d.file[k].page_type = "ROW_PAGE"
    BY <1>3 DEF HandleListed, Listed, RowPages
  <2>2. d.file[k] \in Page /\ d.file[k].page_number = k
    BY <2>1, PageFacts DEF Numbered
  <2>3. /\ pg.page_number = k /\ pg.page_type = "ROW_PAGE"
        /\ pg.rows = d.file[k].rows
        /\ pg.next = d.file[k].next /\ pg.next_free = d.file[k].next_free
    BY <2>1, <2>2 DEF readRowPage, Page
  <2>4. getTableFreePage(d, t) = [db |-> d, tbl |-> t, pg |-> pg]
    BY <1>3 DEF getTableFreePage
  <2> HIDE DEF k, pg
  <2>5. RowLinks(d, k, pg)
    BY <2>1, <2>3 DEF RowsLinked, RowLinks
  <2>6. RowsStay(d, d)
    BY <1>1, SameRowsStay
  <2> QED
    BY <2>1, <2>3, <2>4, <2>5, <2>6
<1> QED
  BY <1>2, <1>3

(* Rows that stay from one file to the next, and to the one after, stay.   *)
LEMMA RowsStayOn ==
    ASSUME NEW d \in Database, FileLinked(d), NEW e \in Database, FileLinked(e),
           NEW f \in Database, FileLinked(f), RowsStay(d, e), RowsStay(e, f)
    PROVE  RowsStay(d, f)
<1>1. /\ d.number_of_pages \in Nat /\ e.number_of_pages \in Nat
      /\ f.number_of_pages \in Nat
      /\ d.number_of_pages <= e.number_of_pages
      /\ e.number_of_pages <= f.number_of_pages
  BY DEF Database, RowsStay
<1>2. ASSUME NEW n \in 1 .. d.number_of_pages
      PROVE  IsPrefix(d.file[n].rows, f.file[n].rows)
  <2>1. n \in 1 .. e.number_of_pages /\ n \in 1 .. f.number_of_pages
    BY <1>1
  <2>2. /\ d.file[n].rows \in Seq(Values) /\ e.file[n].rows \in Seq(Values)
        /\ f.file[n].rows \in Seq(Values)
    BY <2>1, PageFacts
  <2> QED
    BY <2>1, <2>2, PrefixTransitive DEF RowsStay
<1> QED
  BY <1>1, <1>2 DEF RowsStay

(* insertData, whichever of its writes fails: the list descends as before, *)
(* the struct leads to row pages, and the rows of every page stay.         *)
LEMMA InsertDataListed ==
    ASSUME NEW d \in Database, FileLinked(d), Numbered(d), RowsLinked(d),
           d.number_of_pages # 0, d.first_free_page = 0,
           NEW t \in Handle, HandleLinks(t) \subseteq PageNumbers(d),
           HandleListed(d, t), t.page_number = 1,
           NEW v \in Values, NEW wrote \in BOOLEAN, NEW saved \in BOOLEAN
    PROVE  LET res == insertData(d, t, v, wrote, saved)
           IN  RowsLinked(res.db) /\ HandleListed(res.db, res.tbl) /\ RowsStay(d, res.db)
<1> DEFINE got  == getTableFreePage(d, t)
           c    == got.db
           old  == got.pg
           k    == old.page_number
           pg   == AddRow(old, v)
           full == pg.free_space < RowSize
           pg2  == IF full THEN [pg EXCEPT !.next_free = 0] ELSE pg
           tbl2 == IF full THEN [got.tbl EXCEPT !.free_place = pg.next_free]
                           ELSE got.tbl
           w    == WritePage(c, pg2.page_number, pg2, wrote)
           e    == saveTable(w, tbl2, wrote /\ saved)
<1>1. /\ Grown(d, c) /\ old \in Page /\ PageLinks(old) \subseteq PageNumbers(c)
      /\ got.tbl \in Handle /\ SameTable(t, got.tbl)
  BY TableFreePageEffect
<1>2. /\ RowsLinked(c) /\ RowsStay(d, c)
      /\ HandleListed(c, got.tbl)
      /\ k \in RowPages(c) /\ old.page_type = "ROW_PAGE"
      /\ RowLinks(c, k, old)
      /\ old.rows = c.file[k].rows
  BY TableFreePageListed
<1>3. insertData(d, t, v, wrote, saved) = [db |-> e, tbl |-> tbl2]
  BY DEF insertData
<1> HIDE DEF got, c, old
<1>4. /\ c \in Database /\ FileLinked(c) /\ c.number_of_pages \in Nat
      /\ c.number_of_pages # 0
  BY <1>1 DEF Grown, Database
<1>5. /\ pg \in Page /\ PageLinks(pg) \subseteq PageNumbers(c)
      /\ pg.page_number = k /\ pg.next_free = old.next_free
  BY <1>1, AddRowEffect
<1>6. pg.page_type = "ROW_PAGE" /\ pg.next = old.next /\ pg.rows = Append(old.rows, v)
  BY <1>1, <1>2 DEF AddRow, Page
<1> HIDE DEF pg, full
<1>7. /\ pg2 \in Page /\ PageLinks(pg2) \subseteq PageNumbers(c)
      /\ pg2.page_number = k /\ pg2.page_type = "ROW_PAGE"
      /\ pg2.next = old.next /\ pg2.rows = Append(old.rows, v)
      /\ pg2.next_free \in {old.next_free, 0}
  <2>1. 0 \in PageNumbers(c)
    BY <1>4 DEF PageNumbers
  <2>2. CASE full
    BY <1>5, <1>6, <2>1, <2>2 DEF PageLinks, Page
  <2> QED
    BY <1>5, <1>6, <2>2
<1>8. /\ tbl2 \in Handle /\ tbl2.page_number = 1 /\ HandleListed(c, tbl2)
  <2>1. pg.next_free \in Nat /\ Listed(c, pg.next_free)
    BY <1>2, <1>5 DEF RowLinks, Page
  <2> QED
    BY <1>1, <1>2, <2>1 DEF SameTable, HandleListed, Handle
<1> HIDE DEF pg2, tbl2
<1>9. RowLinks(c, k, pg2)
  BY <1>2, <1>7 DEF RowLinks, Listed
<1>10. IsPrefix(c.file[k].rows, pg2.rows)
  <2>1. old.rows \in Seq(Values)
    BY <1>1 DEF Page
  <2> QED
    BY <1>2, <1>7, <2>1, PrefixOfAppended
<1>11. RowsLinked(w) /\ RowPages(w) = RowPages(c) /\ RowsStay(c, w)
  BY <1>2, <1>4, <1>7, <1>9, <1>10, RowPageWritten
<1>12. /\ Grown(c, w) /\ w.number_of_pages = c.number_of_pages
  <2>1. pg2.page_number \in Nat
    BY <1>7 DEF Page
  <2> QED
    BY <2>1, <1>4, <1>7, WritePageEffect, WritePageLinked
<1> HIDE DEF w
<1>13. w \in Database /\ FileLinked(w) /\ w.number_of_pages # 0 /\ HandleListed(w, tbl2)
  BY <1>4, <1>8, <1>11, <1>12 DEF Grown, HandleListed, Listed
<1>14. RowsLinked(e) /\ RowPages(e) = RowPages(w) /\ RowsStay(w, e)
  <2>1. (wrote /\ saved) \in BOOLEAN
    OBVIOUS
  <2> QED
    BY <2>1, <1>8, <1>11, <1>13, TablePageWritten
<1>15. e \in Database /\ FileLinked(e)
  <2>1. Grown(d, e)
    BY <1>3, InsertDataEffect
  <2> QED
    BY <2>1 DEF Grown
<1> HIDE DEF e
<1>16. HandleListed(e, tbl2)
  BY <1>13, <1>14 DEF HandleListed, Listed
<1>17. RowsStay(d, e)
  <2>1. RowsStay(d, w)
    BY <1>2, <1>4, <1>11, <1>13, RowsStayOn
  <2> QED
    BY <2>1, <1>13, <1>14, <1>15, RowsStayOn
<1> QED
  BY <1>3, <1>14, <1>16, <1>17

(* The page insertData adds a row to, and that page before it is added:    *)
(* a new first page of the list, or the page at free_place.                *)
Target(d, t) == IF t.free_place = 0 THEN d.number_of_pages + 1 ELSE t.free_place

Before(d, t) ==
    IF t.free_place = 0
    THEN [RowPage(Target(d, t)) EXCEPT !.next = t.first_row_page,
                                       !.next_free = t.free_place]
    ELSE readRowPage(d, t.free_place)

After(d, t, v) ==
    LET pg == AddRow(Before(d, t), v)
    IN  IF pg.free_space < RowSize THEN [pg EXCEPT !.next_free = 0] ELSE pg

(* The page insertData gets from getTableFreePage is a row page: a new     *)
(* one behind all others, or the one on top of the stack of the table.     *)
LEMMA TargetPage ==
    ASSUME NEW d \in Database, FileLinked(d), Numbered(d), RowsLinked(d),
           d.number_of_pages # 0, d.first_free_page = 0,
           NEW t \in Handle, HandleListed(d, t)
    PROVE  LET got == getTableFreePage(d, t)
               k   == Target(d, t)
           IN  /\ k \in 2 .. got.db.number_of_pages
               /\ got.db.number_of_pages =
                    IF t.free_place = 0 THEN k ELSE d.number_of_pages
               /\ \A m \in 1 .. d.number_of_pages : got.db.file[m] = d.file[m]
               /\ t.free_place = 0 => got.db.file[k] = RowPage(k)
               /\ got.pg = Before(d, t) /\ got.pg.page_number = k
               /\ t.free_place = 0 =>
                    got.tbl = [t EXCEPT !.first_row_page = k, !.free_place = k,
                                        !.iterator = k]
               /\ t.free_place # 0 => got.tbl = t
<1>1. d.number_of_pages \in Nat /\ d.number_of_pages # 0
  BY DEF Database
<1>2. CASE t.free_place = 0
  <2> DEFINE n  == d.number_of_pages + 1
             c  == createRowPage(d).db
             u  == [t EXCEPT !.first_row_page = n, !.free_place = n, !.iterator = n]
             pg == [RowPage(n) EXCEPT !.next = t.first_row_page,
                                      !.next_free = t.free_place]
  <2>1. /\ createRowPage(d).pg = RowPage(n) /\ c.number_of_pages = n
        /\ c.file[n] = RowPage(n)
        /\ \A m \in 1 .. d.number_of_pages : c.file[m] = d.file[m]
    BY NewRowPage
  <2>2. RowPage(n).page_number = n /\ pg.page_number = n
    BY DEF RowPage
  <2>3. getTableFreePage(d, t) = [db |-> c, tbl |-> u, pg |-> pg]
    BY <1>2, <2>1, <2>2 DEF getTableFreePage
  <2>4. pg = Before(d, t) /\ n = Target(d, t)
    BY <1>2 DEF Before, Target
  <2> HIDE DEF c, u, pg
  <2>5. n \in 2 .. n
    BY <1>1
  <2>6. u = [t EXCEPT !.first_row_page = n, !.free_place = n, !.iterator = n]
    BY DEF u
  <2> HIDE DEF n
  <2> QED
    BY <1>2, <2>1, <2>2, <2>3, <2>4, <2>5, <2>6
<1>3. CASE t.free_place # 0
  <2> DEFINE k  == t.free_place
             pg == readRowPage(d, k)
  <2>1. k \in RowPages(d) /\ k # 1 /\ k \in 1 .. d.number_of_pages
    BY <1>3 DEF HandleListed, Listed, RowPages, RowsLinked
  <2>2. d.file[k] \in Page /\ d.file[k].page_number = k
    BY <2>1, PageFacts DEF Numbered
  <2>3. pg.page_number = k
    BY <2>1, <2>2 DEF readRowPage, Page
  <2>4. getTableFreePage(d, t) = [db |-> d, tbl |-> t, pg |-> pg]
    BY <1>3 DEF getTableFreePage
  <2>5. pg = Before(d, t) /\ k = Target(d, t) /\ k \in 2 .. d.number_of_pages
    BY <1>1, <1>3, <2>1 DEF Before, Target
  <2> HIDE DEF k, pg
  <2> QED
    BY <1>3, <2>3, <2>4, <2>5
<1> QED
  BY <1>2, <1>3

(* That page before the row is added: a row page, empty or as in the file. *)
LEMMA BeforePage ==
    ASSUME NEW d \in Database, FileLinked(d), Numbered(d), RowsLinked(d),
           NEW t \in Handle, HandleListed(d, t)
    PROVE  LET pg == Before(d, t)
           IN  /\ pg \in Page /\ pg.page_type = "ROW_PAGE"
               /\ pg.page_number = Target(d, t)
               /\ t.free_place = 0 =>
                    /\ pg.rows = <<>> /\ pg.free_space = PageSpace
                    /\ pg.next = t.first_row_page /\ pg.next_free = 0
               /\ t.free_place # 0 =>
                    LET old == d.file[t.free_place]
                    IN  /\ t.free_place \in RowPages(d)
                        /\ pg.rows = old.rows /\ pg.free_space = old.free_space
                        /\ pg.next = old.next /\ pg.next_free = old.next_free
<1>1. CASE t.free_place = 0
  <2> DEFINE k == d.number_of_pages + 1
             pg == [RowPage(k) EXCEPT !.next = t.first_row_page,
                                      !.next_free = t.free_place]
  <2>1. Before(d, t) = pg /\ Target(d, t) = k
    BY <1>1 DEF Before, Target
  <2>2. /\ pg.page_type = "ROW_PAGE" /\ pg.page_number = k /\ pg.rows = <<>>
        /\ pg.free_space = PageSpace
        /\ pg.next = t.first_row_page /\ pg.next_free = 0
    BY <1>1 DEF RowPage
  <2>3. RowPage(k) \in Page
    <3>1. <<>> \in Seq(Values) /\ k \in Nat
      BY DEF Database
    <3> QED
      BY <3>1, PageSpaceType DEF RowPage, Page, PageType
  <2>4. pg \in Page
    <3>1. t.first_row_page \in Nat /\ t.free_place \in Nat
      BY DEF Handle
    <3> QED
      BY <2>3, <3>1 DEF Page
  <2> HIDE DEF pg, k
  <2> QED
    BY <1>1, <2>1, <2>2, <2>4
<1>2. CASE t.free_place # 0
  <2> DEFINE k == t.free_place
  <2>1. k \in RowPages(d) /\ k \in 1 .. d.number_of_pages /\ d.file[k].page_type = "ROW_PAGE"
    BY <1>2 DEF HandleListed, Listed, RowPages
  <2>2. d.file[k] \in Page /\ d.file[k].page_number = k
    BY <2>1, PageFacts DEF Numbered
  <2>3. Before(d, t) = [d.file[k] EXCEPT !.name = NoName, !.free_place = 0]
    BY <1>2 DEF Before, readRowPage
  <2>4. Target(d, t) = k
    BY <1>2 DEF Target
  <2>5. Before(d, t) \in Page
    BY <1>2, <2>1, ReadRowPageEffect DEF Before
  <2> QED
    BY <1>2, <2>1, <2>2, <2>3, <2>4, <2>5 DEF Page
<1> QED
  BY <1>1, <1>2

(* That page with the row: its rows and free_space change, and next_free   *)
(* when no row of row_size fits any more.                                  *)
LEMMA AfterPage ==
    ASSUME NEW d, NEW t, Before(d, t) \in Page, NEW v \in Values
    PROVE  LET pg  == Before(d, t)
               new == After(d, t, v)
           IN  /\ new \in Page /\ new.page_type = pg.page_type
               /\ new.page_number = pg.page_number /\ new.next = pg.next
               /\ new.rows = Append(pg.rows, v)
               /\ new.free_space = (pg.free_space - (RowLen[v] + LenSize)) % U16
               /\ AddRow(pg, v).free_space = new.free_space
               /\ new.next_free = IF new.free_space < RowSize THEN 0
                                  ELSE pg.next_free
<1> DEFINE pg  == Before(d, t)
           add == AddRow(pg, v)
           new == IF add.free_space < RowSize THEN [add EXCEPT !.next_free = 0] ELSE add
<1>1. add \in Page /\ add.page_number = pg.page_number /\ add.next_free = pg.next_free
  BY AddRowEffect
<1>2. /\ add.page_type = pg.page_type /\ add.next = pg.next
      /\ add.rows = Append(pg.rows, v)
      /\ add.free_space = (pg.free_space - (RowLen[v] + LenSize)) % U16
  BY DEF AddRow, Page
<1>3. After(d, t, v) = new
  BY DEF After
<1> HIDE DEF add
<1>4. /\ new \in Page /\ new.page_type = add.page_type
      /\ new.page_number = add.page_number /\ new.next = add.next
      /\ new.rows = add.rows /\ new.free_space = add.free_space
      /\ new.next_free = IF add.free_space < RowSize THEN 0 ELSE add.next_free
  BY <1>1 DEF Page
<1> HIDE DEF new
<1> QED
  BY <1>1, <1>2, <1>3, <1>4 DEF add

(* insertData page by page: the row goes to one page, the struct to page 1 *)
(* and no other page is touched, whichever write fails.                    *)
LEMMA InsertDataPages ==
    ASSUME NEW d \in Database, FileLinked(d), Numbered(d), RowsLinked(d),
           d.number_of_pages # 0, d.first_free_page = 0,
           NEW t \in Handle, HandleLinks(t) \subseteq PageNumbers(d),
           HandleListed(d, t), t.page_number = 1,
           NEW v \in Values, NEW wrote \in BOOLEAN, NEW saved \in BOOLEAN
    PROVE  LET res == insertData(d, t, v, wrote, saved)
               k   == Target(d, t)
           IN  /\ k \in 2 .. res.db.number_of_pages
               /\ res.db.number_of_pages =
                    IF t.free_place = 0 THEN k ELSE d.number_of_pages
               /\ res.db.file[k] = IF wrote THEN After(d, t, v)
                                   ELSE IF t.free_place = 0 THEN RowPage(k)
                                   ELSE d.file[k]
               /\ \A m \in 2 .. res.db.number_of_pages :
                    m # k => res.db.file[m] = d.file[m]
               /\ res.db.file[1] = IF wrote /\ saved THEN TablePage(res.tbl)
                                   ELSE d.file[1]
               /\ res.tbl.first_row_page = IF t.free_place = 0 THEN k
                                           ELSE t.first_row_page
               /\ res.tbl.free_place =
                    IF AddRow(Before(d, t), v).free_space < RowSize
                    THEN Before(d, t).next_free ELSE k
               /\ SameTable(t, res.tbl) /\ res.tbl \in Handle
<1> DEFINE got  == getTableFreePage(d, t)
           c    == got.db
           old  == got.pg
           k    == Target(d, t)
           pg   == AddRow(old, v)
           full == pg.free_space < RowSize
           pg2  == IF full THEN [pg EXCEPT !.next_free = 0] ELSE pg
           tbl2 == IF full THEN [got.tbl EXCEPT !.free_place = pg.next_free]
                           ELSE got.tbl
           w    == WritePage(c, pg2.page_number, pg2, wrote)
           ok   == wrote /\ saved
           e    == saveTable(w, tbl2, ok)
<1>1. /\ Grown(d, c) /\ old \in Page
      /\ got.tbl \in Handle /\ SameTable(t, got.tbl)
  BY TableFreePageEffect
<1>2. /\ k \in 2 .. c.number_of_pages
      /\ c.number_of_pages = IF t.free_place = 0 THEN k ELSE d.number_of_pages
      /\ \A m \in 1 .. d.number_of_pages : c.file[m] = d.file[m]
      /\ t.free_place = 0 => c.file[k] = RowPage(k)
      /\ old = Before(d, t) /\ old.page_number = k
      /\ t.free_place = 0 =>
           got.tbl = [t EXCEPT !.first_row_page = k, !.free_place = k, !.iterator = k]
      /\ t.free_place # 0 => got.tbl = t
  BY TargetPage
<1>3. insertData(d, t, v, wrote, saved) = [db |-> e, tbl |-> tbl2]
  BY DEF insertData
<1>4. got.tbl.first_row_page = (IF t.free_place = 0 THEN k ELSE t.first_row_page)
      /\ got.tbl.free_place = k
  BY <1>2 DEF Target, Handle
<1> HIDE DEF got, c, old
<1>5. /\ c \in Database /\ c.number_of_pages \in Nat /\ Len(c.file) = c.number_of_pages
  BY <1>1 DEF Grown, Database, FileLinked
<1>6. pg \in Page /\ pg.page_number = k /\ pg.next_free = old.next_free
  BY <1>1, <1>2, AddRowEffect
<1>7. pg2 = After(d, t, v)
  BY <1>2 DEF After
<1> HIDE DEF pg
<1>8. pg2 \in Page /\ pg2.page_number = k
  BY <1>6 DEF Page
<1>9. /\ tbl2 \in Handle /\ SameTable(t, tbl2)
      /\ tbl2.first_row_page = (IF t.free_place = 0 THEN k ELSE t.first_row_page)
      /\ tbl2.free_place = IF full THEN old.next_free ELSE k
  <2>1. pg.next_free \in Nat
    BY <1>6 DEF Page
  <2> QED
    BY <1>1, <1>4, <1>6, <2>1 DEF Handle, SameTable
<1>10. full <=> AddRow(Before(d, t), v).free_space < RowSize
  BY <1>2 DEF pg
<1> HIDE DEF pg2, tbl2, full, k
<1>11. /\ w \in Database /\ w.number_of_pages = c.number_of_pages
       /\ Len(w.file) = c.number_of_pages
       /\ \A m \in 1 .. c.number_of_pages :
            w.file[m] = IF wrote /\ m = k THEN pg2 ELSE c.file[m]
  <2>1. k \in Nat
    BY <1>2
  <2> QED
    BY <1>5, <1>8, <2>1, WritePageEffect
<1> HIDE DEF w
<1>12. TablePage(tbl2) \in Page /\ tbl2.page_number = 1
  BY <1>9, TablePageEffect DEF SameTable
<1>13. /\ e.number_of_pages = c.number_of_pages
       /\ \A m \in 1 .. c.number_of_pages :
            e.file[m] = IF ok /\ m = 1 THEN TablePage(tbl2) ELSE w.file[m]
  <2>1. e = WritePage(w, 1, TablePage(tbl2), ok) /\ ok \in BOOLEAN
    BY <1>12 DEF saveTable
  <2> HIDE DEF e, ok
  <2>2. ASSUME NEW p \in Page, NEW b \in BOOLEAN
        PROVE  LET x == WritePage(w, 1, p, b)
               IN  /\ x.number_of_pages = w.number_of_pages
                   /\ \A m \in 1 .. Len(w.file) :
                        x.file[m] = IF b /\ m = 1 THEN p ELSE w.file[m]
    BY <1>11, WritePageEffect
  <2> QED
    BY <1>11, <1>12, <2>1, <2>2
<1> HIDE DEF e
<1>14. k \in 1 .. c.number_of_pages /\ k # 1 /\ 1 \in 1 .. c.number_of_pages
  BY <1>2, <1>5
<1>15. e.file[k] = IF wrote THEN pg2 ELSE IF t.free_place = 0 THEN RowPage(k) ELSE d.file[k]
  BY <1>2, <1>11, <1>13, <1>14
<1>16. ASSUME NEW m \in 2 .. c.number_of_pages, m # k PROVE e.file[m] = d.file[m]
  <2>1. m \in 1 .. c.number_of_pages /\ m # 1 /\ m \in 1 .. d.number_of_pages
    <3>1. d.number_of_pages \in Nat
      BY DEF Database
    <3>2. t.free_place = 0 => k = d.number_of_pages + 1
      BY DEF k, Target
    <3> QED
      BY <1>2, <1>5, <1>16, <3>1, <3>2
  <2> QED
    BY <1>2, <1>11, <1>13, <1>16, <2>1
<1>17. e.file[1] = IF ok THEN TablePage(tbl2) ELSE d.file[1]
  <2>1. 1 \in 1 .. d.number_of_pages
    BY DEF Database
  <2> QED
    BY <1>2, <1>11, <1>13, <1>14, <2>1
<1> QED
  <2> USE DEF k
  <2> QED
    BY <1>2, <1>3, <1>7, <1>9, <1>10, <1>13, <1>15, <1>16, <1>17

----------------------------------------------------------------------------
(* The predicates on a database say the same of db' primed and applied.    *)
LEMMA PrimedRows ==
    /\ RowsLinked(db)' <=> RowsLinked(db')
    /\ HandleListed(db, tbl)' <=> HandleListed(db', tbl')
BY DEF RowsLinked, RowLinks, HandleListed, Listed, RowPages

(* Steps that leave the file alone and have no struct, or the same one:    *)
(* requests, answers, crashes, the end of findTable, loops that spin.      *)
Idles ==
    /\ db' = db
    /\ \/ tbl' = NullHandle
       \/ tbl' = tbl /\ cursor' = cursor /\ stmt' = stmt

(* What a step of the engine does to pages and table, by kinds.            *)
LEMMA StepKinds ==
    ASSUME IInv, [Next]_vars
    PROVE  \/ Idles \/ FindVisit \/ CreateTable \/ InsertRow
           \/ DropRowPage \/ DropTablePage \/ SelectPage \/ DeleteEmptyPage
           \/ Restart
<1>1. ASSUME NEW s \in Requests, Request(s) PROVE Idles
  BY <1>1 DEF Request, disk, Idles
<1>2. ASSUME Crash PROVE Idles
  BY <1>2 DEF Crash, ClearLocals, disk, Idles
<1>3. ASSUME NEW status, set_result(status), UNCHANGED disk PROVE Idles
  BY <1>3 DEF set_result, Return, ClearLocals, disk, Idles
<1>4. CASE UNCHANGED vars \/ DropSpin \/ DeleteSpin
  BY <1>4 DEF DropSpin, DeleteSpin, vars, Idles
<1>5. CASE FindEnd
  BY <1>5 DEF FindEnd, disk, Idles
<1>6. CASE FindCrash \/ UpdateNull \/ FreedTableCrash \/ InsertCrash \/ ScanCrash
  BY <1>2, <1>6 DEF FindCrash, UpdateNull, FreedTableCrash, InsertCrash, ScanCrash
<1>7. CASE \/ TableNotFound \/ TableAlreadyExists \/ InsertDone \/ DeleteEnd
           \/ DeleteFirstRow
  BY <1>3, <1>7 DEF TableNotFound, TableAlreadyExists, InsertDone, DeleteEnd,
                    DeleteFirstRow
<1>8. CASE FreedTableScan \/ JoinSelect
  BY <1>2, <1>3, <1>8 DEF FreedTableScan, JoinSelect
<1>9. CASE SelectEnd
  BY <1>9 DEF SelectEnd, Return, ClearLocals, disk, Idles
<1> QED
  BY <1>1, <1>4, <1>5, <1>6, <1>7, <1>8, <1>9 DEF Next, Step

(* A statement that holds the table: the facts about its file and struct   *)
(* that the lemmas about insertData and the scans need.                    *)
LEMMA LiveListed ==
    ASSUME IInv, RowInv, NothingDropped, tbl.st = "live"
    PROVE  /\ db \in Database /\ FileLinked(db) /\ Numbered(db)
           /\ RowsLinked(db) /\ HandleListed(db, tbl)
           /\ db.number_of_pages # 0 /\ db.first_free_page = 0
           /\ tbl \in Handle /\ HandleLinks(tbl) \subseteq PageNumbers(db)
           /\ tbl.page_number = 1
<1>1. /\ db \in Database /\ FileLinked(db) /\ Numbered(db)
      /\ db.number_of_pages \in Nat /\ db.first_table_page = 1
      /\ tbl \in Handle /\ HandleLinks(tbl) \subseteq PageNumbers(db)
      /\ tbl.page_number = 1
  BY LiveFacts
<1>2. db.number_of_pages # 0
  BY <1>1 DEF FileLinked, PageNumbers
<1> QED
  BY <1>1, <1>2 DEF RowInv, NothingDropped

(* CREATE leaves the free stack as it is.                                  *)
LEMMA CreateKeepsStack ==
    ASSUME IInv, CreateTable PROVE db'.first_free_page = db.first_free_page
<1>1. \E ok \in BOOLEAN : db' = createTable(db, stmt.name, ok)
  BY DEF CreateTable
<1>2. db \in Database /\ FileLinked(db) /\ stmt.name \in Names
  BY DEF IInv, TypeOK, LinksInFile, Statement
<1> QED
  BY <1>1, <1>2, CreateTableEffect

(* CREATE with nothing freed is the first of its file, which is empty.     *)
LEMMA CreateTableListed ==
    ASSUME IInv, CreateTable, db.first_free_page = 0
    PROVE  /\ db.number_of_pages = 0 /\ tbl' = NullHandle
           /\ RowsLinked(db') /\ RowPages(db') = {}
<1>1. PICK saved \in BOOLEAN :
        /\ db' = createTable(db, stmt.name, saved)
        /\ IF saved THEN set_result("OK") ELSE set_result("INTERNAL_ERROR")
  BY DEF CreateTable
<1>2. tbl' = NullHandle
  BY <1>1 DEF set_result, Return, ClearLocals
<1>3. /\ db \in Database /\ FileLinked(db) /\ db.number_of_pages = 0
      /\ stmt.name \in Names
  BY DEF IInv, TypeOK, LinksInFile, TableAtPageOne, CreateTable, Running, Statement
<1> DEFINE c   == getFreePage(db).db
           h   == [st |-> "live", name |-> stmt.name, page_number |-> 1,
                   next_table |-> db.first_table_page,
                   prev_table |-> db.first_table_page,
                   first_row_page |-> 0, free_place |-> 0, iterator |-> 0]
           e   == saveTable(c, h, saved)
<1>4. /\ c \in Database /\ FileLinked(c) /\ c.number_of_pages = 1
      /\ getFreePage(db).page_number = 1 /\ c.file[1] = ZeroPage
  BY <1>3, GetFreePageEffect DEF Grown
<1>5. db' = [e EXCEPT !.first_table_page = 1]
  BY <1>1, <1>4 DEF createTable
<1>6. h \in Handle /\ h.page_number = 1 /\ HandleListed(c, h)
  BY <1>3 DEF Handle, HandleListed, Listed, Database
<1> HIDE DEF c, h
<1>7. RowsLinked(c) /\ RowPages(c) = {}
  BY <1>4 DEF RowsLinked, RowPages, Listed, ZeroPage
<1>8. RowsLinked(e) /\ RowPages(e) = {}
  BY <1>4, <1>6, <1>7, TablePageWritten
<1>9. e \in Database
  <2>1. TablePage(h) \in Page /\ h.page_number \in Nat
    BY <1>6, TablePageEffect DEF Handle
  <2> QED
    BY <1>4, <2>1, WritePageEffect DEF saveTable
<1> HIDE DEF e
<1>10. db'.file = e.file /\ db'.number_of_pages = e.number_of_pages
  BY <1>5, <1>9 DEF Database
<1> QED
  BY <1>2, <1>3, <1>8, <1>10 DEF RowsLinked, RowLinks, Listed, RowPages

(* DROP leaves the free stack with a page on it, and the list with nothing.*)
LEMMA DropFrees == ASSUME IInv, DropRowPage \/ DropTablePage PROVE ~NothingDropped'
<1>1. CASE DropRowPage
  <2> DEFINE n  == tbl.iterator
             pg == readRowPage(db, n)
  <2>1. PICK ok \in BOOLEAN : db' = freeRowPage(db, pg, ok)
    BY <1>1 DEF DropRowPage
  <2>2. /\ db \in Database /\ FileLinked(db) /\ Numbered(db)
        /\ n \in 1 .. db.number_of_pages
    BY <1>1, LiveFacts DEF DropRowPage, Running, Reads
  <2>3. /\ pg \in Page /\ PageLinks(pg) \subseteq PageNumbers(db)
        /\ pg.page_number = n
    BY <2>2, ReadRowPageEffect DEF Numbered
  <2> HIDE DEF pg
  <2>4. db'.first_free_page = n
    BY <2>1, <2>2, <2>3, FreeRowPageEffect
  <2> QED
    BY <2>2, <2>4 DEF NothingDropped
<1>2. CASE DropTablePage
  <2>1. PICK ok \in BOOLEAN : db' = freeTablePage(db, tbl, ok)
    BY <1>2 DEF DropTablePage
  <2>2. /\ db \in Database /\ FileLinked(db)
        /\ tbl \in Handle /\ HandleLinks(tbl) \subseteq PageNumbers(db)
        /\ tbl.page_number = 1
    BY <1>2, LiveFacts DEF DropTablePage, Running
  <2>3. db'.first_free_page = 1
    BY <2>1, <2>2, FreeTablePageEffect
  <2> QED
    BY <2>3 DEF NothingDropped
<1> QED
  BY <1>1, <1>2

(* The struct insertData works on, and what becomes of it and the file.    *)
LEMMA InsertRowListed ==
    ASSUME IInv, RowInv, InsertRow, NothingDropped'
    PROVE  /\ NothingDropped /\ RowsLinked(db') /\ RowsStay(db, db')
           /\ tbl' = NullHandle \/ HandleListed(db', tbl')
<1> DEFINE v == Head(todo)
<1>1. PICK wrote \in BOOLEAN, saved \in BOOLEAN :
        LET res == insertData(db, tbl, v, wrote, saved)
        IN  /\ db' = res.db
            /\ tbl' = res.tbl \/ set_result("INTERNAL_ERROR")
  BY DEF InsertRow
<1>2. tbl.st = "live" /\ v \in Values
  <2>1. todo \in Seq(Values)
    BY DEF IInv, TypeOK
  <2> QED
    BY <2>1, HeadTailProperties DEF InsertRow, Running
<1> HIDE DEF v
<1> DEFINE res == insertData(db, tbl, v, wrote, saved)
<1>3. NothingDropped
  <2>1. /\ db \in Database /\ FileLinked(db)
        /\ tbl \in Handle /\ HandleLinks(tbl) \subseteq PageNumbers(db)
    BY <1>2, LiveFacts
  <2>2. res.db.first_free_page = db.first_free_page
    BY <1>2, <2>1, InsertDataEffect
  <2> QED
    BY <1>1, <2>2 DEF NothingDropped
<1>4. RowsLinked(res.db) /\ HandleListed(res.db, res.tbl) /\ RowsStay(db, res.db)
  BY <1>2, <1>3, LiveListed, InsertDataListed
<1>5. db' = res.db /\ (tbl' = res.tbl \/ tbl' = NullHandle)
  BY <1>1 DEF set_result, Return, ClearLocals
<1> HIDE DEF res
<1> QED
  BY <1>3, <1>4, <1>5

(* findTable returns the struct of page 1, whose links lead to row pages.  *)
LEMMA FindVisitListed ==
    ASSUME IInv, RowInv, FindVisit, NothingDropped
    PROVE  db' = db /\ (tbl'.st = "live" => HandleListed(db, tbl'))
<1> DEFINE t == readTable(db, cursor)
<1>1. db' = db /\ pc = "find" /\ cursor # 0
  BY DEF FindVisit, disk
<1>2. /\ db \in Database /\ FileLinked(db) /\ db.number_of_pages \in Nat
      /\ PagesAtHome(db) /\ stmt.name \in Names
      /\ RowsLinked(db)
  BY <1>1 DEF IInv, TypeOK, LinksInFile, TableAtPageOne, Database, Statement, RowInv
<1>3. cursor \in 1 .. db.number_of_pages /\ cursor \in DOMAIN db.file
  <2>1. cursor \in 0 .. db.number_of_pages
    BY DEF IInv, LinksInFile, PageNumbers
  <2> QED
    BY <1>1, <1>2, <2>1 DEF FileLinked, Database
<1>4. /\ t \in Handle /\ t.name = db.file[cursor].name
      /\ t.iterator = db.file[cursor].next_free
      /\ t.first_row_page = db.file[cursor].next_free
      /\ t.free_place = db.file[cursor].free_place
  BY <1>2, <1>3, ReadTableEffect DEF readTable
<1>5. CASE t.name = stmt.name
  <2>1. tbl' = t
    BY <1>5 DEF FindVisit
  <2> HIDE DEF t
  <2>2. cursor = 1
    BY <1>2, <1>3, <1>4, <1>5, NamesAssumption DEF PagesAtHome
  <2> QED
    BY <1>1, <1>2, <1>3, <1>4, <2>1, <2>2 DEF RowsLinked, HandleListed
<1>6. CASE t.name # stmt.name
  <2>1. tbl' = [t EXCEPT !.st = "freed"]
    BY <1>6 DEF FindVisit
  <2> HIDE DEF t
  <2>2. tbl'.st = "freed"
    BY <1>4, <2>1 DEF Handle
  <2> QED
    BY <1>1, <2>2
<1> QED
  BY <1>5, <1>6

(* The next page of a scan is a row page of the list.                      *)
LEMMA ScanListed ==
    ASSUME IInv, RowInv, SelectPage \/ DeleteEmptyPage, NothingDropped
    PROVE  db' = db /\ HandleListed(db, tbl')
<1> DEFINE n == tbl.iterator
<1>1. /\ tbl.st = "live" /\ n # 0 /\ db' = db
      /\ tbl' = [tbl EXCEPT !.iterator = db.file[n].next]
  BY DEF SelectPage, DeleteEmptyPage, AtPage, Scanning, Running, Reads, NextPage, disk
<1>2. RowsLinked(db) /\ HandleListed(db, tbl) /\ tbl \in Handle
  BY <1>1, LiveListed
<1>3. Listed(db, db.file[n].next)
  BY <1>1, <1>2 DEF HandleListed, Listed, RowsLinked, RowLinks
<1> QED
  BY <1>1, <1>2, <1>3 DEF HandleListed, Handle

(* Until a DROP every link of the row list, and of the struct in use, leads*)
(* to a row page or nowhere.                                               *)
LEMMA RowStepSafe == ASSUME IInv, RowInv, [Next]_vars PROVE RowInv'
<1> SUFFICES ASSUME NothingDropped'
             PROVE  /\ RowsLinked(db')
                    /\ tbl'.st = "live" => HandleListed(db', tbl')
  BY PrimedRows DEF RowInv
<1>1. NullHandle.st # "live"
  BY DEF NullHandle
<1>2. ASSUME db' = db PROVE NothingDropped /\ RowsLinked(db')
  BY <1>2 DEF RowInv, NothingDropped
<1>3. CASE Idles
  BY <1>1, <1>2, <1>3 DEF Idles, RowInv
<1>4. CASE FindVisit
  <2>1. db' = db
    BY <1>4 DEF FindVisit, disk
  <2> QED
    BY <1>2, <1>4, <2>1, FindVisitListed
<1>5. CASE CreateTable
  <2>1. db.first_free_page = 0
    BY <1>5, CreateKeepsStack DEF NothingDropped
  <2> QED
    BY <1>1, <1>5, <2>1, CreateTableListed
<1>6. CASE InsertRow
  BY <1>1, <1>6, InsertRowListed
<1>7. CASE DropRowPage \/ DropTablePage
  BY <1>7, DropFrees
<1>8. CASE SelectPage \/ DeleteEmptyPage
  <2>1. db' = db
    BY <1>8 DEF SelectPage, DeleteEmptyPage, disk
  <2> QED
    BY <1>2, <1>8, <2>1, ScanListed
<1>9. CASE Restart
  <2>1. db' = createDatabase /\ tbl' = NullHandle
    BY <1>9 DEF Restart, locals, IInv, AtRest
  <2>2. RowPages(db') = {} /\ db'.number_of_pages = 0
    BY <2>1 DEF createDatabase, RowPages
  <2> QED
    BY <1>1, <2>1, <2>2 DEF RowsLinked
<1> QED
  BY <1>3, <1>4, <1>5, <1>6, <1>7, <1>8, <1>9, StepKinds

----------------------------------------------------------------------------
(* Before the first statement there is no list.                            *)
LEMMA RowInit == ASSUME Init PROVE RowInv
<1>1. db = createDatabase /\ tbl = NullHandle
  BY DEF Init
<1>2. /\ db.number_of_pages = 0 /\ RowPages(db) = {} /\ tbl.st # "live"
  BY <1>1 DEF createDatabase, RowPages, NullHandle
<1> QED
  BY <1>2 DEF RowInv, RowsLinked

(* RowInv is an invariant: as long as nothing was dropped, every link of   *)
(* the row list leads to a row page or nowhere.                            *)
THEOREM RowInvariance == Spec => [](IInv /\ RowInv)
BY InitSafe, StepSafe, RowInit, RowStepSafe, PTL DEF Spec

(* Until a DROP the row list strictly descends in page numbers, whatever   *)
(* writes fail: iterateTable ends, and insertData cannot put a page in the *)
(* list twice (getTableFreePage).                                          *)
THEOREM RowListAlwaysDescends == Spec => []RowListDescends
<1>1. ASSUME IInv, RowInv, NothingDropped
      PROVE  /\ \A n \in DOMAIN db.file :
                  db.file[n].page_type = "ROW_PAGE" => db.file[n].next < n
             /\ tbl.st = "live" /\ tbl.iterator # 0 =>
                  db.file[tbl.iterator].page_type = "ROW_PAGE"
  <2>1. DOMAIN db.file = 1 .. db.number_of_pages /\ RowsLinked(db)
    BY <1>1 DEF IInv, TypeOK, LinksInFile, Database, FileLinked, RowInv
  <2>2. tbl.st = "live" /\ tbl.iterator # 0 => tbl.iterator \in RowPages(db)
    BY <1>1 DEF RowInv, HandleListed, Listed
  <2> QED
    BY <2>1, <2>2 DEF RowsLinked, RowLinks, RowPages
<1>2. IInv /\ RowInv => RowListDescends
  BY <1>1 DEF RowListDescends
<1> QED
  BY <1>2, RowInvariance, PTL

(* A step until a DROP appends rows to pages, or leaves them alone.        *)
LEMMA RowsStayInStep ==
    ASSUME IInv, IInv', RowInv, [Next]_vars,
           NothingDropped', pc # "crashed"
    PROVE  RowsStay(db, db') /\ (stmt.op # "INSERT" =>
               \A n \in 1 .. db.number_of_pages : db'.file[n].rows = db.file[n].rows)
<1>1. db \in Database /\ FileLinked(db) /\ db.number_of_pages \in Nat
  BY DEF IInv, TypeOK, LinksInFile, Database
<1>2. CASE db' = db
  BY <1>1, <1>2, SameRowsStay
<1>3. CASE InsertRow
  BY <1>3, InsertRowListed DEF InsertRow, Running
<1>4. CASE CreateTable
  <2>1. db.number_of_pages = 0
    BY <1>4, CreateKeepsStack, CreateTableListed DEF NothingDropped
  <2>2. db'.number_of_pages \in Nat
    BY DEF IInv, TypeOK, Database
  <2> QED
    BY <2>1, <2>2 DEF RowsStay
<1>5. CASE DropRowPage \/ DropTablePage
  BY <1>5, DropFrees
<1>6. CASE Idles \/ FindVisit \/ SelectPage \/ DeleteEmptyPage
  <2>1. db' = db
    BY <1>6 DEF Idles, FindVisit, SelectPage, DeleteEmptyPage, disk
  <2> QED
    BY <1>2, <2>1
<1>7. ~Restart
  BY DEF Restart
<1> QED
  BY <1>3, <1>4, <1>5, <1>6, <1>7, StepKinds

(* Until a DROP, for every failing write: no row that is stored is ever    *)
(* taken out of its page or moved, and only INSERT adds one (insertData,   *)
(* executeDelete, executeUpdate).                                          *)
THEOREM RowsAreOnlyAppended == Spec => RowsOnlyAppended
<1> DEFINE Kept ==
             /\ NothingDropped' /\ pc' # "crashed" /\ pc # "crashed"
             => /\ Len(db.file) <= Len(db'.file)
                /\ \A n \in DOMAIN db.file : IsPrefix(db.file[n].rows, db'.file[n].rows)
                /\ stmt.op # "INSERT" => \A n \in DOMAIN db.file :
                                           db'.file[n].rows = db.file[n].rows
<1>1. ASSUME IInv, RowInv, [Next]_vars PROVE Kept
  <2> SUFFICES ASSUME NothingDropped', pc # "crashed"
               PROVE  /\ Len(db.file) <= Len(db'.file)
                      /\ \A n \in DOMAIN db.file :
                           IsPrefix(db.file[n].rows, db'.file[n].rows)
                      /\ stmt.op # "INSERT" => \A n \in DOMAIN db.file :
                                                 db'.file[n].rows = db.file[n].rows
    OBVIOUS
  <2>1. IInv'
    BY <1>1, StepSafe
  <2>2. /\ Len(db.file) = db.number_of_pages
        /\ DOMAIN db.file = 1 .. db.number_of_pages
    BY <1>1 DEF IInv, TypeOK, LinksInFile, Database, FileLinked
  <2>3. Len(db'.file) = db'.number_of_pages
    BY <2>1 DEF IInv, LinksInFile, FileLinked
  <2> QED
    BY <1>1, <2>1, <2>2, <2>3, RowsStayInStep DEF RowsStay
<1>2. IInv /\ RowInv /\ [Next]_vars => [Kept]_vars
  BY <1>1
<1> QED
  BY <1>2, RowInvariance, PTL DEF Spec, RowsOnlyAppended

----------------------------------------------------------------------------
\* Modulo 2^16, free_space and the rows add up to the space of a page.
Fills(space, rows) == (space + PageBytes(rows)) % U16 = PageSpace

Accounted(d) == \A n \in RowPages(d) : Fills(d.file[n].free_space, d.file[n].rows)

AccountInv == NothingDropped => Accounted(db)

(* A new page is accounted for.                                            *)
LEMMA NewPageFills == Fills(PageSpace, <<>>)
<1>1. PageSpace % U16 = PageSpace
  BY PageSpaceType, Unwrapped
<1>2. PageSpace + PageBytes(<<>>) = PageSpace
  BY PageSpaceType, PageBytesOfNone
<1> QED
  BY <1>1, <1>2 DEF Fills

(* A page that is accounted for still is after AddRow.                     *)
LEMMA AddedRowFills ==
    ASSUME NEW space \in uint16_t, NEW rows \in Seq(Values), NEW v \in Values,
           Fills(space, rows)
    PROVE  Fills((space - (RowLen[v] + LenSize)) % U16, Append(rows, v))
<1> DEFINE n == RowLen[v] + LenSize
           b == PageBytes(rows)
<1>1. space \in Nat /\ b \in Nat
  BY RowEndsInPage, WordType
<1>2. n \in Nat /\ RowLen[v] \in Nat /\ LenSize \in Nat
  BY RowLenAssumption DEF LenSize
<1>3. PageBytes(Append(rows, v)) = b + n
  BY <1>1, <1>2, PageBytesOfAppended
<1>4. (space + b) % U16 = PageSpace
  BY DEF Fills
<1> HIDE DEF n, b
<1>5. (((space - n) % U16) + (b + n)) % U16 = (space + b) % U16
  BY <1>1, <1>2, WrappedSum
<1> QED
  BY <1>3, <1>4, <1>5 DEF Fills, n

(* insertData keeps the account of every page, whichever write fails.      *)
LEMMA InsertDataAccounted ==
    ASSUME NEW d \in Database, FileLinked(d), Numbered(d), RowsLinked(d),
           d.number_of_pages # 0, d.first_free_page = 0,
           NEW t \in Handle, HandleLinks(t) \subseteq PageNumbers(d),
           HandleListed(d, t), t.page_number = 1, Accounted(d),
           NEW v \in Values, NEW wrote \in BOOLEAN, NEW saved \in BOOLEAN
    PROVE  Accounted(insertData(d, t, v, wrote, saved).db)
<1> DEFINE e  == insertData(d, t, v, wrote, saved).db
           k  == Target(d, t)
           pg == Before(d, t)
<1>1. /\ k \in 2 .. e.number_of_pages
      /\ e.number_of_pages = IF t.free_place = 0 THEN k ELSE d.number_of_pages
      /\ e.file[k] = IF wrote THEN After(d, t, v)
                     ELSE IF t.free_place = 0 THEN RowPage(k)
                     ELSE d.file[k]
      /\ \A m \in 2 .. e.number_of_pages : m # k => e.file[m] = d.file[m]
  BY InsertDataPages
<1>2. \A m \in RowPages(e) : m # 1 /\ m \in 1 .. e.number_of_pages
  <2>1. RowsLinked(e)
    BY InsertDataListed
  <2> HIDE DEF e
  <2> QED
    BY <2>1 DEF RowsLinked, RowPages
<1>3. /\ pg \in Page
      /\ t.free_place = 0 => pg.rows = <<>> /\ pg.free_space = PageSpace
      /\ t.free_place # 0 => /\ t.free_place \in RowPages(d)
                             /\ pg.rows = d.file[t.free_place].rows
                             /\ pg.free_space = d.file[t.free_place].free_space
  BY BeforePage
<1>4. /\ k = IF t.free_place = 0 THEN d.number_of_pages + 1 ELSE t.free_place
      /\ d.number_of_pages \in Nat
  BY DEF Target, Database
<1>5. Fills(pg.free_space, pg.rows)
  BY <1>3, NewPageFills DEF Accounted
<1>6. pg.free_space \in uint16_t /\ pg.rows \in Seq(Values)
  BY <1>3 DEF Page
<1>7. Fills(After(d, t, v).free_space, After(d, t, v).rows)
  <2>1. /\ After(d, t, v).rows = Append(pg.rows, v)
        /\ After(d, t, v).free_space = (pg.free_space - (RowLen[v] + LenSize)) % U16
    BY <1>3, AfterPage
  <2> HIDE DEF pg
  <2>2. Fills((pg.free_space - (RowLen[v] + LenSize)) % U16, Append(pg.rows, v))
    BY <1>5, <1>6, AddedRowFills
  <2> QED
    BY <2>1, <2>2
<1> HIDE DEF e, k, pg
<1>8. ASSUME NEW m \in RowPages(e)
      PROVE  Fills(e.file[m].free_space, e.file[m].rows)
  <2>1. CASE m # k
    <3>1. m \in 2 .. e.number_of_pages /\ m \in 1 .. d.number_of_pages
      BY <1>1, <1>2, <1>4, <2>1
    <3>2. m \in RowPages(d) /\ e.file[m] = d.file[m]
      BY <1>1, <1>8, <2>1, <3>1 DEF RowPages
    <3> QED
      BY <3>2 DEF Accounted
  <2>2. CASE m = k /\ wrote
    <3>1. e.file[m] = After(d, t, v)
      BY <1>1, <2>2
    <3> QED
      BY <1>7, <3>1
  <2>3. CASE m = k /\ ~wrote /\ t.free_place = 0
    <3>1. e.file[m].rows = <<>> /\ e.file[m].free_space = PageSpace
      BY <1>1, <2>3 DEF RowPage
    <3> QED
      BY <3>1, NewPageFills
  <2>4. CASE m = k /\ ~wrote /\ t.free_place # 0
    <3>1. e.file[m] = d.file[m] /\ m \in RowPages(d)
      BY <1>1, <1>3, <1>4, <2>4
    <3> QED
      BY <3>1 DEF Accounted
  <2> QED
    BY <2>1, <2>2, <2>3, <2>4
<1> QED
  BY <1>8 DEF Accounted, e

(* Until a DROP free_space and the rows of a page never drift apart, which *)
(* is what lets insertData decide by free_space whether a page is full:    *)
(* for every failing write, and once the subtraction has wrapped around.   *)
LEMMA AccountStepSafe ==
    ASSUME IInv, RowInv, AccountInv, [Next]_vars PROVE AccountInv'
<1> SUFFICES ASSUME NothingDropped' PROVE Accounted(db')
  BY DEF AccountInv, Accounted, RowPages, Fills
<1>1. ASSUME db' = db PROVE Accounted(db')
  BY <1>1 DEF AccountInv, NothingDropped
<1>2. CASE Idles \/ FindVisit \/ SelectPage \/ DeleteEmptyPage
  BY <1>1, <1>2 DEF Idles, FindVisit, SelectPage, DeleteEmptyPage, disk
<1>3. CASE CreateTable
  <2>1. db.first_free_page = 0
    BY <1>3, CreateKeepsStack DEF NothingDropped
  <2>2. RowPages(db') = {}
    BY <1>3, <2>1, CreateTableListed
  <2> QED
    BY <2>2 DEF Accounted
<1>4. CASE InsertRow
  <2>1. PICK wrote \in BOOLEAN, saved \in BOOLEAN :
          db' = insertData(db, tbl, Head(todo), wrote, saved).db
    BY <1>4 DEF InsertRow
  <2>2. tbl.st = "live" /\ Head(todo) \in Values
    <3>1. todo \in Seq(Values)
      BY DEF IInv, TypeOK
    <3> QED
      BY <1>4, <3>1, HeadTailProperties DEF InsertRow, Running
  <2>3. NothingDropped
    BY <1>4, InsertRowListed
  <2>4. Accounted(db)
    BY <2>3 DEF AccountInv
  <2> QED
    BY <2>1, <2>2, <2>3, <2>4, LiveListed, InsertDataAccounted
<1>5. CASE DropRowPage \/ DropTablePage
  BY <1>5, DropFrees
<1>6. CASE Restart
  <2>1. db' = createDatabase
    BY <1>6 DEF Restart
  <2> QED
    BY <2>1 DEF createDatabase, Accounted, RowPages
<1> QED
  BY <1>2, <1>3, <1>4, <1>5, <1>6, StepKinds

(* Until a DROP, for every failing write: the free_space of a row page and *)
(* the bytes of its rows add up to the space of a page modulo 2^16         *)
(* (insertData, createRowPage).                                            *)
THEOREM FreeSpaceIsAccounted == Spec => []FreeSpaceAccounted
<1>1. Init => AccountInv
  <2>1. ASSUME Init PROVE AccountInv
    BY <2>1 DEF Init, createDatabase, AccountInv, Accounted, RowPages
  <2> QED
    BY <2>1
<1>2. IInv /\ AccountInv => FreeSpaceAccounted
  <2>1. ASSUME IInv, AccountInv, NothingDropped, NEW n \in DOMAIN db.file,
               db.file[n].page_type = "ROW_PAGE"
        PROVE  (db.file[n].free_space + PageBytes(db.file[n].rows)) % U16 = PageSpace
    <3>1. n \in RowPages(db)
      BY <2>1 DEF IInv, TypeOK, LinksInFile, Database, FileLinked, RowPages
    <3> QED
      BY <2>1, <3>1 DEF AccountInv, Accounted, Fills
  <2> QED
    BY <2>1 DEF FreeSpaceAccounted
<1>3. IInv /\ RowInv /\ AccountInv /\ [Next]_vars => AccountInv'
  BY AccountStepSafe
<1> QED
  BY <1>1, <1>2, <1>3, RowInvariance, PTL DEF Spec

----------------------------------------------------------------------------
(***************************************************************************)
(* OnlyPageOneAfterDrop of QueryEngine, as long as no write fails: page 1, *)
(* which getFreePage never takes off the free stack, is the only page any  *)
(* statement reaches once a DROP has been carried out.                     *)
(*                                                                         *)
(* The induction needs two things more: with page 1 on top of the stack,   *)
(* every link of page 1 and of the struct in use leads to page 1 or        *)
(* nowhere; and while a DROP runs, what is left of its list still leads    *)
(* down, past row pages only, so that it never frees page 1 as one of them.*)
(***************************************************************************)

Low == {0, 1}

PageLow(p) == p.next \in Low /\ p.next_free \in Low /\ p.free_place \in Low

HandleLow(t) == /\ t.iterator \in Low /\ t.first_row_page \in Low
                /\ t.free_place \in Low /\ t.next_table \in Low

PageOneFree ==
    db.first_free_page = 1 =>
        /\ db.first_table_page = 1 => PageLow(db.file[1])
        /\ tbl.st = "live" => HandleLow(tbl)

\* The row pages below page k lead down to row pages, and page 1 is none.
RowsBelow(d, k) ==
    \A n \in RowPages(d) : n < k => n # 1 /\ d.file[n].next < n /\ Listed(d, d.file[n].next)

DropDescends ==
    tbl.st = "live" /\ db.first_free_page > 1 =>
        /\ RowsBelow(db, db.first_free_page)
        /\ Listed(db, tbl.iterator) /\ tbl.iterator < db.first_free_page

DropInv == PageOneFree /\ DropDescends

----------------------------------------------------------------------------
(* The primed invariant, written with primed variables only.               *)
LEMMA PrimedDrop ==
    /\ PageOneFree' <=> (db'.first_free_page = 1 =>
                           /\ db'.first_table_page = 1 => PageLow(db'.file[1])
                           /\ tbl'.st = "live" => HandleLow(tbl'))
    /\ DropDescends' <=> (tbl'.st = "live" /\ db'.first_free_page > 1 =>
                            /\ RowsBelow(db', db'.first_free_page)
                            /\ Listed(db', tbl'.iterator)
                            /\ tbl'.iterator < db'.first_free_page)
BY DEF PageOneFree, DropDescends, PageLow, HandleLow, RowsBelow, Listed, RowPages

(* With page 1 on the free stack a new row goes to page 1, and all links   *)
(* stay low (getFreePage, getTableFreePage).                               *)
LEMMA TableFreePageLow ==
    ASSUME NEW d \in Database, FileLinked(d), Numbered(d), d.first_free_page = 1,
           PageLow(d.file[1]), NEW t \in Handle, HandleLow(t)
    PROVE  LET got == getTableFreePage(d, t)
           IN  /\ got.db.number_of_pages = d.number_of_pages
               /\ \A m \in 2 .. d.number_of_pages : got.db.file[m] = d.file[m]
               /\ PageLow(got.db.file[1])
               /\ HandleLow(got.tbl)
               /\ got.pg.page_number = 1 /\ PageLow(got.pg)
               /\ d.file[1].rows = <<>> => got.pg.rows = <<>>
<1>1. /\ d.number_of_pages \in Nat /\ Len(d.file) = d.number_of_pages
      /\ 1 \in 1 .. d.number_of_pages
  BY DEF Database, FileLinked, PageNumbers
<1>2. CASE t.free_place = 0
  <2> DEFINE row == RowPage(1)
             c   == PutPage(d, 1, row)
             u   == [t EXCEPT !.first_row_page = 1, !.free_place = 1, !.iterator = 1]
             pg  == [row EXCEPT !.next = t.first_row_page, !.next_free = t.free_place]
  <2>1. /\ row.page_number = 1 /\ row.next = 0 /\ row.next_free = 0
        /\ row.free_place = 0 /\ row.rows = <<>> /\ pg.rows = <<>>
        /\ pg.page_number = 1 /\ pg.next = t.first_row_page
        /\ pg.next_free = t.free_place /\ pg.free_place = 0
    BY DEF RowPage
  <2>2. getTableFreePage(d, t) = [db |-> c, tbl |-> u, pg |-> pg]
    <3>1. getFreePage(d) = [db |-> d, page_number |-> 1]
      BY DEF getFreePage
    <3>2. createRowPage(d) = [db |-> PutPage(d, 1, row), pg |-> row]
      BY <2>1, <3>1 DEF createRowPage
    <3>3. createRowPage(d).db = c /\ createRowPage(d).pg = RowPage(1)
      BY <3>2
    <3>4. createRowPage(d).pg.page_number = 1
      BY <2>1, <3>3
    <3> HIDE DEF c
    <3> QED
      BY <1>2, <3>3, <3>4 DEF getTableFreePage
  <2>3. row \in Page
    <3>1. <<>> \in Seq(Values)
      OBVIOUS
    <3> QED
      BY <3>1, PageSpaceType DEF RowPage, Page, PageType
  <2>4. /\ u.iterator = 1 /\ u.first_row_page = 1 /\ u.free_place = 1
        /\ u.next_table = t.next_table
    BY DEF Handle
  <2> HIDE DEF row, u, pg
  <2>5. /\ c.number_of_pages = d.number_of_pages
        /\ \A m \in 1 .. d.number_of_pages :
             c.file[m] = IF m = 1 THEN row ELSE d.file[m]
    <3>1. 1 \in Nat
      OBVIOUS
    <3>2. /\ PutPage(d, 1, row).number_of_pages = d.number_of_pages
          /\ \A m \in 1 .. Len(d.file) :
               PutPage(d, 1, row).file[m] = IF m = 1 THEN row ELSE d.file[m]
      BY <2>3, <3>1, PutPageEffect, SMTT(30)
    <3> QED
      BY <1>1, <3>2 DEF c
  <2> HIDE DEF c
  <2> QED
    BY <1>1, <2>1, <2>2, <2>4, <2>5 DEF PageLow, HandleLow, Low
<1>3. CASE t.free_place # 0
  <2> DEFINE pg == readRowPage(d, 1)
  <2>1. t.free_place = 1
    BY <1>3 DEF HandleLow, Low
  <2>2. d.file[1] \in Page /\ d.file[1].page_number = 1
    BY <1>1, PageFacts DEF Numbered
  <2>3. /\ pg.page_number = 1 /\ pg.next = d.file[1].next
        /\ pg.next_free = d.file[1].next_free /\ pg.free_place = 0
        /\ pg.rows = d.file[1].rows
    BY <2>2 DEF readRowPage, Page
  <2>4. getTableFreePage(d, t) = [db |-> d, tbl |-> t, pg |-> pg]
    BY <2>1 DEF getTableFreePage
  <2> HIDE DEF pg
  <2> QED
    BY <2>3, <2>4 DEF PageLow, Low
<1> QED
  BY <1>2, <1>3

(* A write to page 1 leaves every other page alone; page 1 is low if what  *)
(* is written is, and it was.                                              *)
LEMMA PageOneWritten ==
    ASSUME NEW d \in Database, FileLinked(d), d.number_of_pages # 0,
           NEW p \in Page, NEW ok \in BOOLEAN
    PROVE  LET e == WritePage(d, 1, p, ok)
           IN  /\ e \in Database /\ e.number_of_pages = d.number_of_pages
               /\ Len(e.file) = Len(d.file)
               /\ e.first_free_page = d.first_free_page
               /\ e.first_table_page = d.first_table_page
               /\ \A m \in 2 .. d.number_of_pages : e.file[m] = d.file[m]
               /\ e.file[1] = IF ok THEN p ELSE d.file[1]
<1> DEFINE e == WritePage(d, 1, p, ok)
<1>1. /\ d.number_of_pages \in Nat /\ Len(d.file) = d.number_of_pages
      /\ 1 \in 1 .. d.number_of_pages /\ 1 \in Nat
  BY DEF Database, FileLinked
<1>2. /\ e \in Database
      /\ e.number_of_pages = d.number_of_pages
      /\ e.first_free_page = d.first_free_page
      /\ e.first_table_page = d.first_table_page
      /\ Len(e.file) = Len(d.file)
      /\ \A m \in 1 .. Len(d.file) :
           e.file[m] = IF ok /\ m = 1 THEN p ELSE d.file[m]
  BY <1>1, WritePageEffect
<1> HIDE DEF e
<1>3. /\ \A m \in 2 .. d.number_of_pages : e.file[m] = d.file[m]
      /\ e.file[1] = IF ok THEN p ELSE d.file[1]
  BY <1>1, <1>2
<1> QED
  BY <1>2, <1>3 DEF e

(* insertData with page 1 on the free stack writes to page 1 and no other, *)
(* and keeps its links low.                                                *)
LEMMA InsertDataLow ==
    ASSUME NEW d \in Database, FileLinked(d), Numbered(d), d.first_free_page = 1,
           PageLow(d.file[1]), NEW t \in Handle,
           HandleLinks(t) \subseteq PageNumbers(d), HandleLow(t), t.page_number = 1,
           NEW v \in Values, NEW wrote \in BOOLEAN, NEW saved \in BOOLEAN
    PROVE  LET res == insertData(d, t, v, wrote, saved)
           IN  /\ res.db.number_of_pages = d.number_of_pages
               /\ \A m \in 2 .. d.number_of_pages : res.db.file[m] = d.file[m]
               /\ PageLow(res.db.file[1])
               /\ HandleLow(res.tbl)
<1> DEFINE got  == getTableFreePage(d, t)
           c    == got.db
           old  == got.pg
           u    == got.tbl
           pg   == AddRow(old, v)
           full == pg.free_space < RowSize
           pg2  == IF full THEN [pg EXCEPT !.next_free = 0] ELSE pg
           tbl2 == IF full THEN [u EXCEPT !.free_place = pg.next_free] ELSE u
           w    == WritePage(c, pg2.page_number, pg2, wrote)
           e    == saveTable(w, tbl2, wrote /\ saved)
<1>1. /\ Grown(d, c) /\ old \in Page /\ u \in Handle /\ u.page_number = 1
  BY TableFreePageEffect DEF SameTable
<1>2. /\ c.number_of_pages = d.number_of_pages
      /\ \A m \in 2 .. d.number_of_pages : c.file[m] = d.file[m]
      /\ PageLow(c.file[1])
      /\ HandleLow(u)
      /\ old.page_number = 1 /\ PageLow(old)
  BY TableFreePageLow
<1>3. insertData(d, t, v, wrote, saved) = [db |-> e, tbl |-> tbl2]
  BY DEF insertData
<1> HIDE DEF got, c, old, u
<1>4. /\ c \in Database /\ FileLinked(c) /\ c.number_of_pages # 0
  BY <1>1, <1>2 DEF Grown, FileLinked, PageNumbers, Database
<1>5. pg \in Page /\ pg.page_number = 1 /\ PageLow(pg)
  <2>1. pg \in Page /\ pg.page_number = 1
    BY <1>1, <1>2, AddRowEffect
  <2>2. pg.next = old.next /\ pg.next_free = old.next_free /\ pg.free_place = old.free_place
    BY <1>1 DEF AddRow, Page
  <2> QED
    BY <1>2, <2>1, <2>2 DEF PageLow
<1> HIDE DEF pg, full
<1>6. pg2 \in Page /\ pg2.page_number = 1 /\ PageLow(pg2)
  BY <1>5 DEF PageLow, Page, Low
<1>7. tbl2 \in Handle /\ tbl2.page_number = 1 /\ HandleLow(tbl2)
  BY <1>1, <1>2, <1>5 DEF PageLow, HandleLow, Handle, Low
<1> HIDE DEF pg2, tbl2
<1>8. /\ w \in Database /\ w.number_of_pages = d.number_of_pages
      /\ \A m \in 2 .. d.number_of_pages : w.file[m] = d.file[m]
      /\ PageLow(w.file[1])
  <2>1. w = WritePage(c, 1, pg2, wrote)
    BY <1>6
  <2> HIDE DEF w
  <2> QED
    BY <1>2, <1>4, <1>6, <2>1, PageOneWritten
<1>9. FileLinked(w)
  <2>1. PageLinks(pg2) \subseteq PageNumbers(c)
    <3>1. 0 \in PageNumbers(c)
      BY <1>4 DEF PageNumbers, Database
    <3>2. PageLinks(old) \subseteq PageNumbers(c)
      BY TableFreePageEffect DEF old, c, got
    <3>3. PageLinks(pg) = PageLinks(old)
      BY <1>1, AddRowEffect DEF pg
    <3> QED
      BY <1>5, <3>1, <3>2, <3>3 DEF pg2, PageLinks, Page
  <2>2. pg2.page_number \in Nat
    BY <1>6
  <2>3. Grown(c, w)
    BY <1>4, <1>6, <2>1, <2>2, WritePageLinked DEF w
  <2> QED
    BY <2>3 DEF Grown
<1> HIDE DEF w
<1>10. /\ TablePage(tbl2) \in Page /\ PageLow(TablePage(tbl2))
  BY <1>7, TablePageEffect DEF TablePage, PageLow, HandleLow
<1>11. /\ e.number_of_pages = d.number_of_pages
       /\ \A m \in 2 .. d.number_of_pages : e.file[m] = d.file[m]
       /\ PageLow(e.file[1])
  <2> DEFINE ok == wrote /\ saved
  <2>1. e = WritePage(w, 1, TablePage(tbl2), ok) /\ ok \in BOOLEAN
    BY <1>7 DEF saveTable
  <2>2. w.number_of_pages # 0
    BY <1>2, <1>4, <1>8
  <2> HIDE DEF e, ok
  <2> QED
    BY <1>8, <1>9, <1>10, <2>1, <2>2, PageOneWritten
<1> HIDE DEF e
<1> QED
  BY <1>3, <1>7, <1>11

----------------------------------------------------------------------------
\* The next state, read off db' and tbl'.
DropInvNext ==
    /\ db'.first_free_page = 1 =>
         /\ db'.first_table_page = 1 => PageLow(db'.file[1])
         /\ tbl'.st = "live" => HandleLow(tbl')
    /\ tbl'.st = "live" /\ db'.first_free_page > 1 =>
         /\ RowsBelow(db', db'.first_free_page)
         /\ Listed(db', tbl'.iterator)
         /\ tbl'.iterator < db'.first_free_page

(* A step without a write whose struct, if it has one, is linked as before.*)
LEMMA NoWriteDrop ==
    ASSUME IInv, DropInv, db' = db,
           \/ tbl' \in {NullHandle, tbl}
           \/ /\ stmt.op # "DROP" \/ pc = "find"
              /\ pc \in {"find", "run"}
              /\ db.first_free_page = 1 /\ tbl'.st = "live" => HandleLow(tbl')
    PROVE  DropInvNext
<1>1. NullHandle.st # "live"
  BY DEF NullHandle
<1>2. CASE tbl' \in {NullHandle, tbl}
  BY <1>1, <1>2 DEF DropInv, PageOneFree, DropDescends, DropInvNext
<1>3. CASE /\ stmt.op # "DROP" \/ pc = "find"
           /\ pc \in {"find", "run"}
           /\ db.first_free_page = 1 /\ tbl'.st = "live" => HandleLow(tbl')
  <2>1. db.first_free_page \in {0, 1}
    BY <1>3 DEF IInv, TableAtPageOne, Running
  <2> QED
    BY <1>3, <2>1 DEF DropInv, PageOneFree, DropInvNext
<1> QED
  BY <1>2, <1>3

(* A visit of findTable keeps DropInv.                                     *)
LEMMA FindVisitDrop == ASSUME IInv, DropInv, FindVisit PROVE DropInvNext
<1> DEFINE t == readTable(db, cursor)
<1>1. db' = db /\ pc = "find" /\ cursor # 0
  BY DEF FindVisit, disk
<1>2. /\ db \in Database /\ FileLinked(db) /\ db.number_of_pages \in Nat
      /\ PagesAtHome(db) /\ stmt.name \in Names /\ db.first_table_page = 1
  BY <1>1 DEF IInv, TypeOK, LinksInFile, TableAtPageOne, Database, Statement
<1>3. cursor \in 1 .. db.number_of_pages /\ cursor \in DOMAIN db.file
  <2>1. cursor \in 0 .. db.number_of_pages
    BY DEF IInv, LinksInFile, PageNumbers
  <2> QED
    BY <1>1, <1>2, <2>1 DEF FileLinked, Database
<1>4. /\ t \in Handle /\ t.name = db.file[cursor].name
      /\ t.iterator = db.file[cursor].next_free
      /\ t.first_row_page = db.file[cursor].next_free
      /\ t.free_place = db.file[cursor].free_place
      /\ t.next_table = db.file[cursor].next
  BY <1>2, <1>3, ReadTableEffect DEF readTable
<1>5. ASSUME db.first_free_page = 1, tbl'.st = "live" PROVE HandleLow(tbl')
  <2>1. CASE t.name = stmt.name
    <3>1. tbl' = t
      BY <2>1 DEF FindVisit
    <3> HIDE DEF t
    <3>2. cursor = 1
      BY <1>2, <1>3, <1>4, <2>1, NamesAssumption DEF PagesAtHome
    <3> QED
      BY <1>2, <1>4, <1>5, <3>1, <3>2 DEF DropInv, PageOneFree, PageLow, HandleLow
  <2>2. CASE t.name # stmt.name
    <3>1. tbl' = [t EXCEPT !.st = "freed"]
      BY <2>2 DEF FindVisit
    <3> HIDE DEF t
    <3>2. tbl'.st = "freed"
      BY <1>4, <3>1 DEF Handle
    <3> QED
      BY <1>5, <3>2
  <2> QED
    BY <2>1, <2>2
<1> QED
  BY <1>1, <1>5, NoWriteDrop

(* A visit of SELECT or DELETE to a row page keeps DropInv.                *)
LEMMA ScanDrop == ASSUME IInv, DropInv, SelectPage \/ DeleteEmptyPage PROVE DropInvNext
<1>1. /\ tbl.st = "live" /\ tbl.iterator # 0 /\ db' = db
      /\ stmt.op # "DROP" /\ pc = "run"
      /\ tbl' = [tbl EXCEPT !.iterator = db.file[tbl.iterator].next]
  BY DEF SelectPage, DeleteEmptyPage, AtPage, Scanning, Running, Reads, NextPage, disk
<1>2. tbl \in Handle /\ db.first_table_page = 1
  BY <1>1, LiveFacts
<1>3. ASSUME db.first_free_page = 1 PROVE HandleLow(tbl')
  <2>1. tbl.iterator = 1 /\ HandleLow(tbl) /\ PageLow(db.file[1])
    BY <1>1, <1>2, <1>3 DEF DropInv, PageOneFree, HandleLow, Low
  <2> QED
    BY <1>1, <1>2, <2>1 DEF HandleLow, PageLow, Handle
<1> QED
  BY <1>1, <1>3, NoWriteDrop

(* An INSERT keeps DropInv, and writes page 1 only once page 1 is free.    *)
LEMMA InsertDrop ==
    ASSUME IInv, DropInv, InsertRow
    PROVE  /\ DropInvNext
           /\ db.first_free_page = 1 =>
                /\ db'.first_free_page = 1
                /\ db'.number_of_pages = db.number_of_pages
                /\ \A n \in 2 .. db.number_of_pages : db'.file[n] = db.file[n]
<1> DEFINE v == Head(todo)
<1>1. PICK wrote \in BOOLEAN, saved \in BOOLEAN :
        LET res == insertData(db, tbl, v, wrote, saved)
        IN  /\ db' = res.db
            /\ tbl' = res.tbl \/ set_result("INTERNAL_ERROR")
  BY DEF InsertRow
<1>2. tbl.st = "live" /\ v \in Values /\ stmt.op # "DROP"
  <2>1. todo \in Seq(Values)
    BY DEF IInv, TypeOK
  <2> QED
    BY <2>1, HeadTailProperties DEF InsertRow, Running
<1> HIDE DEF v
<1> DEFINE res == insertData(db, tbl, v, wrote, saved)
<1>3. /\ db \in Database /\ FileLinked(db) /\ Numbered(db)
      /\ tbl \in Handle /\ HandleLinks(tbl) \subseteq PageNumbers(db)
      /\ tbl.page_number = 1 /\ db.first_table_page = 1
      /\ db.first_free_page \in {0, 1}
  BY <1>2, LiveFacts
<1>4. res.db.first_free_page = db.first_free_page
  BY <1>2, <1>3, InsertDataEffect
<1>5. db.first_free_page = 1 =>
        /\ res.db.number_of_pages = db.number_of_pages
        /\ \A m \in 2 .. db.number_of_pages : res.db.file[m] = db.file[m]
        /\ PageLow(res.db.file[1])
        /\ HandleLow(res.tbl)
  BY <1>2, <1>3, InsertDataLow DEF DropInv, PageOneFree
<1>6. db' = res.db /\ (tbl' = res.tbl \/ tbl' = NullHandle)
  BY <1>1 DEF set_result, Return, ClearLocals
<1> HIDE DEF res
<1>7. NullHandle.st # "live"
  BY DEF NullHandle
<1> QED
  BY <1>3, <1>4, <1>5, <1>6, <1>7 DEF DropInvNext

(* What freeRowPage writes, and where.                                     *)
LEMMA FreedPage ==
    ASSUME NEW d \in Database, FileLinked(d), NEW pg \in Page, NEW ok \in BOOLEAN
    PROVE  LET e == freeRowPage(d, pg, ok)
           IN  \E freed \in Page :
                 /\ freed.page_type = "FREE_PAGE" /\ freed.next = d.first_free_page
                 /\ freed.next_free = pg.next_free /\ freed.free_place = pg.free_place
                 /\ freed.rows = <<>>
                 /\ \A m \in 1 .. d.number_of_pages :
                      e.file[m] = IF ok /\ m = pg.page_number THEN freed ELSE d.file[m]
<1> DEFINE freed == [pg EXCEPT !.page_type = "FREE_PAGE",
                               !.next = d.first_free_page, !.rows = <<>>]
           w == WritePage(d, pg.page_number, freed, ok)
<1>1. /\ freed \in Page
      /\ freed.page_type = "FREE_PAGE" /\ freed.next = d.first_free_page
      /\ freed.next_free = pg.next_free /\ freed.free_place = pg.free_place
      /\ freed.rows = <<>>
  <2>1. <<>> \in Seq(Values) /\ d.first_free_page \in Nat
    BY DEF Database
  <2> QED
    BY <2>1 DEF Page, PageType
<1>2. freeRowPage(d, pg, ok) = [w EXCEPT !.first_free_page = pg.page_number]
  BY DEF freeRowPage
<1> HIDE DEF freed
<1>3. /\ w \in Database
      /\ \A m \in 1 .. d.number_of_pages :
           w.file[m] = IF ok /\ m = pg.page_number THEN freed ELSE d.file[m]
  <2>1. pg.page_number \in Nat /\ Len(d.file) = d.number_of_pages
    BY DEF Page, FileLinked
  <2> QED
    BY <1>1, <2>1, WritePageEffect, SMTT(30)
<1> HIDE DEF w
<1>4. freeRowPage(d, pg, ok).file = w.file
  BY <1>2, <1>3 DEF Database
<1> QED
  BY <1>1, <1>3, <1>4

(* DROP frees pages further and further down, never page 1 as a row page   *)
(* unless it is on top of the stack already.                               *)
LEMMA DropRowPageDrop ==
    ASSUME IInv, RowInv, DropInv, DropRowPage
    PROVE  /\ DropInvNext
           /\ db.first_free_page = 1 =>
                /\ db'.first_free_page = 1
                /\ db'.number_of_pages = db.number_of_pages
                /\ \A n \in 2 .. db.number_of_pages : db'.file[n] = db.file[n]
<1> DEFINE k  == tbl.iterator
           pg == readRowPage(db, k)
<1>1. PICK ok \in BOOLEAN : db' = freeRowPage(db, pg, ok)
  BY DEF DropRowPage
<1>2. tbl.st = "live" /\ k # 0 /\ tbl' = [tbl EXCEPT !.iterator = pg.next]
  BY DEF DropRowPage, Running, Reads
<1>3. /\ db \in Database /\ FileLinked(db) /\ Numbered(db)
      /\ db.number_of_pages \in Nat /\ db.first_free_page \in Nat
      /\ tbl \in Handle /\ db.first_table_page = 1
      /\ k \in 1 .. db.number_of_pages
  BY <1>2, LiveFacts DEF Database
<1>4. /\ pg \in Page /\ PageLinks(pg) \subseteq PageNumbers(db)
      /\ pg.page_number = k /\ pg.next = db.file[k].next
      /\ pg.next_free = db.file[k].next_free /\ pg.free_place = 0
  <2>1. db.file[k] \in Page
    BY <1>3, PageFacts
  <2>2. pg.next_free = db.file[k].next_free /\ pg.free_place = 0
    BY <2>1 DEF readRowPage, Page
  <2> QED
    BY <1>3, <2>2, ReadRowPageEffect DEF Numbered
<1>5. tbl'.iterator = db.file[k].next /\ tbl'.st = "live"
      /\ tbl'.first_row_page = tbl.first_row_page /\ tbl'.free_place = tbl.free_place
      /\ tbl'.next_table = tbl.next_table
  BY <1>2, <1>3, <1>4 DEF Handle
<1> HIDE DEF pg
<1>6. /\ db'.number_of_pages = db.number_of_pages
      /\ db'.first_free_page = k /\ db'.first_table_page = 1
  BY <1>1, <1>3, <1>4, FreeRowPageEffect
<1>7. PICK freed \in Page :
        /\ freed.page_type = "FREE_PAGE" /\ freed.next = db.first_free_page
        /\ freed.next_free = db.file[k].next_free /\ freed.free_place = 0
        /\ \A m \in 1 .. db.number_of_pages :
             db'.file[m] = IF ok /\ m = k THEN freed ELSE db.file[m]
  BY <1>1, <1>3, <1>4, FreedPage
<1>8. CASE db.first_free_page = 1
  <2>1. k = 1 /\ HandleLow(tbl) /\ PageLow(db.file[1])
    BY <1>2, <1>3, <1>8 DEF DropInv, PageOneFree, HandleLow, Low
  <2>2. PageLow(db'.file[1]) /\ HandleLow(tbl')
    BY <1>3, <1>5, <1>7, <1>8, <2>1 DEF PageLow, HandleLow, Low
  <2> QED
    BY <1>3, <1>6, <1>7, <2>1, <2>2 DEF DropInvNext
<1>9. CASE db.first_free_page # 1
  <2>1. /\ k \in RowPages(db) /\ k # 1
        /\ db.file[k].next < k /\ Listed(db, db.file[k].next)
        /\ RowsBelow(db, k)
    <3>1. CASE db.first_free_page = 0
      BY <1>2, <3>1 DEF RowInv, NothingDropped, HandleListed, Listed, RowsLinked,
                       RowLinks, RowsBelow
    <3>2. CASE db.first_free_page > 1
      <4>1. /\ RowsBelow(db, db.first_free_page)
            /\ k \in RowPages(db) /\ k < db.first_free_page
        BY <1>2, <3>2 DEF DropInv, DropDescends, Listed
      <4>2. RowsBelow(db, k)
        BY <1>3, <4>1 DEF RowsBelow, RowPages
      <4> QED
        BY <4>1, <4>2 DEF RowsBelow
    <3> QED
      BY <1>3, <1>9, <3>1, <3>2
  <2>2. \A m \in 1 .. db.number_of_pages :
          m < k => db'.file[m] = db.file[m]
    BY <1>3, <1>7
  <2>3. \A m : m < k => (Listed(db, m) => Listed(db', m))
    BY <1>6, <2>2 DEF Listed, RowPages
  <2>4. RowsBelow(db', k)
    <3>1. ASSUME NEW n \in RowPages(db'), n < k
          PROVE  n # 1 /\ db'.file[n].next < n /\ Listed(db', db'.file[n].next)
      <4>1. n \in RowPages(db) /\ db'.file[n] = db.file[n] /\ n \in Nat
        BY <1>6, <2>2, <3>1 DEF RowPages
      <4>2. n # 1 /\ db.file[n].next < n /\ Listed(db, db.file[n].next)
        BY <2>1, <3>1, <4>1 DEF RowsBelow
      <4>3. db.file[n].next \in Nat
        BY <4>1, <1>3, PageFacts DEF RowPages, Page
      <4>4. db.file[n].next < k
        BY <1>3, <3>1, <4>1, <4>2, <4>3
      <4> QED
        BY <2>3, <4>1, <4>2, <4>4
    <3> QED
      BY <3>1 DEF RowsBelow
  <2> QED
    BY <1>3, <1>5, <1>6, <1>9, <2>1, <2>3, <2>4 DEF DropInvNext
<1> QED
  BY <1>8, <1>9

(* The end of DROP writes page 1, and leaves no table.                     *)
LEMMA DropTablePageDrop ==
    ASSUME IInv, DropTablePage
    PROVE  /\ DropInvNext
           /\ db.first_free_page = 1 =>
                /\ db'.first_free_page = 1
                /\ db'.number_of_pages = db.number_of_pages
                /\ \A n \in 2 .. db.number_of_pages : db'.file[n] = db.file[n]
<1>1. PICK ok \in BOOLEAN : db' = freeTablePage(db, tbl, ok)
  BY DEF DropTablePage
<1>2. /\ tbl.st = "live" /\ tbl' = NullHandle
  BY DEF DropTablePage, Running, set_result, Return, ClearLocals
<1>3. /\ db \in Database /\ FileLinked(db) /\ db.number_of_pages \in Nat
      /\ tbl \in Handle /\ HandleLinks(tbl) \subseteq PageNumbers(db)
      /\ tbl.page_number = 1 /\ tbl.prev_table = 0
  BY <1>2, LiveFacts
<1>4. /\ db'.number_of_pages = db.number_of_pages
      /\ db'.first_free_page = 1 /\ db'.first_table_page = 0
  BY <1>1, <1>3, FreeTablePageEffect
<1> DEFINE d  == [db EXCEPT !.first_table_page = tbl.prev_table]
           pg == [ZeroPage EXCEPT !.page_number = tbl.page_number]
<1>5. /\ d \in Database /\ FileLinked(d)
      /\ d.number_of_pages = db.number_of_pages /\ d.file = db.file
  BY <1>3 DEF Database, FileLinked, PageNumbers
<1>6. pg \in Page /\ pg.page_number = 1
  BY <1>3, ZeroPageType DEF Page
<1>7. db' = freeRowPage(d, pg, ok)
  BY <1>1 DEF freeTablePage
<1> HIDE DEF d, pg
<1>8. \A n \in 2 .. db.number_of_pages : db'.file[n] = db.file[n]
  <2>1. PICK freed \in Page : \A m \in 1 .. d.number_of_pages :
          db'.file[m] = IF ok /\ m = pg.page_number THEN freed ELSE d.file[m]
    BY <1>5, <1>6, <1>7, FreedPage
  <2> QED
    BY <1>3, <1>5, <1>6, <2>1
<1> QED
  BY <1>2, <1>4, <1>8 DEF DropInvNext, NullHandle

(* CREATE with page 1 on the stack writes it anew, with no links, if the   *)
(* write succeeds.                                                         *)
LEMMA CreateDrop ==
    ASSUME MaxFaults = 0, IInv, CreateTable
    PROVE  /\ DropInvNext
           /\ db.first_free_page = 1 =>
                /\ db'.first_free_page = 1
                /\ db'.number_of_pages = db.number_of_pages
                /\ \A n \in 2 .. db.number_of_pages : db'.file[n] = db.file[n]
<1>1. /\ db' = createTable(db, stmt.name, TRUE) /\ tbl' = NullHandle
  <2>1. PICK saved \in BOOLEAN :
          /\ Writes(saved)
          /\ db' = createTable(db, stmt.name, saved)
          /\ set_result("OK") \/ set_result("INTERNAL_ERROR")
    BY DEF CreateTable
  <2>2. saved = TRUE
    <3>1. faults \in 0 .. MaxFaults
      BY DEF IInv, TypeOK
    <3> QED
      BY <2>1, <3>1 DEF Writes
  <2> QED
    BY <2>1, <2>2 DEF set_result, Return, ClearLocals
<1>2. /\ db \in Database /\ FileLinked(db) /\ db.number_of_pages \in Nat
      /\ stmt.name \in Names /\ db.first_table_page = 0
  BY DEF IInv, TypeOK, LinksInFile, TableAtPageOne, CreateTable, Running,
         Statement, Database
<1>3. db'.first_free_page = db.first_free_page
  BY <1>1, <1>2, CreateTableEffect
<1>4. NullHandle.st # "live"
  BY DEF NullHandle
<1>5. CASE db.first_free_page = 1
  <2> DEFINE h == [st |-> "live", name |-> stmt.name, page_number |-> 1,
                   next_table |-> db.first_table_page,
                   prev_table |-> db.first_table_page,
                   first_row_page |-> 0, free_place |-> 0, iterator |-> 0]
             e == WritePage(db, 1, TablePage(h), TRUE)
  <2>1. getFreePage(db) = [db |-> db, page_number |-> 1]
    BY <1>5 DEF getFreePage
  <2>2. h \in Handle
    BY <1>2 DEF Handle
  <2>3. db' = [e EXCEPT !.first_table_page = 1]
    BY <1>1, <2>1 DEF createTable, saveTable
  <2>4. TablePage(h) \in Page /\ PageLow(TablePage(h))
    BY <1>2, <2>2, TablePageEffect DEF TablePage, PageLow, Low
  <2> HIDE DEF h
  <2>5. db.number_of_pages # 0
    BY <1>2, <1>5 DEF FileLinked, PageNumbers
  <2>6. /\ e \in Database /\ e.number_of_pages = db.number_of_pages
        /\ \A m \in 2 .. db.number_of_pages : e.file[m] = db.file[m]
        /\ e.file[1] = TablePage(h)
    BY <1>2, <2>4, <2>5, PageOneWritten
  <2> HIDE DEF e
  <2>7. /\ db'.number_of_pages = e.number_of_pages /\ db'.file = e.file
    BY <2>3, <2>6 DEF Database
  <2> QED
    BY <1>1, <1>3, <1>4, <1>5, <2>4, <2>6, <2>7 DEF DropInvNext
<1>6. CASE db.first_free_page # 1
  BY <1>1, <1>3, <1>4, <1>6 DEF DropInvNext
<1> QED
  BY <1>5, <1>6

(* A server started anew keeps DropInv: its file is new.                   *)
LEMMA RestartDrop == ASSUME IInv, Restart PROVE DropInvNext
<1>1. db' = createDatabase
  BY DEF Restart
<1> QED
  BY <1>1 DEF createDatabase, DropInvNext

----------------------------------------------------------------------------
(* The strengthened invariant is kept by every step.                       *)
LEMMA DropStepSafe ==
    ASSUME MaxFaults = 0, IInv, RowInv, DropInv, [Next]_vars
    PROVE  DropInv'
<1>1. DropInvNext
  <2>1. CASE Idles
    BY <2>1, NoWriteDrop DEF Idles
  <2> QED
    BY <2>1, StepKinds, FindVisitDrop, CreateDrop, InsertDrop, DropRowPageDrop,
       DropTablePageDrop, ScanDrop, RestartDrop
<1> QED
  BY <1>1, PrimedDrop DEF DropInv, DropInvNext

(* DropInv holds of a new file.                                            *)
LEMMA DropInit == ASSUME Init PROVE DropInv
BY DEF Init, createDatabase, DropInv, PageOneFree, DropDescends

(* DropInv is an invariant of an engine no write of which fails: once      *)
(* page 1 is on top of the free stack, page 1 and the live struct lead     *)
(* to no other page, and what a DROP has yet to free descends.             *)
THEOREM DropInvariance ==
    ASSUME MaxFaults = 0 PROVE Spec => [](IInv /\ RowInv /\ DropInv)
BY InitSafe, StepSafe, RowInit, RowStepSafe, DropInit, DropStepSafe, PTL DEF Spec

(* As long as no write fails: once a DROP has been carried out the file    *)
(* never grows, and no page but page 1 is written again, by any sequence   *)
(* of statements (getFreePage returns the top of the stack and leaves it). *)
THEOREM PageOneOnlyAfterDrop == ASSUME MaxFaults = 0 PROVE Spec => OnlyPageOneAfterDrop
<1> DEFINE Kept == db.first_free_page = 1 /\ pc # "crashed" =>
          /\ db'.first_free_page = 1
          /\ db'.number_of_pages = db.number_of_pages
          /\ \A n \in 2 .. Len(db.file) : db'.file[n] = db.file[n]
<1>1. ASSUME IInv, RowInv, DropInv, [Next]_vars PROVE Kept
  <2> SUFFICES ASSUME db.first_free_page = 1, pc # "crashed"
               PROVE  /\ db'.first_free_page = 1
                      /\ db'.number_of_pages = db.number_of_pages
                      /\ \A n \in 2 .. Len(db.file) : db'.file[n] = db.file[n]
    OBVIOUS
  <2>1. Len(db.file) = db.number_of_pages
    BY <1>1 DEF IInv, LinksInFile, FileLinked
  <2>2. CASE Idles \/ FindVisit \/ SelectPage \/ DeleteEmptyPage
    BY <2>2 DEF Idles, FindVisit, SelectPage, DeleteEmptyPage, disk
  <2>3. CASE CreateTable \/ InsertRow \/ DropRowPage \/ DropTablePage
    BY <1>1, <2>1, <2>3, CreateDrop, InsertDrop, DropRowPageDrop, DropTablePageDrop
  <2>4. ~Restart
    BY DEF Restart
  <2> QED
    BY <1>1, <2>2, <2>3, <2>4, StepKinds
<1>2. IInv /\ RowInv /\ DropInv /\ [Next]_vars => [Kept]_vars
  BY <1>1
<1> QED
  BY <1>2, DropInvariance, PTL DEF Spec, OnlyPageOneAfterDrop
=============================================================================
