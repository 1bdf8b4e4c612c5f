-------------------------- MODULE TableStore_proofs --------------------------
(***************************************************************************)
(* Safety of TableStore for every set of rows, lengths and bounds.         *)
(*                                                                         *)
(* A call writes each page under the number the page itself bears, or adds *)
(* a zero page: Rewrites.  What holds of every page a call writes, of zero *)
(* pages and of the pages there were holds of the file afterwards.         *)
(*                                                                         *)
(* Shapes is the inductive invariant all others rest on.  To it are added, *)
(* one for each theorem: SpaceInv and Fits (free_space), CopyInv and       *)
(* PagesInv (what closeDatabase has copied), RowInv (how often a row is    *)
(* anywhere in the file).                                                  *)
(***************************************************************************)
EXTENDS TableStoreProperties, Pages_proofs

\* e is d with pages of P written where they belong, and with zero pages.
Rewrites(d, e, P) ==
    /\ e \in Database
    /\ Len(d.file) <= Len(e.file)
    /\ \A n \in 1 .. Len(e.file) :
         \/ n \in 1 .. Len(d.file) /\ e.file[n] = d.file[n]
         \/ e.file[n] = ZeroPage
         \/ e.file[n] \in P /\ e.file[n].page_number = n

\* The pages of TableStore: no page knows the page before it.
Onward == {p \in Page : p.prev = 0}

SameLists(d, e) ==
    e.first_free_page = d.first_free_page /\ e.first_table_page = d.first_table_page

----------------------------------------------------------------------------
(* One member of a sequence is replaced, or none.                          *)
LEMMA PutEffect ==
    ASSUME NEW S, NEW f \in Seq(S), NEW n, NEW p, n \in DOMAIN f => p \in S
    PROVE  LET g == [f EXCEPT ![n] = p]
           IN  /\ g \in Seq(S) /\ Len(g) = Len(f)
               /\ \A m \in 1 .. Len(f) : g[m] = IF m = n THEN p ELSE f[m]
<1>1. DOMAIN f = 1 .. Len(f)
  BY LenProperties
<1>2. CASE n \in 1 .. Len(f)
  BY <1>1, <1>2, ExceptSeq
<1>3. CASE n \notin 1 .. Len(f)
  <2>1. [f EXCEPT ![n] = p] = f
    BY <1>1, <1>3
  <2> QED
    BY <1>3, <2>1
<1> QED
  BY <1>2, <1>3

(* What is not written is rewritten with no pages at all.                  *)
LEMMA RewritesItself ==
    ASSUME NEW d \in Database, NEW P PROVE Rewrites(d, d, P)
<1>1. Len(d.file) \in Nat
  BY LenProperties DEF Database
<1> QED
  BY <1>1 DEF Rewrites

(* One call after the other.                                               *)
LEMMA RewritesTwice ==
    ASSUME NEW d \in Database, NEW e, NEW h, NEW P, NEW Q,
           Rewrites(d, e, P), Rewrites(e, h, Q)
    PROVE  Rewrites(d, h, P \cup Q)
<1>1. /\ Len(d.file) \in Nat /\ Len(e.file) \in Nat /\ Len(h.file) \in Nat
      /\ h \in Database
      /\ Len(d.file) <= Len(e.file) /\ Len(e.file) <= Len(h.file)
  BY LenProperties DEF Rewrites, Database
<1>2. ASSUME NEW n \in 1 .. Len(h.file)
      PROVE  \/ n \in 1 .. Len(d.file) /\ h.file[n] = d.file[n]
             \/ h.file[n] = ZeroPage
             \/ h.file[n] \in P \cup Q /\ h.file[n].page_number = n
  <2>1. CASE n \in 1 .. Len(e.file) /\ h.file[n] = e.file[n]
    BY <2>1 DEF Rewrites
  <2> QED
    BY <2>1 DEF Rewrites
<1> QED
  BY <1>1, <1>2 DEF Rewrites

(* Any page of a larger set may be written.                                *)
LEMMA RewritesMore ==
    ASSUME NEW d, NEW e, NEW P, NEW Q, Rewrites(d, e, P), P \subseteq Q
    PROVE  Rewrites(d, e, Q)
BY DEF Rewrites

(* writeRowPage and saveTable write a page under its number, or fail.      *)
LEMMA WriteRewrites ==
    ASSUME NEW d \in Database, NEW p \in Page, NEW ok \in BOOLEAN
    PROVE  LET e == WritePage(d, p.page_number, p, ok)
           IN  /\ Rewrites(d, e, {p})
               /\ SameLists(d, e) /\ e.number_of_pages = d.number_of_pages
               /\ Len(e.file) = Len(d.file)
               /\ ok => \A n \in 1 .. Len(d.file) : n = p.page_number => e.file[n] = p
<1> DEFINE n == p.page_number
           e == WritePage(d, n, p, ok)
<1>1. n \in Nat /\ Len(d.file) \in Nat
  BY LenProperties DEF Page, Database
<1>2. /\ e \in Database
      /\ e.number_of_pages = d.number_of_pages
      /\ e.first_free_page = d.first_free_page
      /\ e.first_table_page = d.first_table_page
      /\ Len(e.file) = Len(d.file)
      /\ \A m \in 1 .. Len(d.file) :
           e.file[m] = IF ok /\ m = n THEN p ELSE d.file[m]
  BY <1>1, WritePageEffect
<1> HIDE DEF e
<1>3. \A m \in 1 .. Len(e.file) :
          \/ m \in 1 .. Len(d.file) /\ e.file[m] = d.file[m]
          \/ e.file[m] \in {p} /\ e.file[m].page_number = m
  BY <1>1, <1>2
<1> QED
  BY <1>1, <1>2, <1>3 DEF Rewrites, SameLists, e

(* createPage adds a zero page, or makes one of the pages there are zero.  *)
LEMMA CreatePageRewrites ==
    ASSUME NEW d \in Database
    PROVE  LET e == createPage(d)
           IN  /\ Rewrites(d, e, {})
               /\ SameLists(d, e) /\ e.number_of_pages = d.number_of_pages + 1
               /\ Len(e.file) # 0
<1> DEFINE n == d.number_of_pages + 1
           f == IF n \in DOMAIN d.file THEN [d.file EXCEPT ![n] = ZeroPage]
                ELSE Append(d.file, ZeroPage)
           e == [d EXCEPT !.number_of_pages = n, !.file = f]
<1>1. createPage(d) = e
  BY DEF createPage
<1>2. d.file \in Seq(Page) /\ Len(d.file) \in Nat /\ n \in Nat
  BY LenProperties DEF Database
<1>3. /\ f \in Seq(Page) /\ Len(f) \in Nat /\ Len(d.file) <= Len(f) /\ Len(f) # 0
      /\ \A m \in 1 .. Len(f) : \/ m \in 1 .. Len(d.file) /\ f[m] = d.file[m]
                                \/ f[m] = ZeroPage
  <2>1. CASE n \in DOMAIN d.file
    <3> DEFINE g == [d.file EXCEPT ![n] = ZeroPage]
    <3>1. /\ g \in Seq(Page) /\ Len(g) = Len(d.file)
          /\ \A m \in 1 .. Len(d.file) : g[m] = IF m = n THEN ZeroPage ELSE d.file[m]
      BY <1>2, ZeroPageType, PutEffect
    <3>2. f = g
      BY <2>1
    <3>3. n \in 1 .. Len(d.file)
      BY <1>2, <2>1, LenProperties
    <3> HIDE DEF f, g, n
    <3> QED
      BY <1>2, <3>1, <3>2, <3>3
  <2>2. CASE n \notin DOMAIN d.file
    <3> DEFINE g == Append(d.file, ZeroPage)
    <3>1. /\ g \in Seq(Page) /\ Len(g) = Len(d.file) + 1
          /\ \A m \in 1 .. Len(d.file) : g[m] = d.file[m]
          /\ g[Len(d.file) + 1] = ZeroPage
      BY <1>2, ZeroPageType, AppendProperties
    <3>2. f = g
      BY <2>2
    <3> HIDE DEF f, g, n
    <3> QED
      BY <1>2, <3>1, <3>2
  <2> QED
    BY <2>1, <2>2
<1> HIDE DEF f, n
<1>4. /\ e \in Database /\ e.file = f /\ e.number_of_pages = n
      /\ e.first_free_page = d.first_free_page
      /\ e.first_table_page = d.first_table_page
  BY <1>2, <1>3 DEF Database
<1> HIDE DEF e
<1> QED
  BY <1>1, <1>3, <1>4 DEF Rewrites, SameLists, n

(* getFreePage writes no page but a zero page.                             *)
LEMMA GetFreePageRewrites ==
    ASSUME NEW d \in Database
    PROVE  LET got == getFreePage(d)
           IN  /\ Rewrites(d, got.db, {}) /\ SameLists(d, got.db)
               /\ got.page_number \in Nat
               /\ got.db.number_of_pages = IF d.first_free_page # 0
                                           THEN d.number_of_pages
                                           ELSE d.number_of_pages + 1
<1>1. d.first_free_page \in Nat /\ d.number_of_pages \in Nat
  BY DEF Database
<1>2. CASE d.first_free_page # 0
  <2>1. getFreePage(d) = [db |-> d, page_number |-> d.first_free_page]
    BY <1>2 DEF getFreePage
  <2> QED
    BY <1>1, <1>2, <2>1, RewritesItself DEF SameLists
<1>3. CASE d.first_free_page = 0
  <2> DEFINE e == createPage(d)
  <2>1. getFreePage(d) = [db |-> e, page_number |-> e.number_of_pages]
    BY <1>3 DEF getFreePage
  <2>2. /\ Rewrites(d, e, {})
        /\ SameLists(d, e) /\ e.number_of_pages = d.number_of_pages + 1
    BY CreatePageRewrites
  <2> HIDE DEF e
  <2> QED
    BY <1>1, <1>3, <2>1, <2>2
<1> QED
  BY <1>2, <1>3

(* createRowPage writes one page, a fresh row page.                        *)
LEMMA CreateRowPageRewrites ==
    ASSUME NEW d \in Database
    PROVE  LET new == createRowPage(d)
               n   == new.pg.page_number
           IN  /\ n \in Nat /\ new.pg = RowPage(n) /\ RowPage(n) \in Onward
               /\ Rewrites(d, new.db, {RowPage(n)}) /\ SameLists(d, new.db)
               /\ new.db.number_of_pages = IF d.first_free_page # 0
                                           THEN d.number_of_pages
                                           ELSE d.number_of_pages + 1
<1> DEFINE got == getFreePage(d)
           n   == got.page_number
           p   == RowPage(n)
           e   == WritePage(got.db, p.page_number, p, TRUE)
<1>1. /\ Rewrites(d, got.db, {}) /\ SameLists(d, got.db)
      /\ n \in Nat /\ got.db \in Database
      /\ got.db.number_of_pages = IF d.first_free_page # 0
                                  THEN d.number_of_pages
                                  ELSE d.number_of_pages + 1
  BY GetFreePageRewrites DEF Rewrites
<1>2. createRowPage(d) = [db |-> e, pg |-> p]
  BY DEF createRowPage, WritePage
<1> HIDE DEF got, n
<1>3. p \in Onward /\ p.page_number = n
  <2>1. PageSpace \in uint16_t
    BY PageSpaceType
  <2>2. <<>> \in Seq(Values)
    OBVIOUS
  <2> QED
    BY <1>1, <2>1, <2>2 DEF RowPage, Page, PageType, Onward
<1>4. p \in Page
  BY <1>3 DEF Onward
<1>5. /\ Rewrites(got.db, e, {p}) /\ SameLists(got.db, e)
      /\ e.number_of_pages = got.db.number_of_pages
  <2> HIDE DEF p
  <2> QED
    BY <1>1, <1>4, WriteRewrites
<1> HIDE DEF e
<1>6. Rewrites(d, e, {p})
  <2> HIDE DEF p
  <2> QED
    BY <1>1, <1>5, RewritesTwice, {} \cup {p} = {p}
<1>7. createRowPage(d).db = e /\ createRowPage(d).pg = p
  BY <1>2
<1>8. SameLists(d, e)
  BY <1>1, <1>5 DEF SameLists
<1> QED
  BY <1>1, <1>3, <1>5, <1>6, <1>7, <1>8

(* A new page, or the page at free_place as readRowPage returns it.        *)
LEMMA TablePlaceRewrites ==
    ASSUME NEW d \in Database, NEW t \in Handle,
           t.free_place # 0 => d.file[t.free_place] \in Onward
    PROVE  LET got == getTableFreePage(d, t)
           IN  /\ got.pg \in Onward /\ got.tbl \in Handle /\ SameTable(t, got.tbl)
               /\ \E n \in Nat : Rewrites(d, got.db, {RowPage(n)})
               /\ SameLists(d, got.db)
               /\ t.free_place # 0 => got.db = d
               /\ got.db.number_of_pages \in {d.number_of_pages, d.number_of_pages + 1}
               /\ IF t.free_place = 0
                  THEN got.pg.rows = <<>> /\ got.pg.free_space = PageSpace
                  ELSE LET p == d.file[t.free_place]
                       IN  /\ got.pg.rows = p.rows
                           /\ got.pg.free_space = p.free_space
                           /\ got.pg.page_number = p.page_number
<1>1. CASE t.free_place = 0
  <2> DEFINE new == createRowPage(d)
             n   == new.pg.page_number
             t2  == [t EXCEPT !.first_row_page = n, !.free_place = n, !.iterator = n]
             pg2 == [new.pg EXCEPT !.next = t.first_row_page, !.next_free = t.free_place]
  <2>1. getTableFreePage(d, t) = [db |-> new.db, tbl |-> t2, pg |-> pg2]
    BY <1>1 DEF getTableFreePage
  <2>2. /\ n \in Nat /\ new.pg = RowPage(n) /\ RowPage(n) \in Onward
        /\ Rewrites(d, new.db, {RowPage(n)}) /\ SameLists(d, new.db)
        /\ new.db.number_of_pages = IF d.first_free_page # 0
                                    THEN d.number_of_pages ELSE d.number_of_pages + 1
    BY CreateRowPageRewrites
  <2> HIDE DEF n
  <2>3. t2 \in Handle /\ SameTable(t, t2)
    BY <2>2 DEF Handle, SameTable
  <2>4. RowPage(n).rows = <<>> /\ RowPage(n).free_space = PageSpace
    BY DEF RowPage
  <2>5. t.first_row_page \in Nat /\ t.free_place \in Nat
    BY DEF Handle
  <2>6. pg2 \in Onward /\ pg2.rows = <<>> /\ pg2.free_space = PageSpace
    <3> DEFINE r == RowPage(n)
    <3> HIDE DEF r
    <3>1. r \in Onward /\ new.pg = r /\ r.rows = <<>> /\ r.free_space = PageSpace
      BY <2>2, <2>4 DEF r
    <3> QED
      BY <3>1, <2>5 DEF Onward, Page
  <2> DEFINE got == getTableFreePage(d, t)
  <2>7. got.db = new.db /\ got.tbl = t2 /\ got.pg = pg2
    BY <2>1
  <2>8. new.db.number_of_pages \in {d.number_of_pages, d.number_of_pages + 1}
    BY <2>2
  <2>9. \E m \in Nat : Rewrites(d, new.db, {RowPage(m)})
    BY <2>2
  <2> HIDE DEF got, new, t2, pg2
  <2> QED
    BY <1>1, <2>2, <2>3, <2>6, <2>7, <2>8, <2>9 DEF got
<1>2. CASE t.free_place # 0
  <2> DEFINE p == d.file[t.free_place]
             r == readRowPage(d, t.free_place)
  <2>1. getTableFreePage(d, t) = [db |-> d, tbl |-> t, pg |-> r]
    BY <1>2 DEF getTableFreePage
  <2>2. p \in Page /\ p.prev = 0
    BY <1>2 DEF Onward
  <2>3. r = [p EXCEPT !.name = NoName, !.free_place = 0]
    BY DEF readRowPage
  <2> HIDE DEF p, r
  <2>4. /\ r \in Onward /\ r.rows = p.rows /\ r.free_space = p.free_space
        /\ r.page_number = p.page_number
    BY <2>2, <2>3 DEF Page, Onward
  <2>5. \E n \in Nat : Rewrites(d, d, {RowPage(n)})
    BY RewritesItself
  <2> QED
    BY <1>2, <2>1, <2>4, <2>5 DEF SameLists, SameTable, p
<1> QED
  BY <1>1, <1>2

\* The page insertData puts row v on, after it.
RowAdded(d, t, v, p) ==
    LET space == IF t.free_place = 0 THEN PageSpace
                 ELSE d.file[t.free_place].free_space
    IN  /\ p \in Onward
        /\ p.free_space = (space - (RowLen[v] + LenSize)) % U16
        /\ IF t.free_place = 0 THEN p.rows = <<v>>
           ELSE /\ p.rows = Append(d.file[t.free_place].rows, v)
                /\ p.page_number = d.file[t.free_place].page_number

\* What insertData did: it wrote a fresh row page, the page with the row, and
\* the page of the table, as far as it came.
InsertWrites(d, t, v, done) ==
    /\ done.tbl \in Handle /\ done.tbl.st = t.st
    /\ done.tbl.page_number = t.page_number
    /\ done.tbl.prev_table = t.prev_table
    /\ SameLists(d, done.db)
    /\ done.db.number_of_pages \in {d.number_of_pages, d.number_of_pages + 1}
    /\ t.free_place # 0 => done.db.number_of_pages = d.number_of_pages
    /\ \E n \in Nat, p \in Onward :
         /\ RowAdded(d, t, v, p)
         /\ Rewrites(d, done.db, {RowPage(n), p, TablePage(done.tbl)})

(* insertData writes pages under their own numbers only, however far its   *)
(* writes get.                                                             *)
LEMMA InsertDataRewrites ==
    ASSUME NEW d \in Database, NEW t \in Handle,
           t.free_place # 0 => d.file[t.free_place] \in Onward,
           NEW v \in Values, NEW wrote \in BOOLEAN, NEW kept \in BOOLEAN
    PROVE  InsertWrites(d, t, v, insertData(d, t, v, wrote, kept))
<1> DEFINE got  == getTableFreePage(d, t)
           page == AddRow(got.pg, v)
           full == page.free_space < RowSize
           pg2  == IF full THEN [page EXCEPT !.next_free = 0] ELSE page
           tbl2 == IF full THEN [got.tbl EXCEPT !.free_place = page.next_free]
                           ELSE got.tbl
           e    == WritePage(got.db, pg2.page_number, pg2, wrote)
           last == TablePage(tbl2)
           h    == WritePage(e, last.page_number, last, wrote /\ kept)
<1>1. insertData(d, t, v, wrote, kept) = [db |-> h, tbl |-> tbl2]
  BY DEF insertData, saveTable, TablePage
<1>2. /\ got.pg \in Onward /\ got.tbl \in Handle /\ SameTable(t, got.tbl)
      /\ \E n \in Nat : Rewrites(d, got.db, {RowPage(n)})
      /\ SameLists(d, got.db)
      /\ t.free_place # 0 => got.db = d
      /\ got.db.number_of_pages \in {d.number_of_pages, d.number_of_pages + 1}
      /\ IF t.free_place = 0
         THEN got.pg.rows = <<>> /\ got.pg.free_space = PageSpace
         ELSE LET p == d.file[t.free_place]
              IN  /\ got.pg.rows = p.rows
                  /\ got.pg.free_space = p.free_space
                  /\ got.pg.page_number = p.page_number
  BY TablePlaceRewrites
<1> HIDE DEF got
<1>3. PICK n \in Nat : Rewrites(d, got.db, {RowPage(n)})
  BY <1>2
<1>4. /\ page \in Onward /\ page.page_number = got.pg.page_number
      /\ page.rows = Append(got.pg.rows, v)
      /\ page.free_space = (got.pg.free_space - (RowLen[v] + LenSize)) % U16
      /\ page.next_free \in Nat
  <2>1. got.pg \in Page /\ got.pg.prev = 0
    BY <1>2 DEF Onward
  <2>2. page \in Page /\ page.page_number = got.pg.page_number /\ page.prev = 0
    BY <2>1, AddRowEffect
  <2>3. /\ page.rows = Append(got.pg.rows, v)
        /\ page.free_space = (got.pg.free_space - (RowLen[v] + LenSize)) % U16
    BY <2>1 DEF AddRow, Page
  <2> HIDE DEF page
  <2> QED
    BY <2>2, <2>3 DEF Onward, Page
<1> HIDE DEF page
<1>5. /\ pg2 \in Onward /\ pg2.page_number = page.page_number
      /\ pg2.rows = page.rows /\ pg2.free_space = page.free_space
  <2> DEFINE q == [page EXCEPT !.next_free = 0]
  <2>1. /\ q \in Onward /\ q.page_number = page.page_number
        /\ q.rows = page.rows /\ q.free_space = page.free_space
    BY <1>4 DEF Onward, Page
  <2>2. pg2 \in {q, page}
    OBVIOUS
  <2> HIDE DEF q, pg2
  <2> QED
    BY <1>4, <2>1, <2>2
<1>6. RowAdded(d, t, v, pg2)
  <2> HIDE DEF pg2
  <2>1. Append(<<>>, v) = <<v>>
    OBVIOUS
  <2> QED
    BY <1>2, <1>4, <1>5, <2>1 DEF RowAdded
<1>7. tbl2 \in Handle /\ SameTable(t, tbl2)
  <2> DEFINE q == [got.tbl EXCEPT !.free_place = page.next_free]
  <2>1. q \in Handle /\ SameTable(got.tbl, q)
    BY <1>2, <1>4 DEF Handle, SameTable
  <2>2. tbl2 \in {q, got.tbl}
    OBVIOUS
  <2> HIDE DEF q, tbl2
  <2> QED
    BY <1>2, <2>1, <2>2 DEF SameTable
<1> HIDE DEF pg2, tbl2
<1>8. last \in Page
  BY <1>7, TablePageEffect
<1>9. /\ Rewrites(got.db, e, {pg2}) /\ SameLists(got.db, e)
      /\ e.number_of_pages = got.db.number_of_pages /\ e \in Database
  <2>1. got.db \in Database /\ pg2 \in Page
    BY <1>3, <1>5 DEF Rewrites, Onward
  <2>2. /\ Rewrites(got.db, e, {pg2}) /\ SameLists(got.db, e)
        /\ e.number_of_pages = got.db.number_of_pages
    BY <2>1, WriteRewrites
  <2> QED
    BY <2>2 DEF Rewrites
<1> HIDE DEF e, last
<1>10. /\ Rewrites(e, h, {last}) /\ SameLists(e, h)
       /\ h.number_of_pages = e.number_of_pages
  BY <1>8, <1>9, WriteRewrites, (wrote /\ kept) \in BOOLEAN
<1> HIDE DEF h
<1>11. Rewrites(d, h, {RowPage(n), pg2, last})
  <2>1. Rewrites(d, e, {RowPage(n)} \cup {pg2})
    BY <1>3, <1>9, RewritesTwice
  <2>2. Rewrites(d, h, ({RowPage(n)} \cup {pg2}) \cup {last})
    BY <1>10, <2>1, RewritesTwice
  <2>3. ({RowPage(n)} \cup {pg2}) \cup {last} = {RowPage(n), pg2, last}
    OBVIOUS
  <2> QED
    BY <2>2, <2>3
<1>12. SameLists(d, h)
  BY <1>2, <1>9, <1>10 DEF SameLists
<1>13. /\ tbl2.st = t.st /\ tbl2.page_number = t.page_number
       /\ tbl2.prev_table = t.prev_table
  BY <1>7 DEF SameTable
<1> DEFINE done == insertData(d, t, v, wrote, kept)
<1>14. done.db = h /\ done.tbl = tbl2
  BY <1>1
<1> HIDE DEF done
<1>15. \E m \in Nat, p \in Onward :
         RowAdded(d, t, v, p) /\ Rewrites(d, done.db, {RowPage(m), p, TablePage(done.tbl)})
  BY <1>5, <1>6, <1>11, <1>14 DEF last
<1>16. done.db.number_of_pages = got.db.number_of_pages
  BY <1>9, <1>10, <1>14
<1>17. InsertWrites(d, t, v, done)
  BY <1>2, <1>7, <1>12, <1>13, <1>14, <1>15, <1>16 DEF InsertWrites
<1> QED
  BY <1>17 DEF done

(* The page of a table struct.                                             *)
LEMMA TablePageOnward ==
    ASSUME NEW t \in Handle, t.prev_table = 0
    PROVE  /\ TablePage(t) \in Onward
           /\ TablePage(t).rows = <<>> /\ TablePage(t).free_space = 0
           /\ TablePage(t).page_type = "TABLE_PAGE"
<1>1. TablePage(t) \in Page /\ TablePage(t).prev = t.prev_table
  BY TablePageEffect
<1> QED
  BY <1>1 DEF Onward, TablePage

\* The page after a page that is freed is written again as it was read.
Behind(d, page) == IF page.next = 0 THEN {} ELSE {readRowPage(d, page.next)}

(* A page read with readRowPage is the page of the file, but for its       *)
(* prev_page.                                                              *)
LEMMA ReadRowPageOnward ==
    ASSUME NEW d, NEW n, d.file[n] \in Onward
    PROVE  LET p == readRowPage(d, n)
           IN  /\ p \in Onward /\ p.rows = d.file[n].rows
               /\ p.free_space = d.file[n].free_space
               /\ p.page_number = d.file[n].page_number
               /\ p.page_type = d.file[n].page_type
BY DEF readRowPage, Onward, Page

(* Its neighbours are told of a page that is freed, though no page knows   *)
(* the page before it.                                                     *)
LEMMA UnlinkRewrites ==
    ASSUME NEW d \in Database, NEW page \in Onward,
           page.next # 0 => /\ d.file[page.next] \in Onward
                            /\ d.file[page.next].page_number = page.next
    PROVE  LET e == UnlinkPage(d, page)
           IN  /\ Rewrites(d, e, Behind(d, page)) /\ SameLists(d, e)
               /\ e.number_of_pages = d.number_of_pages
<1>1. page.prev = 0
  BY DEF Onward
<1>2. CASE page.next = 0
  <2>1. UnlinkPage(d, page) = d
    BY <1>1, <1>2 DEF UnlinkPage
  <2> QED
    BY <2>1, RewritesItself DEF SameLists
<1>3. CASE page.next # 0
  <2> DEFINE p == readRowPage(d, page.next)
             q == [p EXCEPT !.prev = page.prev]
  <2>1. p \in Page /\ p.prev = 0
    BY <1>3, ReadRowPageOnward DEF Onward
  <2>2. q = p
    <3> HIDE DEF p
    <3> QED
      BY <1>1, <2>1 DEF Page
  <2>3. UnlinkPage(d, page) = WritePage(d, p.page_number, p, TRUE)
    <3>1. UnlinkPage(d, page) = PutPage(d, p.page_number, q)
      BY <1>1, <1>3 DEF UnlinkPage
    <3> QED
      BY <2>2, <3>1 DEF WritePage
  <2>4. Behind(d, page) = {p}
    BY <1>3 DEF Behind
  <2> HIDE DEF p
  <2> DEFINE e == WritePage(d, p.page_number, p, TRUE)
  <2>5. Rewrites(d, e, {p}) /\ SameLists(d, e) /\ e.number_of_pages = d.number_of_pages
    BY <2>1, WriteRewrites
  <2> HIDE DEF e
  <2>6. UnlinkPage(d, page) = e
    BY <2>3 DEF e
  <2> QED
    BY <2>4, <2>5, <2>6
<1> QED
  BY <1>2, <1>3

\* Page p without its row i.
RowRemoved(page, i, p) ==
    /\ p \in Onward
    /\ p.page_number = page.page_number
    /\ p.rows = RemoveAt(page.rows, i)
    /\ p.free_space = (page.free_space + RowLen[page.rows[i]]) % U16

(* The types of the fields of a page that has no prev_page.                *)
LEMMA OnwardFields ==
    ASSUME NEW page \in Onward
    PROVE  /\ page \in Page /\ page.prev = 0 /\ page.rows \in Seq(Values)
           /\ page.free_space \in uint16_t /\ page.free_space \in Nat /\ page.page_number \in Nat
           /\ page.next \in Nat /\ page.next_free \in Nat
<1>1. page \in Page /\ page.prev = 0
  BY DEF Onward
<1>2. /\ page.rows \in Seq(Values) /\ page.free_space \in uint16_t
      /\ page.page_number \in Nat /\ page.next \in Nat /\ page.next_free \in Nat
  BY <1>1 DEF Page
<1>3. uint16_t \subseteq Nat
  BY WordType
<1> QED
  BY <1>1, <1>2, <1>3

(* Freeing a row takes it out of its page and leaves the table the same    *)
(* table.                                                                  *)
LEMMA FreeRowEffect ==
    ASSUME NEW t \in Handle, NEW page \in Onward, NEW i \in DOMAIN page.rows
    PROVE  LET s    == FreeRow(t, page, RowLen[page.rows[i]])
               left == [s.pg EXCEPT !.rows = RemoveAt(@, i)]
           IN  s.tbl \in Handle /\ SameTable(t, s.tbl) /\ RowRemoved(page, i, left)
<1>1. /\ page \in Page /\ page.prev = 0 /\ page.rows \in Seq(Values)
      /\ page.free_space \in Nat /\ page.next_free \in Nat /\ page.page_number \in Nat
      /\ t.free_place \in Nat
  BY OnwardFields DEF Handle
<1> DEFINE len    == RowLen[page.rows[i]]
           rows   == RemoveAt(page.rows, i)
           space  == (page.free_space + len) % U16
<1>2. i \in 1 .. Len(page.rows) /\ len \in Nat
  <2>1. i \in 1 .. Len(page.rows)
    BY <1>1, LenProperties
  <2>2. page.rows[i] \in Values
    BY <1>1, <2>1, ElementOfSeq
  <2> QED
    BY <2>1, <2>2, RowLenAssumption
<1>3. rows \in Seq(Values)
  BY <1>1, <1>2, RemoveAtEffect
<1>4. space \in uint16_t
  <2> HIDE DEF len
  <2>1. page.free_space + len \in Int
    BY <1>1, <1>2
  <2> QED
    BY <2>1, WrappedSums
<1> DEFINE linked == page.free_space < RowSize /\ space > RowSize
           place  == IF linked THEN page.page_number ELSE t.free_place
           next   == IF linked THEN t.free_place ELSE page.next_free
           full   == space < RowSize
           first  == IF full THEN next ELSE place
           after  == IF full THEN 0 ELSE next
           s      == FreeRow(t, page, len)
           left   == [s.pg EXCEPT !.rows = RemoveAt(@, i)]
<1>5. first \in Nat /\ after \in Nat
  <2>1. place \in {page.page_number, t.free_place} /\ next \in {t.free_place, page.next_free}
    OBVIOUS
  <2>2. first \in {next, place} /\ after \in {0, next}
    OBVIOUS
  <2> HIDE DEF place, next, first, after
  <2> QED
    BY <1>1, <2>1, <2>2
<1>6. s = [tbl |-> [t EXCEPT !.free_place = first],
           pg  |-> [page EXCEPT !.free_space = space, !.next_free = after]]
  BY DEF FreeRow
<1> HIDE DEF first, after, space
<1>7. /\ s.tbl = [t EXCEPT !.free_place = first]
      /\ s.pg = [page EXCEPT !.free_space = space, !.next_free = after]
  BY <1>6
<1> HIDE DEF s, rows
<1>8. left = [s.pg EXCEPT !.rows = rows]
  BY <1>1, <1>7 DEF Page, rows
<1> HIDE DEF left
<1>9. s.tbl \in Handle /\ SameTable(t, s.tbl)
  BY <1>5, <1>7 DEF Handle, SameTable
<1>10. RowRemoved(page, i, left)
  <2>1. /\ s.pg \in Page /\ s.pg.prev = 0 /\ s.pg.page_number = page.page_number
        /\ s.pg.free_space = space
    BY <1>1, <1>4, <1>5, <1>7 DEF Page
  <2>2. /\ left \in Page /\ left.prev = 0 /\ left.page_number = page.page_number
        /\ left.rows = rows /\ left.free_space = space
    BY <1>3, <1>8, <2>1 DEF Page
  <2> QED
    BY <2>2 DEF RowRemoved, Onward, rows, space
<1> QED
  BY <1>9, <1>10 DEF s, left

\* What deleteData leaves of its page when it took the last row.
Emptied(page, p, q) ==
    /\ q \in Onward /\ q.rows = <<>> /\ q.free_space = p.free_space
    /\ q.page_number = page.page_number

\* What deleteData did: it wrote its page without the row and the page of the
\* table, or the page it frees and the page after it.
DeleteWrites(d, t, page, i, done) ==
    /\ done.tbl \in Handle /\ SameTable(t, done.tbl)
    /\ done.db.first_table_page = d.first_table_page
    /\ done.db.number_of_pages = d.number_of_pages
    /\ \E p : /\ RowRemoved(page, i, p)
              /\ Len(page.rows) = 1 <=> p.rows = <<>>
              /\ IF Len(page.rows) = 1
                 THEN /\ done.pg = NoPage
                      /\ \E q : /\ Emptied(page, p, q)
                                /\ Rewrites(d, done.db, {q} \cup Behind(d, page))
                 ELSE /\ done.pg = p
                      /\ Rewrites(d, done.db, {p, TablePage(done.tbl)})
              /\ \A n \in 1 .. Len(d.file) :
                   n = page.page_number => done.db.file[n].rows \in {<<>>, p.rows}

(* deleteData writes pages under their own numbers only.                   *)
LEMMA DeleteDataRewrites ==
    ASSUME NEW d \in Database, NEW t \in Handle, t.prev_table = 0,
           NEW page \in Onward, NEW i \in DOMAIN page.rows, NEW kept \in BOOLEAN,
           Len(page.rows) = 1 /\ page.next # 0 =>
             d.file[page.next] \in Onward /\ d.file[page.next].page_number = page.next
    PROVE  DeleteWrites(d, t, page, i, deleteData(d, t, page, i, kept))
<1> DEFINE s    == FreeRow(t, page, RowLen[page.rows[i]])
           left == [s.pg EXCEPT !.rows = RemoveAt(@, i)]
           d1   == WritePage(d, left.page_number, left, TRUE)
           u    == UnlinkPage(d, left)
           q    == [left EXCEPT !.page_type = "FREE_PAGE",
                                !.next = u.first_free_page, !.rows = <<>>]
           w    == WritePage(u, q.page_number, q, TRUE)
           h    == [w EXCEPT !.first_free_page = left.page_number]
           last == TablePage(s.tbl)
           e    == WritePage(d1, last.page_number, last, kept)
           done == deleteData(d, t, page, i, kept)
<1>1. s.tbl \in Handle /\ SameTable(t, s.tbl) /\ RowRemoved(page, i, left)
  BY FreeRowEffect
<1>2. left \in Page /\ left \in Onward /\ left.prev = 0
  BY <1>1 DEF RowRemoved, Onward
<1>3. left.next = page.next
  <2>1. page \in Page
    BY DEF Onward
  <2> QED
    BY <2>1 DEF FreeRow, Page
<1>4. done = IF left.rows = <<>>
             THEN [db |-> freeRowPage(u, left, TRUE), tbl |-> s.tbl, pg |-> NoPage]
             ELSE [db |-> saveTable(d1, s.tbl, kept), tbl |-> s.tbl, pg |-> left]
  BY DEF deleteData, WritePage
<1>5. left.rows = <<>> <=> Len(page.rows) = 1
  <2>1. page.rows \in Seq(Values)
    BY DEF Onward, Page
  <2>2. i \in 1 .. Len(page.rows) /\ Len(page.rows) \in Nat
    BY <2>1, LenProperties
  <2>3. /\ RemoveAt(page.rows, i) \in Seq(Values)
        /\ Len(RemoveAt(page.rows, i)) = Len(page.rows) - 1
    BY <2>1, <2>2, RemoveAtEffect
  <2>4. left.rows = RemoveAt(page.rows, i)
    BY <1>1 DEF RowRemoved
  <2> HIDE DEF left
  <2> QED
    <3> DEFINE r == left.rows
    <3>1. r \in Seq(Values) /\ Len(r) = Len(page.rows) - 1
      BY <2>3, <2>4
    <3> HIDE DEF r
    <3>2. r = <<>> <=> Len(r) = 0
      BY <3>1, EmptySeq
    <3> QED
      BY <2>2, <3>1, <3>2 DEF r
<1>6. CASE Len(page.rows) = 1
  <2> HIDE DEF s, left
  <2>1. /\ Rewrites(d, u, Behind(d, page)) /\ SameLists(d, u)
        /\ u.number_of_pages = d.number_of_pages
    <3>1. left.next # 0 => /\ d.file[left.next] \in Onward
                           /\ d.file[left.next].page_number = left.next
      BY <1>3, <1>6
    <3>2. Behind(d, left) = Behind(d, page)
      BY <1>3 DEF Behind
    <3> QED
      BY <1>2, <3>1, <3>2, UnlinkRewrites
  <2> HIDE DEF u
  <2>2. u \in Database /\ u.first_free_page \in Nat
    BY <2>1 DEF Rewrites, Database
  <2>3. /\ q \in Onward /\ q.rows = <<>> /\ q.free_space = left.free_space
        /\ q.page_number = left.page_number
    <3>1. <<>> \in Seq(Values)
      OBVIOUS
    <3> QED
      BY <1>2, <2>2, <3>1 DEF Onward, Page, PageType
  <2>4. q \in Page
    BY <2>3 DEF Onward
  <2>5. freeRowPage(u, left, TRUE) = h
    BY <2>3 DEF freeRowPage
  <2> HIDE DEF q
  <2>6. /\ Rewrites(u, w, {q}) /\ SameLists(u, w)
        /\ w.number_of_pages = u.number_of_pages
        /\ \A n \in 1 .. Len(u.file) : n = q.page_number => w.file[n] = q
    BY <2>2, <2>4, WriteRewrites
  <2> HIDE DEF w
  <2>7. Rewrites(d, w, Behind(d, page) \cup {q})
    BY <2>1, <2>6, RewritesTwice
  <2>8. w \in Database /\ left.page_number \in Nat
    BY <1>2, <2>6 DEF Rewrites, Page
  <2>9. /\ h \in Database /\ h.file = w.file
        /\ h.number_of_pages = w.number_of_pages
        /\ h.first_table_page = w.first_table_page
    BY <2>8 DEF Database
  <2> HIDE DEF h
  <2>10. Rewrites(d, h, {q} \cup Behind(d, page))
    BY <2>7, <2>9 DEF Rewrites
  <2>11. Emptied(page, left, q)
    BY <1>1, <2>3 DEF Emptied, RowRemoved
  <2>12. \A n \in 1 .. Len(d.file) : n = page.page_number => h.file[n].rows = <<>>
    <3>1. d.file \in Seq(Page) /\ Len(d.file) <= Len(u.file)
      BY <2>1 DEF Rewrites, Database
    <3>2. u.file \in Seq(Page)
      BY <2>2 DEF Database
    <3>3. Len(d.file) \in Nat /\ Len(u.file) \in Nat
      BY <3>1, <3>2, LenProperties
    <3>4. q.page_number = page.page_number
      BY <1>1, <2>3 DEF RowRemoved
    <3> QED
      BY <2>3, <2>6, <2>9, <3>1, <3>3, <3>4
  <2>13. done.db = h /\ done.tbl = s.tbl /\ done.pg = NoPage
    <3> HIDE DEF done
    <3>1. done = [db |-> h, tbl |-> s.tbl, pg |-> NoPage]
      BY <1>4, <1>5, <1>6, <2>5
    <3> QED
      BY <3>1
  <2> HIDE DEF done
  <2>14. DeleteWrites(d, t, page, i, done)
    BY <1>1, <1>5, <1>6, <2>1, <2>6, <2>9, <2>10, <2>11, <2>12, <2>13 DEF SameLists, DeleteWrites
  <2> QED
    BY <2>14 DEF done
<1>7. CASE Len(page.rows) # 1
  <2>1. last \in Page
    BY <1>1, TablePageEffect
  <2> HIDE DEF s, left
  <2>2. /\ Rewrites(d, d1, {left}) /\ SameLists(d, d1)
        /\ d1.number_of_pages = d.number_of_pages /\ Len(d1.file) = Len(d.file)
        /\ \A n \in 1 .. Len(d.file) : n = left.page_number => d1.file[n] = left
    BY <1>2, WriteRewrites
  <2>3. saveTable(d1, s.tbl, kept) = e
    BY DEF saveTable, TablePage
  <2> HIDE DEF d1, last
  <2>4. /\ Rewrites(d1, e, {last}) /\ SameLists(d1, e)
        /\ e.number_of_pages = d1.number_of_pages
    <3>1. d1 \in Database
      BY <2>2 DEF Rewrites
    <3> QED
      BY <2>1, <3>1, WriteRewrites
  <2> HIDE DEF e
  <2>5. Rewrites(d, e, {left, last})
    <3>1. {left} \cup {last} = {left, last}
      OBVIOUS
    <3> QED
      BY <2>2, <2>4, <3>1, RewritesTwice
  <2>6. \A n \in 1 .. Len(d.file) :
          n = page.page_number => e.file[n].rows \in {<<>>, left.rows}
    <3> SUFFICES ASSUME NEW n \in 1 .. Len(d.file), n = page.page_number
                 PROVE  e.file[n].rows \in {<<>>, left.rows}
      OBVIOUS
    <3>1. d1.file[n] = left
      BY <1>1, <2>2 DEF RowRemoved
    <3>2. n \in 1 .. Len(e.file)
      <4>1. d.file \in Seq(Page) /\ e.file \in Seq(Page) /\ Len(d.file) <= Len(e.file)
        BY <2>5 DEF Rewrites, Database
      <4> QED
        BY <4>1, LenProperties
    <3>3. e.file[n] \in {d1.file[n], ZeroPage, last}
      BY <2>4, <3>2 DEF Rewrites
    <3>4. ZeroPage.rows = <<>> /\ last.rows = <<>>
      BY DEF ZeroPage, last, TablePage
    <3> QED
      BY <3>1, <3>3, <3>4
  <2>7. done.db = e /\ done.tbl = s.tbl /\ done.pg = left
    <3> HIDE DEF done
    <3>1. left.rows # <<>>
      BY <1>5, <1>7
    <3>2. done = [db |-> e, tbl |-> s.tbl, pg |-> left]
      BY <1>4, <2>3, <3>1
    <3> QED
      BY <3>2
  <2> HIDE DEF done
  <2>8. DeleteWrites(d, t, page, i, done)
    BY <1>1, <1>5, <1>7, <2>2, <2>4, <2>5, <2>6, <2>7 DEF SameLists, DeleteWrites, last
  <2> QED
    BY <2>8 DEF done
<1> QED
  BY <1>6, <1>7

(* A set of naturals with an upper bound has a largest member.             *)
LEMMA LargestNat ==
    ASSUME NEW n \in Nat, NEW T, T \subseteq 0 .. n, T # {}
    PROVE  Max(T) \in T /\ \A y \in T : y <= Max(T)
<1> DEFINE U == {n - x : x \in T}
<1>1. U \subseteq Nat /\ U # {}
  <2>1. \A x \in 0 .. n : n - x \in Nat
    OBVIOUS
  <2> QED
    BY <2>1
<1>2. PICK u \in U : \A w \in U : u <= w
  BY <1>1, LeastNat
<1>3. PICK x \in T : u = n - x
  BY <1>2
<1>4. \A y \in T : x >= y
  <2> SUFFICES ASSUME NEW y \in T PROVE x >= y
    OBVIOUS
  <2>1. n - y \in U /\ x \in 0 .. n /\ y \in 0 .. n
    OBVIOUS
  <2>2. n - x <= n - y
    BY <1>2, <1>3, <2>1
  <2> QED
    BY <2>1, <2>2
<1>5. Max(T) \in T /\ \A y \in T : Max(T) >= y
  BY <1>3, <1>4 DEF Max
<1> QED
  BY <1>5

(* A set of naturals that is not empty has a least element, and it is      *)
(* Min.                                                                    *)
LEMMA LeastInRange ==
    ASSUME NEW T, T \subseteq Nat, T # {}
    PROVE  Min(T) \in T /\ \A y \in T : Min(T) <= y
<1>1. PICK x \in T : \A y \in T : x <= y
  BY LeastNat
<1> QED
  BY <1>1 DEF Min

(* A sequence is one of a smaller set when its members are.                *)
LEMMA NarrowedSeq ==
    ASSUME NEW S, NEW T, NEW s \in Seq(S), \A n \in 1 .. Len(s) : s[n] \in T
    PROVE  s \in Seq(T)
<1>1. Len(s) \in Nat /\ s \in [1 .. Len(s) -> S] /\ DOMAIN s = 1 .. Len(s)
  BY LenProperties
<1>2. s \in [1 .. Len(s) -> T]
  BY <1>1
<1> QED
  BY <1>1, <1>2, SeqDef

(* What fseek past the end of the file leaves behind: a page of zeros,     *)
(* of type 0.                                                              *)
LEMMA ZeroPageOnward == ZeroPage \in Onward /\ ZeroPage.rows = <<>>
    /\ ZeroPage.free_space = 0 /\ ZeroPage.page_type = "DATABASE_MAIN"
BY ZeroPageType DEF Onward, ZeroPage

\* No link of page p goes beyond page b.
LinksUpTo(p, b) ==
    p.next <= b /\ p.prev <= b /\ p.next_free <= b /\ p.free_place <= b

(* The numbers a page holds have a bound.                                  *)
LEMMA LinksOfPage ==
    ASSUME NEW p \in Page, NEW b \in Nat
    PROVE  \E c \in Nat : b <= c /\ LinksUpTo(p, c)
<1>1. PICK w \in Nat, x \in Nat, y \in Nat, z \in Nat :
        w = p.next /\ x = p.prev /\ y = p.next_free /\ z = p.free_place
  BY DEF Page
<1>2. PICK c \in Nat : b <= c /\ w <= c /\ x <= c /\ y <= c /\ z <= c
  <2>1. b + w + x + y + z \in Nat
    OBVIOUS
  <2> QED
    BY <2>1
<1> QED
  BY <1>1, <1>2 DEF LinksUpTo

(* A bound for what the pages of a sequence link to.                       *)
LEMMA LinksBounded ==
    ASSUME NEW pages \in Seq(Page)
    PROVE  \E b \in Nat : \A n \in 1 .. Len(pages) : LinksUpTo(pages[n], b)
<1> DEFINE S == {m \in Nat : m <= Len(pages) =>
                   \E b \in Nat : \A n \in 1 .. m : LinksUpTo(pages[n], b)}
<1>1. Len(pages) \in Nat
  BY LenProperties
<1>2. 0 \in S
  OBVIOUS
<1>3. ASSUME NEW m \in Nat, m \in S PROVE m + 1 \in S
  <2> SUFFICES ASSUME m + 1 <= Len(pages)
               PROVE  \E b \in Nat : \A n \in 1 .. m + 1 : LinksUpTo(pages[n], b)
    OBVIOUS
  <2>1. PICK b \in Nat : \A n \in 1 .. m : LinksUpTo(pages[n], b)
    BY <1>1, <1>3
  <2>2. pages[m + 1] \in Page
    BY <1>1, ElementOfSeq
  <2>3. PICK c \in Nat : b <= c /\ LinksUpTo(pages[m + 1], c)
    BY <2>2, LinksOfPage
  <2>4. ASSUME NEW n \in 1 .. m + 1 PROVE LinksUpTo(pages[n], c)
    <3>1. CASE n = m + 1
      BY <2>3, <3>1
    <3>2. CASE n # m + 1
      <4>1. n \in 1 .. m /\ n \in 1 .. Len(pages)
        BY <1>1, <3>2
      <4>2. LinksUpTo(pages[n], b) /\ pages[n] \in Page
        BY <2>1, <4>1, ElementOfSeq
      <4>3. /\ pages[n].next \in Nat /\ pages[n].prev \in Nat
            /\ pages[n].next_free \in Nat /\ pages[n].free_place \in Nat
        BY <4>2 DEF Page
      <4> QED
        BY <2>3, <4>2, <4>3 DEF LinksUpTo
    <3> QED
      BY <3>1, <3>2
  <2> QED
    BY <2>4
<1>4. Len(pages) \in S
  <2> HIDE DEF S
  <2> QED
    BY <1>1, <1>2, <1>3, NatSetInduction
<1> QED
  BY <1>1, <1>4

----------------------------------------------------------------------------
(***************************************************************************)
(* The shapes of the file, of the program's memory and of closeDatabase.   *)
(***************************************************************************)
Headers == [number_of_pages : 0 .. MaxPages, first_free_page : Nat,
            first_table_page : Nat]

\* The table is the first thing a file gets.
NoTableYet(h) ==
    h.first_table_page = 0 => h.number_of_pages = 0 /\ h.first_free_page = 0

FileShape ==
    /\ db \in Database /\ db.file \in Seq(Onward)
    /\ db.number_of_pages <= MaxPages /\ NoTableYet(db)
    /\ eof \in 0 .. Len(db.file)
    /\ \A n \in 1 .. Len(db.file) : n > eof => db.file[n] = ZeroPage

SavedShape == saved = NoHeader \/ (saved \in Headers /\ NoTableYet(saved))

ProgramShape ==
    /\ pc \in {"off", "open", "copying", "copied", "removed"}
    /\ tbl \in Handle /\ tbl.prev_table = 0 /\ pg \in Onward \cup {NoPage}
    /\ pc # "open" => tbl = NullHandle /\ pg = NoPage
    /\ tbl.st = "live" \/ pg # NoPage => db.first_table_page # 0

ClosingShape ==
    /\ copy \in Seq(Onward) /\ buf \in Onward
    /\ at \in Nat /\ offset \in 0 .. UINT32 - 1
    /\ pc = "copying" => at # 0
    /\ pc = "off" => buf = ZeroPage

HistoryShape ==
    /\ given \in [Values -> Nat]
    /\ count \in [inserts : Nat, updates : Nat, opens : Nat]
    /\ count.updates = 0 => "resized" \notin harm

Shapes == FileShape /\ SavedShape /\ ProgramShape /\ ClosingShape /\ HistoryShape

(* What a call leaves has the shape of a file when the pages it wrote have.*)
LEMMA RewrittenFile ==
    ASSUME NEW d \in Database, d.file \in Seq(Onward), NEW P, P \subseteq Onward,
           NEW e, Rewrites(d, e, P)
    PROVE  e \in Database /\ e.file \in Seq(Onward)
<1>1. e \in Database /\ e.file \in Seq(Page)
  BY DEF Rewrites, Database
<1>2. ASSUME NEW n \in 1 .. Len(e.file) PROVE e.file[n] \in Onward
  <2>1. \/ n \in 1 .. Len(d.file) /\ e.file[n] = d.file[n]
        \/ e.file[n] = ZeroPage
        \/ e.file[n] \in P
    BY DEF Rewrites
  <2> QED
    BY <2>1, ElementOfSeq, ZeroPageOnward
<1> QED
  BY <1>1, <1>2, NarrowedSeq

(* The end of the file does not leave the file.                            *)
LEMMA WriteReaches ==
    ASSUME FileShape, NEW d \in Database, Len(db.file) <= Len(d.file), Write(d)
    PROVE  /\ db' = d /\ saved' = saved /\ eof' \in 0 .. Len(d.file)
           /\ \A n \in 1 .. Len(d.file) :
                n > eof' => n \in 1 .. Len(db.file) /\ d.file[n] = db.file[n] /\ n > eof
<1> DEFINE T == {n \in DOMAIN d.file : n \notin DOMAIN db.file \/ d.file[n] # db.file[n]}
<1>1. db' = d /\ saved' = saved /\ eof' = Max({eof} \cup T)
  BY DEF Write, Reach
<1>2. d.file \in Seq(Page) /\ db.file \in Seq(Page)
  BY DEF FileShape, Database
<1>3. Len(d.file) \in Nat /\ DOMAIN d.file = 1 .. Len(d.file) /\ Len(db.file) \in Nat
  BY <1>2, LenProperties
<1>4. {eof} \cup T \subseteq 0 .. Len(d.file)
  <2>1. eof \in 0 .. Len(db.file)
    BY DEF FileShape
  <2>2. eof \in 0 .. Len(d.file)
    BY <1>3, <2>1
  <2>3. T \subseteq 0 .. Len(d.file)
    BY <1>3
  <2> QED
    BY <2>2, <2>3
<1>5. \A n \in 1 .. Len(d.file) : n \in T \/ (n \in 1 .. Len(db.file) /\ d.file[n] = db.file[n])
  BY <1>2, <1>3, LenProperties
<1> HIDE DEF T
<1>6. Max({eof} \cup T) \in {eof} \cup T /\ \A y \in {eof} \cup T : y <= Max({eof} \cup T)
  BY <1>3, <1>4, LargestNat
<1>7. eof' \in 0 .. Len(d.file) /\ eof <= eof' /\ \A y \in T : y <= eof'
  BY <1>1, <1>4, <1>6
<1>8. eof \in Nat /\ eof' \in Nat
  BY <1>3, <1>7 DEF FileShape
<1>9. ASSUME NEW n \in 1 .. Len(d.file), n > eof'
      PROVE  n \in 1 .. Len(db.file) /\ d.file[n] = db.file[n] /\ n > eof
  <2>1. n \notin T /\ n > eof
    BY <1>7, <1>8, <1>9
  <2> QED
    BY <1>5, <2>1
<1> QED
  BY <1>1, <1>7, <1>9

----------------------------------------------------------------------------
(***************************************************************************)
(* What the calls that write do to a file of that shape.                   *)
(***************************************************************************)
\* A database and a table struct a call may be handed.
Usable(d, t) ==
    /\ d \in Database /\ d.file \in Seq(Onward) /\ d.number_of_pages <= MaxPages
    /\ t \in Handle /\ t.prev_table = 0

\* What a call hands back.
Leaves(d, t, e, u) ==
    /\ Usable(e, u) /\ u.st = t.st
    /\ e.first_table_page = d.first_table_page
    /\ Len(d.file) <= Len(e.file)

\* A page without rows that does not claim too much space.
Blank(r) == r.rows = <<>> /\ r.free_space <= PageSpace

\* A page as it is in the file, at its place.
Copied(d, r) ==
    \E m \in 1 .. Len(d.file) : /\ r.page_number = m
                                /\ r.rows = d.file[m].rows
                                /\ r.free_space = d.file[m].free_space

\* e is d with row v, or as much of it as was written.
Inserted(d, t, v, e) ==
    \E p \in Onward, P \in SUBSET Onward :
        /\ RowAdded(d, t, v, p) /\ Rewrites(d, e, P)
        /\ \A r \in P : r = p \/ Blank(r)

\* e is d without row i of a page in memory.
Deleted(d, page, i, e) ==
    \E P \in SUBSET Onward :
        /\ Rewrites(d, e, P)
        /\ \A r \in P : RowRemoved(page, i, r) \/ Blank(r) \/ Copied(d, r)

(* A new row page is blank.                                                *)
LEMMA RowPageOnward ==
    ASSUME NEW n \in Nat
    PROVE  RowPage(n) \in Onward /\ Blank(RowPage(n)) /\ RowPage(n).page_type = "ROW_PAGE"
<1>1. PageSpace \in uint16_t /\ PageSpace \in Nat
  BY PageSpaceType
<1>2. <<>> \in Seq(Values)
  OBVIOUS
<1>3. RowPage(n).rows = <<>> /\ RowPage(n).free_space = PageSpace
  BY DEF RowPage
<1>4. RowPage(n) \in Onward
  BY <1>1, <1>2 DEF RowPage, Page, PageType, Onward
<1> QED
  BY <1>1, <1>3, <1>4 DEF Blank, RowPage

(* The page of a table is blank: it holds no rows.                         *)
LEMMA TablePageBlank ==
    ASSUME NEW t \in Handle, t.prev_table = 0
    PROVE  TablePage(t) \in Onward /\ Blank(TablePage(t))
<1>1. PageSpace \in Nat
  BY PageSpaceType
<1> QED
  BY <1>1, TablePageOnward DEF Blank

(* What insertData leaves, into a table in use and a place that can be     *)
(* read.                                                                   *)
LEMMA InsertDone ==
    ASSUME NEW d, NEW t, Usable(d, t), NEW e \in 0 .. Len(d.file),
           PlaceReadable(d, e, t),
           NEW v \in Values, NEW wrote \in BOOLEAN, NEW kept \in BOOLEAN
    PROVE  LET done == insertData(d, t, v, wrote, kept)
           IN  Leaves(d, t, done.db, done.tbl) /\ Inserted(d, t, v, done.db)
<1> DEFINE done == insertData(d, t, v, wrote, kept)
<1>1. d \in Database /\ t \in Handle /\ d.number_of_pages \in Nat /\ Len(d.file) \in Nat
  <2>1. d \in Database /\ t \in Handle /\ d.file \in Seq(Page)
    BY DEF Usable, Database
  <2> QED
    BY <2>1, LenProperties DEF Database
<1>2. t.free_place # 0 => d.file[t.free_place] \in Onward
  <2> SUFFICES ASSUME t.free_place # 0 PROVE d.file[t.free_place] \in Onward
    OBVIOUS
  <2>1. t.free_place \in 1 .. e
    BY DEF PlaceReadable, Readable
  <2>2. t.free_place \in 1 .. Len(d.file) /\ d.file \in Seq(Onward)
    BY <1>1, <2>1 DEF Usable
  <2> QED
    BY <2>2, ElementOfSeq
<1>3. InsertWrites(d, t, v, done)
  BY <1>1, <1>2, InsertDataRewrites
<1> HIDE DEF done
<1>4. PICK n \in Nat, p \in Onward :
        /\ RowAdded(d, t, v, p)
        /\ Rewrites(d, done.db, {RowPage(n), p, TablePage(done.tbl)})
  BY <1>3 DEF InsertWrites
<1> DEFINE P == {RowPage(n), p, TablePage(done.tbl)}
<1>5. P \in SUBSET Onward /\ \A r \in P : r = p \/ Blank(r)
  <2>1. done.tbl.prev_table = 0
    BY <1>3 DEF Usable, InsertWrites
  <2> QED
    BY <1>3, <2>1, RowPageOnward, TablePageBlank DEF InsertWrites
<1> HIDE DEF P
<1>6. Rewrites(d, done.db, P)
  BY <1>4 DEF P
<1>7. done.db \in Database /\ done.db.file \in Seq(Onward)
  BY <1>1, <1>5, <1>6, RewrittenFile DEF Usable
<1>8. done.db.number_of_pages <= MaxPages
  <2>1. MaxPages \in Nat /\ d.number_of_pages <= MaxPages
    BY StoreBounds DEF Usable
  <2>2. t.free_place = 0 => d.number_of_pages < MaxPages
    BY DEF PlaceReadable
  <2> QED
    BY <1>1, <1>3, <2>1, <2>2 DEF InsertWrites
<1>9. Leaves(d, t, done.db, done.tbl)
  BY <1>3, <1>6, <1>7, <1>8 DEF Leaves, Usable, SameLists, Rewrites, InsertWrites
<1>10. Inserted(d, t, v, done.db)
  BY <1>4, <1>5, <1>6 DEF Inserted
<1> QED
  BY <1>9, <1>10 DEF done

\* The page after a page whose last row is deleted is at its place.
NextAtHome(d, page) ==
    Len(page.rows) = 1 /\ page.next # 0 =>
        page.next \in 1 .. Len(d.file) /\ d.file[page.next].page_number = page.next

(* The page that UnlinkPage writes is one of the file, in its place.       *)
LEMMA BehindCopied ==
    ASSUME NEW d, NEW page, d.file \in Seq(Onward), NextAtHome(d, page),
           Len(page.rows) = 1
    PROVE  /\ Behind(d, page) \in SUBSET Onward
           /\ \A r \in Behind(d, page) : Copied(d, r)
<1>1. CASE page.next = 0
  BY <1>1 DEF Behind
<1>2. CASE page.next # 0
  <2>1. page.next \in 1 .. Len(d.file) /\ d.file[page.next].page_number = page.next
    BY <1>2 DEF NextAtHome
  <2>2. d.file[page.next] \in Onward
    BY <2>1, ElementOfSeq
  <2> DEFINE r == readRowPage(d, page.next)
  <2>3. /\ r \in Onward /\ r.rows = d.file[page.next].rows
        /\ r.free_space = d.file[page.next].free_space
        /\ r.page_number = d.file[page.next].page_number
    BY <2>2, ReadRowPageOnward
  <2>4. Behind(d, page) = {r}
    BY <1>2 DEF Behind
  <2> HIDE DEF r
  <2> QED
    BY <2>1, <2>3, <2>4 DEF Copied
<1> QED
  BY <1>1, <1>2

(* What deleteData leaves: the page it was given, with one row less or     *)
(* none.                                                                   *)
LEMMA DeleteDone ==
    ASSUME NEW d, NEW t, Usable(d, t), NEW page \in Onward,
           NEW i \in DOMAIN page.rows, NEW kept \in BOOLEAN, NextAtHome(d, page)
    PROVE  LET done == deleteData(d, t, page, i, kept)
           IN  /\ Leaves(d, t, done.db, done.tbl) /\ Deleted(d, page, i, done.db)
               /\ RowRemoved(page, i, done.pg) \/ done.pg = NoPage
               /\ \A n \in 1 .. Len(d.file) : n = page.page_number =>
                    done.db.file[n].rows \in {<<>>, RemoveAt(page.rows, i)}
<1> DEFINE done == deleteData(d, t, page, i, kept)
<1>1. d \in Database /\ t \in Handle /\ t.prev_table = 0 /\ d.file \in Seq(Onward)
  BY DEF Usable
<1>2. Len(page.rows) = 1 /\ page.next # 0 =>
        d.file[page.next] \in Onward /\ d.file[page.next].page_number = page.next
  BY <1>1, ElementOfSeq DEF NextAtHome
<1>3. DeleteWrites(d, t, page, i, done)
  BY <1>1, <1>2, DeleteDataRewrites
<1> HIDE DEF done
<1>4. PICK p : /\ RowRemoved(page, i, p)
               /\ Len(page.rows) = 1 <=> p.rows = <<>>
               /\ IF Len(page.rows) = 1
                  THEN /\ done.pg = NoPage
                       /\ \E q : /\ Emptied(page, p, q)
                                 /\ Rewrites(d, done.db, {q} \cup Behind(d, page))
                  ELSE /\ done.pg = p
                       /\ Rewrites(d, done.db, {p, TablePage(done.tbl)})
               /\ \A n \in 1 .. Len(d.file) :
                    n = page.page_number => done.db.file[n].rows \in {<<>>, p.rows}
  BY <1>3 DEF DeleteWrites
<1>5. done.tbl.prev_table = 0 /\ done.tbl.st = t.st
  BY <1>1, <1>3 DEF SameTable, DeleteWrites
<1>6. PICK P \in SUBSET Onward :
        /\ Rewrites(d, done.db, P)
        /\ \A r \in P : RowRemoved(page, i, r) \/ Blank(r) \/ Copied(d, r)
  <2>1. CASE Len(page.rows) = 1
    <3>1. PICK q : Emptied(page, p, q) /\ Rewrites(d, done.db, {q} \cup Behind(d, page))
      BY <1>4, <2>1
    <3>2. RowRemoved(page, i, q) /\ q \in Onward
      BY <1>4, <2>1, <3>1 DEF Emptied, RowRemoved
    <3>3. Behind(d, page) \in SUBSET Onward /\ \A r \in Behind(d, page) : Copied(d, r)
      BY <1>1, <2>1, BehindCopied
    <3> DEFINE Q == {q} \cup Behind(d, page)
    <3>4. Q \in SUBSET Onward /\ Rewrites(d, done.db, Q)
      BY <3>1, <3>2, <3>3
    <3>5. \A r \in Q : RowRemoved(page, i, r) \/ Copied(d, r)
      BY <3>2, <3>3
    <3> HIDE DEF Q
    <3> QED
      BY <3>4, <3>5
  <2>2. CASE Len(page.rows) # 1
    <3>1. TablePage(done.tbl) \in Onward /\ Blank(TablePage(done.tbl))
      BY <1>3, <1>5, TablePageBlank DEF DeleteWrites
    <3>2. p \in Onward
      BY <1>4 DEF RowRemoved
    <3> DEFINE Q == {p, TablePage(done.tbl)}
    <3>3. Q \in SUBSET Onward /\ Rewrites(d, done.db, Q)
      BY <1>4, <2>2, <3>1, <3>2
    <3>4. \A r \in Q : RowRemoved(page, i, r) \/ Blank(r)
      BY <1>4, <3>1
    <3> HIDE DEF Q
    <3> QED
      BY <3>3, <3>4
  <2> QED
    BY <2>1, <2>2
<1>7. done.db \in Database /\ done.db.file \in Seq(Onward)
  BY <1>1, <1>6, RewrittenFile
<1>8. Leaves(d, t, done.db, done.tbl)
  <2>1. Len(d.file) <= Len(done.db.file) /\ d.number_of_pages <= MaxPages
    BY <1>6 DEF Rewrites, Usable
  <2> QED
    BY <1>3, <1>5, <1>7, <2>1 DEF Leaves, Usable, DeleteWrites
<1>9. Deleted(d, page, i, done.db)
  BY <1>6 DEF Deleted
<1>10. RowRemoved(page, i, done.pg) \/ done.pg = NoPage
  BY <1>4
<1>11. \A n \in 1 .. Len(d.file) : n = page.page_number =>
         done.db.file[n].rows \in {<<>>, RemoveAt(page.rows, i)}
  BY <1>4 DEF RowRemoved
<1> QED
  BY <1>8, <1>9, <1>10, <1>11 DEF done

(* What is left when deleteData is killed after it has unlinked the        *)
(* page.                                                                   *)
LEMMA UnlinkDone ==
    ASSUME NEW d, NEW t, Usable(d, t), NEW page \in Onward, NEW i,
           NextAtHome(d, page), Len(page.rows) = 1
    PROVE  LET e == UnlinkPage(d, page)
           IN  Leaves(d, t, e, t) /\ Deleted(d, page, i, e)
<1> DEFINE e == UnlinkPage(d, page)
<1>1. d \in Database /\ d.file \in Seq(Onward)
  BY DEF Usable
<1>2. page.next # 0 =>
        d.file[page.next] \in Onward /\ d.file[page.next].page_number = page.next
  BY <1>1, ElementOfSeq DEF NextAtHome
<1>3. /\ Rewrites(d, e, Behind(d, page)) /\ SameLists(d, e)
      /\ e.number_of_pages = d.number_of_pages
  BY <1>1, <1>2, UnlinkRewrites
<1>4. Behind(d, page) \in SUBSET Onward /\ \A r \in Behind(d, page) : Copied(d, r)
  BY <1>1, BehindCopied
<1> HIDE DEF e
<1>5. e \in Database /\ e.file \in Seq(Onward)
  BY <1>1, <1>3, <1>4, RewrittenFile
<1>6. Leaves(d, t, e, t)
  BY <1>3, <1>5 DEF Leaves, Usable, Rewrites, SameLists
<1>7. Deleted(d, page, i, e)
  BY <1>3, <1>4 DEF Deleted
<1> QED
  BY <1>6, <1>7 DEF e

----------------------------------------------------------------------------
(***************************************************************************)
(* Every step keeps the shapes.                                            *)
(***************************************************************************)
LEMMA ShapesUsable ==
    ASSUME Shapes
    PROVE  /\ Usable(db, tbl) /\ db \in Database /\ db.file \in Seq(Onward)
           /\ Len(db.file) \in Nat /\ DOMAIN db.file = 1 .. Len(db.file)
           /\ eof \in 0 .. Len(db.file) /\ eof \in Nat
           /\ db.number_of_pages \in Nat /\ MaxPages \in Nat
<1>1. /\ Usable(db, tbl) /\ db \in Database /\ db.file \in Seq(Onward)
      /\ eof \in 0 .. Len(db.file)
  BY DEF Shapes, FileShape, ProgramShape, Usable
<1>2. Len(db.file) \in Nat /\ DOMAIN db.file = 1 .. Len(db.file)
  BY <1>1, LenProperties
<1>3. db.number_of_pages \in Nat
  BY <1>1 DEF Database
<1> QED
  BY <1>1, <1>2, <1>3, StoreBounds

(* What a call leaves is written: db and eof have the shape of a file.     *)
LEMMA WrittenFile ==
    ASSUME Shapes, db.first_table_page # 0,
           NEW d, NEW u, Leaves(db, tbl, d, u), Write(d)
    PROVE  FileShape' /\ db' = d /\ saved' = saved
<1>1. /\ d \in Database /\ d.file \in Seq(Onward) /\ d.number_of_pages <= MaxPages
      /\ d.first_table_page # 0 /\ Len(db.file) <= Len(d.file)
  BY DEF Leaves, Usable
<1>2. FileShape
  BY DEF Shapes
<1>3. /\ db' = d /\ saved' = saved /\ eof' \in 0 .. Len(d.file)
      /\ \A n \in 1 .. Len(d.file) :
           n > eof' => n \in 1 .. Len(db.file) /\ d.file[n] = db.file[n] /\ n > eof
  BY <1>1, <1>2, WriteReaches
<1>4. NoTableYet(d)
  BY <1>1 DEF NoTableYet
<1>5. ASSUME NEW n \in 1 .. Len(d.file), n > eof' PROVE d.file[n] = ZeroPage
  BY <1>2, <1>3, <1>5 DEF FileShape
<1> QED
  BY <1>1, <1>3, <1>4, <1>5 DEF FileShape, NoTableYet

(* InsertData and KilledInserting keep the file in shape.                  *)
LEMMA InsertWritten ==
    ASSUME Shapes, NEW v \in Values, NEW wrote \in BOOLEAN, NEW kept \in BOOLEAN,
           Writing, PlaceReadable(db, eof, tbl),
           Write(insertData(db, tbl, v, wrote, kept).db)
    PROVE  /\ FileShape' /\ saved' = saved /\ db'.first_table_page # 0
           /\ Inserted(db, tbl, v, db')
           /\ insertData(db, tbl, v, wrote, kept).tbl \in Handle
           /\ insertData(db, tbl, v, wrote, kept).tbl.prev_table = 0
<1> DEFINE done == insertData(db, tbl, v, wrote, kept)
<1>1. Usable(db, tbl) /\ eof \in 0 .. Len(db.file)
  BY ShapesUsable
<1>2. Leaves(db, tbl, done.db, done.tbl) /\ Inserted(db, tbl, v, done.db)
  BY <1>1, InsertDone
<1>3. db.first_table_page # 0
  BY DEF Writing, Shapes, ProgramShape
<1> HIDE DEF done
<1>4. Write(done.db)
  BY DEF done
<1>5. FileShape' /\ db' = done.db /\ saved' = saved
  BY <1>2, <1>3, <1>4, WrittenFile
<1> QED
  BY <1>2, <1>3, <1>5 DEF Leaves, Usable, done

(* A row that can be deleted is in a page whose next page is at home.      *)
LEMMA DeletableHere ==
    ASSUME Shapes, NEW i, Deletable(i)
    PROVE  /\ pg \in Onward /\ pg # NoPage /\ i \in DOMAIN pg.rows /\ NextAtHome(db, pg)
           /\ pc = "open" /\ AtHome /\ db.first_table_page # 0
<1>1. /\ pg # NoPage /\ i \in DOMAIN pg.rows /\ pc = "open" /\ AtHome
      /\ Len(pg.rows) = 1 /\ pg.next # 0 =>
           pg.next \in 1 .. eof /\ db.file[pg.next] # ZeroPage
  BY DEF Deletable, Writing, Readable
<1>2. eof \in 0 .. Len(db.file) /\ Len(db.file) \in Nat
  BY ShapesUsable
<1>3. NextAtHome(db, pg)
  BY <1>1, <1>2 DEF NextAtHome, AtHome
<1> QED
  BY <1>1, <1>3 DEF Shapes, ProgramShape

(* DeleteData keeps the file in shape, and takes the row out of the page   *)
(* in memory.                                                              *)
LEMMA DeleteWritten ==
    ASSUME Shapes, NEW i, Deletable(i), NEW kept \in BOOLEAN,
           Write(deleteData(db, tbl, pg, i, kept).db)
    PROVE  LET done == deleteData(db, tbl, pg, i, kept)
           IN  /\ FileShape' /\ saved' = saved /\ db'.first_table_page # 0
               /\ db' = done.db /\ Deleted(db, pg, i, db')
               /\ done.tbl \in Handle /\ done.tbl.prev_table = 0
               /\ RowRemoved(pg, i, done.pg) \/ done.pg = NoPage
               /\ \A n \in 1 .. Len(db.file) : n = pg.page_number =>
                    db'.file[n].rows \in {<<>>, RemoveAt(pg.rows, i)}
<1> DEFINE done == deleteData(db, tbl, pg, i, kept)
<1>1. Usable(db, tbl)
  BY ShapesUsable
<1>2. pg \in Onward /\ i \in DOMAIN pg.rows /\ NextAtHome(db, pg) /\ db.first_table_page # 0
  BY DeletableHere
<1>3. /\ Leaves(db, tbl, done.db, done.tbl) /\ Deleted(db, pg, i, done.db)
      /\ RowRemoved(pg, i, done.pg) \/ done.pg = NoPage
      /\ \A n \in 1 .. Len(db.file) : n = pg.page_number =>
           done.db.file[n].rows \in {<<>>, RemoveAt(pg.rows, i)}
  BY <1>1, <1>2, DeleteDone
<1> HIDE DEF done
<1>4. Write(done.db)
  BY DEF done
<1>5. FileShape' /\ db' = done.db /\ saved' = saved
  BY <1>2, <1>3, <1>4, WrittenFile
<1> QED
  BY <1>2, <1>3, <1>5 DEF Leaves, Usable, done

(* KilledDeleting keeps the file in shape.                                 *)
LEMMA KilledDeletingWritten ==
    ASSUME Shapes, NEW i, KilledDeleting(i)
    PROVE  FileShape' /\ saved' = saved /\ db'.first_table_page # 0 /\ Deleted(db, pg, i, db')
<1>1. Deletable(i) /\ i \in DOMAIN pg.rows
  BY DEF KilledDeleting, Deletable
<1>2. CASE Len(pg.rows) = 1
  <2> DEFINE e == UnlinkPage(db, pg)
  <2>1. Write(e)
    BY <1>2 DEF KilledDeleting
  <2>2. Usable(db, tbl)
    BY ShapesUsable
  <2>3. pg \in Onward /\ NextAtHome(db, pg) /\ db.first_table_page # 0
    BY <1>1, DeletableHere
  <2>4. Leaves(db, tbl, e, tbl) /\ Deleted(db, pg, i, e)
    BY <1>2, <2>2, <2>3, UnlinkDone
  <2> HIDE DEF e
  <2>5. FileShape' /\ db' = e /\ saved' = saved
    BY <2>1, <2>3, <2>4, WrittenFile
  <2> QED
    BY <2>3, <2>4, <2>5 DEF Leaves
<1>3. CASE Len(pg.rows) # 1
  <2>1. Write(deleteData(db, tbl, pg, i, FALSE).db)
    BY <1>3 DEF KilledDeleting
  <2> QED
    BY <1>1, <2>1, DeleteWritten
<1> QED
  BY <1>2, <1>3

(* updateData that moves a row: what deleteData left, then insertData.     *)
LEMMA MoveWritten ==
    ASSUME Shapes, NEW i, NEW v \in Values, UpdateMoves(i, v)
    PROVE  LET cut == deleteData(db, tbl, pg, i, TRUE)
           IN  /\ FileShape' /\ saved' = saved /\ db'.first_table_page # 0
               /\ tbl' \in Handle /\ tbl'.prev_table = 0
               /\ Deleted(db, pg, i, cut.db) /\ Inserted(cut.db, cut.tbl, v, db')
               /\ Usable(cut.db, cut.tbl) /\ PlaceReadable(cut.db, eof, cut.tbl)
               /\ eof \in 0 .. Len(cut.db.file)
               /\ pg' = cut.pg /\ (RowRemoved(pg, i, cut.pg) \/ cut.pg = NoPage)
               /\ \A n \in 1 .. Len(db.file) : n = pg.page_number =>
                    cut.db.file[n].rows \in {<<>>, RemoveAt(pg.rows, i)}
<1> DEFINE cut  == deleteData(db, tbl, pg, i, TRUE)
           done == insertData(cut.db, cut.tbl, v, TRUE, TRUE)
<1>1. /\ Deletable(i) /\ PlaceReadable(cut.db, eof, cut.tbl) /\ Write(done.db)
      /\ tbl' = done.tbl /\ pg' = cut.pg
  BY DEF UpdateMoves
<1>2. Usable(db, tbl) /\ eof \in 0 .. Len(db.file) /\ Len(db.file) \in Nat
  BY ShapesUsable
<1>3. pg \in Onward /\ i \in DOMAIN pg.rows /\ NextAtHome(db, pg) /\ db.first_table_page # 0
  BY <1>1, DeletableHere
<1>4. /\ Leaves(db, tbl, cut.db, cut.tbl) /\ Deleted(db, pg, i, cut.db)
      /\ RowRemoved(pg, i, cut.pg) \/ cut.pg = NoPage
      /\ \A n \in 1 .. Len(db.file) : n = pg.page_number =>
           cut.db.file[n].rows \in {<<>>, RemoveAt(pg.rows, i)}
  BY <1>2, <1>3, DeleteDone
<1> HIDE DEF cut
<1>5. Usable(cut.db, cut.tbl) /\ eof \in 0 .. Len(cut.db.file)
  <2>1. Usable(cut.db, cut.tbl) /\ Len(db.file) <= Len(cut.db.file)
    BY <1>4 DEF Leaves
  <2>2. Len(cut.db.file) \in Nat
    BY <2>1, LenProperties DEF Usable
  <2> QED
    BY <1>2, <2>1, <2>2
<1>6. Leaves(cut.db, cut.tbl, done.db, done.tbl) /\ Inserted(cut.db, cut.tbl, v, done.db)
  BY <1>1, <1>5, InsertDone
<1> HIDE DEF done
<1>7. Leaves(db, tbl, done.db, done.tbl)
  <2>1. /\ cut.db.file \in Seq(Onward) /\ done.db.file \in Seq(Onward)
        /\ Len(db.file) <= Len(cut.db.file) /\ Len(cut.db.file) <= Len(done.db.file)
    BY <1>4, <1>6 DEF Leaves, Usable
  <2>2. Len(cut.db.file) \in Nat /\ Len(done.db.file) \in Nat
    BY <2>1, LenProperties
  <2>3. Len(db.file) <= Len(done.db.file)
    BY <1>2, <2>1, <2>2
  <2> QED
    BY <1>4, <1>6, <2>3 DEF Leaves
<1>8. FileShape' /\ db' = done.db /\ saved' = saved
  BY <1>1, <1>3, <1>7, WrittenFile
<1> QED
  BY <1>1, <1>3, <1>4, <1>5, <1>6, <1>7, <1>8 DEF Leaves, Usable, cut

(* CreateTable writes blank pages only.                                    *)
LEMMA CreateTableWritten ==
    ASSUME Shapes, CreateTable
    PROVE  /\ FileShape' /\ saved' = saved /\ db'.first_table_page # 0
           /\ tbl' \in Handle /\ tbl'.prev_table = 0
           /\ \E P \in SUBSET Onward : Rewrites(db, db', P) /\ \A r \in P : Blank(r)
<1>1. PICK name \in Names : LET d == createTable(db, name, TRUE)
                            IN  Write(d) /\ tbl' = readTable(d, d.first_table_page)
  BY DEF CreateTable
<1> DEFINE got == getFreePage(db)
           t   == [st |-> "live", name |-> name, page_number |-> got.page_number,
                   next_table |-> db.first_table_page,
                   prev_table |-> db.first_table_page,
                   first_row_page |-> 0, free_place |-> 0, iterator |-> 0]
           p   == TablePage(t)
           e   == WritePage(got.db, p.page_number, p, TRUE)
           d   == [e EXCEPT !.first_table_page = got.page_number]
<1>2. createTable(db, name, TRUE) = d
  BY DEF createTable, saveTable, TablePage
<1>3. Write(d) /\ tbl' = readTable(d, d.first_table_page)
  BY <1>1, <1>2
<1>4. /\ db.first_table_page = 0 /\ db.number_of_pages = 0 /\ db.first_free_page = 0
      /\ db.number_of_pages < MaxPages /\ MaxPages \in Nat
      /\ db \in Database /\ db.file \in Seq(Onward)
  BY StoreBounds DEF CreateTable, Shapes, FileShape, NoTableYet
<1>5. /\ Rewrites(db, got.db, {}) /\ got.page_number = 1 /\ got.db \in Database
      /\ got.db.number_of_pages = 1 /\ Len(got.db.file) # 0
      /\ got.db.first_free_page = 0
  <2> DEFINE c == createPage(db)
  <2>1. /\ Rewrites(db, c, {}) /\ SameLists(db, c)
        /\ c.number_of_pages = db.number_of_pages + 1 /\ Len(c.file) # 0
    BY <1>4, CreatePageRewrites
  <2>2. got = [db |-> c, page_number |-> c.number_of_pages]
    BY <1>4 DEF getFreePage
  <2> HIDE DEF c, got
  <2> QED
    BY <1>4, <2>1, <2>2 DEF SameLists, Rewrites
<1> HIDE DEF got
<1>6. t \in Handle /\ t.prev_table = 0 /\ t.page_number = 1
  BY <1>4, <1>5 DEF Handle
<1> HIDE DEF t
<1>7. p \in Onward /\ Blank(p) /\ p \in Page
  BY <1>6, TablePageBlank DEF Onward
<1> HIDE DEF p
<1>8. /\ Rewrites(got.db, e, {p}) /\ SameLists(got.db, e)
      /\ e.number_of_pages = 1 /\ Len(e.file) = Len(got.db.file)
  BY <1>5, <1>7, WriteRewrites
<1> HIDE DEF e
<1>9. Rewrites(db, e, {p})
  <2>1. {} \cup {p} = {p}
    OBVIOUS
  <2> QED
    BY <1>4, <1>5, <1>8, <2>1, RewritesTwice
<1>10. e \in Database /\ e.file \in Seq(Onward)
  BY <1>4, <1>7, <1>9, RewrittenFile
<1>11. /\ d \in Database /\ d.file = e.file /\ d.number_of_pages = 1
       /\ d.first_table_page = 1 /\ Rewrites(db, d, {p})
  <2>1. /\ d \in Database /\ d.file = e.file /\ d.number_of_pages = e.number_of_pages
        /\ d.first_table_page = got.page_number
    BY <1>5, <1>10 DEF Database
  <2> HIDE DEF d
  <2> QED
    BY <1>5, <1>8, <1>9, <2>1 DEF Rewrites
<1> HIDE DEF d
<1>12. /\ db' = d /\ saved' = saved /\ eof' \in 0 .. Len(d.file)
       /\ \A n \in 1 .. Len(d.file) :
            n > eof' => n \in 1 .. Len(db.file) /\ d.file[n] = db.file[n] /\ n > eof
  <2>1. FileShape /\ Len(db.file) <= Len(d.file)
    BY <1>11 DEF Shapes, Rewrites
  <2> QED
    BY <1>3, <1>11, <2>1, WriteReaches
<1>13. FileShape'
  <2>1. ASSUME NEW n \in 1 .. Len(d.file), n > eof' PROVE d.file[n] = ZeroPage
    BY <1>12, <2>1 DEF Shapes, FileShape
  <2>2. d.number_of_pages <= MaxPages /\ NoTableYet(d)
    BY <1>4, <1>11 DEF NoTableYet
  <2> QED
    BY <1>10, <1>11, <1>12, <2>1, <2>2 DEF FileShape, NoTableYet
<1>14. tbl' \in Handle /\ tbl'.prev_table = 0
  <2>1. Len(d.file) \in Nat /\ Len(d.file) # 0
    BY <1>5, <1>8, <1>10, <1>11, LenProperties
  <2>2. 1 \in 1 .. Len(d.file)
    BY <2>1
  <2>3. d.file[1] \in Onward
    BY <1>10, <1>11, <2>2, ElementOfSeq
  <2>4. tbl' = readTable(d, 1)
    BY <1>3, <1>11
  <2> QED
    BY <2>3, <2>4 DEF readTable, Handle, Onward, Page
<1> QED
  BY <1>7, <1>11, <1>12, <1>13, <1>14

(* The file as openDatabase and the links it will follow make it.          *)
LEMMA OpenedFile ==
    ASSUME Shapes, OpenDatabase
    PROVE  /\ FileShape'
           /\ saved' = saved /\ eof' = eof /\ eof <= Len(db'.file)
           /\ \A n \in 1 .. Len(db'.file) :
                db'.file[n] = IF n <= eof THEN db.file[n] ELSE ZeroPage
<1> DEFINE pages  == SubSeq(db.file, 1, eof)
           length == Max({eof} \cup Named(saved, pages))
           f      == [n \in 1 .. length |-> IF n <= eof THEN db.file[n] ELSE ZeroPage]
<1>1. /\ db' = [number_of_pages |-> saved.number_of_pages,
                first_free_page |-> saved.first_free_page,
                first_table_page |-> saved.first_table_page, file |-> f]
      /\ saved' = saved /\ eof' = eof
      /\ saved \in Headers /\ NoTableYet(saved)
  BY DEF OpenDatabase, Shapes, SavedShape
<1>2. /\ db.file \in Seq(Onward) /\ Len(db.file) \in Nat
      /\ eof \in 0 .. Len(db.file) /\ eof \in Nat
  BY ShapesUsable
<1>3. \A n \in 1 .. eof : db.file[n] \in Onward /\ db.file[n] \in Page
  <2>1. \A n \in 1 .. eof : n \in 1 .. Len(db.file)
    BY <1>2
  <2>2. \A n \in 1 .. Len(db.file) : db.file[n] \in Onward
    BY <1>2, ElementOfSeq
  <2> QED
    BY <2>1, <2>2 DEF Onward
<1>4. length \in Nat /\ eof <= length
  <2>1. pages \in Seq(Page)
    BY <1>2, <1>3, SubSeqProperties
  <2> HIDE DEF pages
  <2>2. PICK b \in Nat : \A n \in 1 .. Len(pages) : LinksUpTo(pages[n], b)
    BY <2>1, LinksBounded
  <2>3. PICK x \in Nat, y \in Nat, z \in Nat :
          /\ x = saved.number_of_pages /\ y = saved.first_free_page
          /\ z = saved.first_table_page
    BY <1>1 DEF Headers
  <2>4. PICK c \in Nat : b <= c /\ eof <= c /\ x <= c /\ y <= c /\ z <= c
    <3>1. \A g \in Nat : \E c \in Nat : b <= c /\ g <= c /\ x <= c /\ y <= c /\ z <= c
      <4> SUFFICES ASSUME NEW g \in Nat
                   PROVE  \E c \in Nat : b <= c /\ g <= c /\ x <= c /\ y <= c /\ z <= c
        OBVIOUS
      <4>1. b + g + x + y + z \in Nat
        OBVIOUS
      <4> QED
        BY <4>1
    <3> QED
      BY <1>2, <3>1
  <2>5. \A p \in ToSet(pages) : {p.next, p.prev, p.next_free, p.free_place} \subseteq 0 .. c
    <3> SUFFICES ASSUME NEW p \in ToSet(pages)
                 PROVE  {p.next, p.prev, p.next_free, p.free_place} \subseteq 0 .. c
      OBVIOUS
    <3>1. PICK n \in 1 .. Len(pages) : p = pages[n]
      BY <2>1, LenProperties DEF ToSet
    <3>2. p \in Page /\ LinksUpTo(p, b)
      BY <2>1, <2>2, <3>1, ElementOfSeq
    <3>3. PICK g \in Nat, h \in Nat, j \in Nat, k \in Nat :
            g = p.next /\ h = p.prev /\ j = p.next_free /\ k = p.free_place
      BY <3>2 DEF Page
    <3>4. g <= c /\ h <= c /\ j <= c /\ k <= c
      BY <2>4, <3>2, <3>3 DEF LinksUpTo
    <3>5. {g, h, j, k} \subseteq 0 .. c
      BY <3>4
    <3>6. {p.next, p.prev, p.next_free, p.free_place} = {g, h, j, k}
      BY <3>3
    <3> QED
      BY <3>5, <3>6
  <2>6. Named(saved, pages) \subseteq 0 .. c
    <3>1. {x, y, z} \subseteq 0 .. c
      BY <2>4
    <3>2. {saved.number_of_pages, saved.first_free_page, saved.first_table_page} = {x, y, z}
      BY <2>3
    <3> QED
      BY <2>5, <3>1, <3>2 DEF Named
  <2> DEFINE N == {eof} \cup Named(saved, pages)
  <2>7. N \subseteq 0 .. c /\ N # {} /\ eof \in N
    BY <1>2, <2>4, <2>6
  <2> HIDE DEF N
  <2>8. Max(N) \in N /\ \A y1 \in N : y1 <= Max(N)
    BY <2>7, LargestNat
  <2>9. length = Max(N)
    BY DEF N
  <2>10. Max(N) \in 0 .. c /\ eof <= Max(N)
    BY <2>7, <2>8
  <2> HIDE DEF length
  <2> QED
    BY <2>9, <2>10
<1> HIDE DEF length
<1>5. \A n \in 1 .. length : f[n] \in Onward /\ f[n] \in Page
  <2> SUFFICES ASSUME NEW n \in 1 .. length PROVE f[n] \in Onward
    BY DEF Onward
  <2>1. n <= eof => n \in 1 .. eof
    BY <1>2
  <2> QED
    BY <1>3, <2>1, ZeroPageOnward
<1>6. f \in Seq(Onward) /\ f \in Seq(Page) /\ Len(f) = length
  <2>1. f \in [1 .. length -> Onward] /\ f \in [1 .. length -> Page]
    BY <1>5
  <2> HIDE DEF f
  <2> QED
    BY <1>4, <2>1, SeqDef, LenProperties
<1>7. \A n \in 1 .. Len(f) : f[n] = IF n <= eof THEN db.file[n] ELSE ZeroPage
  BY <1>4, <1>6
<1> HIDE DEF f
<1>8. /\ db' \in Database /\ db'.file = f
      /\ db'.number_of_pages <= MaxPages /\ NoTableYet(db')
  <2>1. /\ db'.number_of_pages = saved.number_of_pages
        /\ db'.first_free_page = saved.first_free_page
        /\ db'.first_table_page = saved.first_table_page
        /\ db'.file = f
    BY <1>1
  <2>2. /\ saved.number_of_pages \in 0 .. MaxPages /\ MaxPages \in Nat
        /\ saved.first_free_page \in Nat /\ saved.first_table_page \in Nat
    BY <1>1, StoreBounds DEF Headers
  <2>3. PICK k \in 0 .. MaxPages : k = saved.number_of_pages
    BY <2>2
  <2>4. k \in Nat /\ k <= MaxPages
    BY <2>2
  <2>5. db' \in Database
    BY <1>1, <1>6, <2>2, <2>3, <2>4 DEF Database
  <2> QED
    BY <1>1, <2>1, <2>3, <2>4, <2>5 DEF NoTableYet
<1>9. /\ eof' \in 0 .. Len(f)
      /\ \A n \in 1 .. Len(f) : n > eof' => f[n] = ZeroPage
  BY <1>1, <1>2, <1>4, <1>6, <1>7
<1>10. FileShape'
  BY <1>6, <1>8, <1>9 DEF FileShape, NoTableYet
<1> QED
  BY <1>1, <1>4, <1>6, <1>7, <1>8, <1>10

(* A handle that was never opened is a handle.                             *)
LEMMA NullHandleType == NullHandle \in Handle /\ NullHandle.prev_table = 0 /\ NullHandle.st = "null"
BY DEF NullHandle, Handle

(* When a process ends, what it held is gone: its variables have their     *)
(* first values.                                                           *)
LEMMA GoneShapes ==
    ASSUME Shapes, Gone PROVE ProgramShape' /\ ClosingShape'
<1>1. 0 \in 0 .. UINT32 - 1
  BY GarbageAssumption
<1>2. ProgramShape'
  BY NullHandleType DEF Gone, ProgramShape
<1>3. ClosingShape'
  BY <1>1, ZeroPageOnward DEF Gone, Shapes, ClosingShape
<1> QED
  BY <1>2, <1>3

\* What the history of a step may be, for the shapes.
LEMMA HistoryKept ==
    ASSUME Shapes, given' \in [Values -> Nat], NEW what, harm' = harm \cup what,
           "resized" \notin what, UNCHANGED count
    PROVE  HistoryShape'
BY DEF Shapes, HistoryShape

(* One row more is a number of rows given.                                 *)
LEMMA OneMore ==
    ASSUME Shapes, NEW v \in Values, Plus(v) PROVE given' \in [Values -> Nat]
BY DEF Plus, Shapes, HistoryShape

(* A call that is counted changes its own count only.                      *)
LEMMA CountedMore ==
    ASSUME Shapes, NEW what \in {"inserts", "updates", "opens"}, Counted(what)
    PROVE  /\ count' \in [inserts : Nat, updates : Nat, opens : Nat]
           /\ what = "updates" => count'.updates = count.updates + 1
           /\ what # "updates" => count'.updates = count.updates
<1>1. count \in [inserts : Nat, updates : Nat, opens : Nat]
  BY DEF Shapes, HistoryShape
<1>2. CASE what = "inserts"
  BY <1>1, <1>2 DEF Counted
<1>3. CASE what = "updates"
  BY <1>1, <1>3 DEF Counted
<1>4. CASE what = "opens"
  BY <1>1, <1>4 DEF Counted
<1> QED
  BY <1>2, <1>3, <1>4

(* CreateDatabase keeps the shapes.                                        *)
LEMMA CreateDatabaseShapes ==
    ASSUME Shapes, CreateDatabase PROVE Shapes'
<1>1. /\ createDatabase \in Database /\ createDatabase.file = <<>>
      /\ createDatabase.number_of_pages = 0 /\ createDatabase.first_free_page = 0
      /\ createDatabase.first_table_page = 0
  <2>1. <<>> \in Seq(Page)
    OBVIOUS
  <2> QED
    BY <2>1 DEF createDatabase, Database
<1>2. <<>> \in Seq(Onward) /\ Len(<<>>) = 0
  OBVIOUS
<1>3. FileShape'
  <2> DEFINE c == createDatabase
  <2>1. db' = c /\ eof' = 0
    BY DEF CreateDatabase
  <2>2. 0 <= MaxPages /\ NoTableYet(c)
    BY <1>1, StoreBounds DEF NoTableYet
  <2>3. /\ c \in Database /\ c.file \in Seq(Onward) /\ Len(c.file) = 0
        /\ c.number_of_pages <= MaxPages
    BY <1>1, <1>2, <2>2
  <2>4. 0 \in 0 .. Len(c.file) /\ 1 .. Len(c.file) = {}
    BY <2>3
  <2> HIDE DEF c
  <2> QED
    BY <2>1, <2>2, <2>3, <2>4 DEF FileShape, NoTableYet
<1>4. SavedShape'
  <2>1. EmptyHeader \in Headers /\ NoTableYet(EmptyHeader)
    BY <1>1, StoreBounds DEF EmptyHeader, Header, Headers, NoTableYet
  <2> QED
    BY <2>1 DEF CreateDatabase, SavedShape, NoTableYet
<1>5. ProgramShape'
  <2>1. tbl = NullHandle /\ pg = NoPage
    BY DEF CreateDatabase, Shapes, ProgramShape
  <2> QED
    BY <2>1, NullHandleType DEF CreateDatabase, Shapes, ProgramShape
<1>6. ClosingShape'
  BY <1>2 DEF CreateDatabase, Shapes, ClosingShape
<1>7. HistoryShape'
  BY DEF CreateDatabase, HistoryShape, NoRows, NoCount
<1> QED
  BY <1>3, <1>4, <1>5, <1>6, <1>7 DEF Shapes

(* OpenDatabase keeps the shapes.                                          *)
LEMMA OpenDatabaseShapes ==
    ASSUME Shapes, OpenDatabase PROVE Shapes'
<1>1. FileShape' /\ saved' = saved
  BY OpenedFile
<1>2. SavedShape'
  BY <1>1 DEF Shapes, SavedShape, NoTableYet
<1>3. tbl = NullHandle /\ pg = NoPage
  BY DEF OpenDatabase, Shapes, ProgramShape
<1>4. ProgramShape'
  BY <1>3, NullHandleType DEF OpenDatabase, ProgramShape
<1>5. <<>> \in Seq(Onward)
  OBVIOUS
<1>6. ClosingShape'
  BY <1>5 DEF OpenDatabase, Shapes, ClosingShape
<1>7. HistoryShape'
  <2>1. Counted("opens")
    BY DEF OpenDatabase
  <2>2. count' \in [inserts : Nat, updates : Nat, opens : Nat] /\ count'.updates = count.updates
    BY <2>1, CountedMore
  <2> QED
    BY <2>2 DEF OpenDatabase, Shapes, HistoryShape
<1> QED
  BY <1>1, <1>2, <1>4, <1>6, <1>7 DEF Shapes

(* CreateTable keeps the shapes.                                           *)
LEMMA CreateTableShapes ==
    ASSUME Shapes, CreateTable PROVE Shapes'
<1>1. /\ FileShape' /\ saved' = saved /\ db'.first_table_page # 0
      /\ tbl' \in Handle /\ tbl'.prev_table = 0
  BY CreateTableWritten
<1>2. SavedShape'
  BY <1>1 DEF Shapes, SavedShape, NoTableYet
<1>3. ProgramShape'
  BY <1>1 DEF CreateTable, Program, Shapes, ProgramShape
<1>4. ClosingShape' /\ HistoryShape'
  BY DEF CreateTable, Program, closing, history, Shapes, ClosingShape, HistoryShape
<1> QED
  BY <1>1, <1>2, <1>3, <1>4 DEF Shapes

(* Neither the file nor the history changes.                               *)
LEMMA FileKept ==
    ASSUME Shapes, UNCHANGED file PROVE FileShape' /\ SavedShape'
BY DEF file, Shapes, FileShape, SavedShape, NoTableYet

(* A step that gives no row and counts no call keeps the shape of the      *)
(* history.                                                                *)
LEMMA HistorySame ==
    ASSUME Shapes, UNCHANGED history PROVE HistoryShape'
BY DEF history, Shapes, HistoryShape

(* FindTable keeps the shapes.                                             *)
LEMMA FindTableShapes ==
    ASSUME Shapes, FindTable PROVE Shapes'
<1>1. FileShape' /\ SavedShape' /\ HistoryShape'
  BY FileKept, HistorySame DEF FindTable
<1> DEFINE n == db.first_table_page
<1>2. CASE Gone
  BY <1>1, <1>2, GoneShapes DEF Shapes
<1>3. CASE /\ n = 0 \/ (n <= eof /\ db.file[n].name # NoName)
           /\ tbl' = IF n = 0 THEN NullHandle ELSE readTable(db, n)
           /\ UNCHANGED <<pc, pg, closing>>
  <2>1. tbl' \in Handle /\ tbl'.prev_table = 0 /\ (tbl'.st = "live" => n # 0)
    <3>1. CASE n = 0
      BY <1>3, <3>1, NullHandleType
    <3>2. CASE n # 0
      <4>1. n \in Nat /\ n \in 1 .. Len(db.file) /\ db.file \in Seq(Onward)
        BY <1>3, <3>2, ShapesUsable DEF Database
      <4>2. db.file[n] \in Onward
        BY <4>1, ElementOfSeq
      <4>3. tbl' = readTable(db, n)
        BY <1>3, <3>2
      <4> QED
        BY <3>2, <4>2, <4>3 DEF readTable, Handle, Onward, Page
    <3> QED
      BY <3>1, <3>2
  <2>2. db' = db /\ pc = "open"
    BY DEF FindTable, file
  <2>3. ProgramShape'
    BY <1>3, <2>1, <2>2 DEF Shapes, ProgramShape
  <2>4. ClosingShape'
    BY <1>3 DEF closing, Shapes, ClosingShape
  <2> QED
    BY <1>1, <2>3, <2>4 DEF Shapes
<1> QED
  BY <1>2, <1>3 DEF FindTable

(* ReadPage keeps the shapes.                                              *)
LEMMA ReadPageShapes ==
    ASSUME Shapes, ReadPage PROVE Shapes'
<1>1. FileShape' /\ SavedShape' /\ HistoryShape'
  BY FileKept, HistorySame DEF ReadPage
<1>2. PICK n : \/ Readable(db, eof, n) /\ pg' = readRowPage(db, n)
               \/ n > eof /\ pg' = NoPage
  BY DEF ReadPage
<1>3. pg' \in Onward \cup {NoPage}
  <2>1. CASE Readable(db, eof, n) /\ pg' = readRowPage(db, n)
    <3>1. n \in 1 .. Len(db.file) /\ db.file \in Seq(Onward)
      BY <2>1, ShapesUsable DEF Readable
    <3>2. db.file[n] \in Onward
      BY <3>1, ElementOfSeq
    <3> QED
      BY <2>1, <3>2, ReadRowPageOnward
  <2> QED
    BY <1>2, <2>1
<1>4. ProgramShape'
  BY <1>3 DEF ReadPage, Program, file, Shapes, ProgramShape
<1>5. ClosingShape'
  BY DEF ReadPage, Program, closing, Shapes, ClosingShape
<1> QED
  BY <1>1, <1>4, <1>5 DEF Shapes

(* InsertData keeps the shapes.                                            *)
LEMMA InsertDataShapes ==
    ASSUME Shapes, NEW v \in Values, InsertData(v) PROVE Shapes'
<1> DEFINE done == insertData(db, tbl, v, TRUE, TRUE)
<1>1. Writing /\ PlaceReadable(db, eof, tbl) /\ Write(done.db) /\ tbl' = done.tbl
  BY DEF InsertData
<1>2. /\ FileShape' /\ saved' = saved /\ db'.first_table_page # 0
      /\ done.tbl \in Handle /\ done.tbl.prev_table = 0
  BY <1>1, InsertWritten
<1> HIDE DEF done
<1>3. SavedShape'
  BY <1>2 DEF Shapes, SavedShape, NoTableYet
<1>4. ProgramShape'
  BY <1>1, <1>2 DEF Writing, InsertData, Shapes, ProgramShape
<1>5. ClosingShape'
  BY DEF InsertData, closing, Shapes, ClosingShape
<1>6. HistoryShape'
  <2>1. given' \in [Values -> Nat]
    BY OneMore DEF InsertData
  <2>2. Counted("inserts") /\ ("resized" \in harm' => "resized" \in harm)
    BY DEF InsertData, Harmed, If
  <2>3. count' \in [inserts : Nat, updates : Nat, opens : Nat] /\ count'.updates = count.updates
    BY <2>2, CountedMore
  <2> QED
    BY <2>1, <2>2, <2>3 DEF Shapes, HistoryShape
<1> QED
  BY <1>2, <1>3, <1>4, <1>5, <1>6 DEF Shapes

(* KilledInserting keeps the shapes.                                       *)
LEMMA KilledInsertingShapes ==
    ASSUME Shapes, NEW v \in Values, KilledInserting(v) PROVE Shapes'
<1>1. PICK wrote \in BOOLEAN : Write(insertData(db, tbl, v, wrote, FALSE).db)
  BY DEF KilledInserting
<1>2. Writing /\ PlaceReadable(db, eof, tbl) /\ Gone
  BY DEF KilledInserting
<1>3. FileShape' /\ saved' = saved
  BY <1>1, <1>2, InsertWritten
<1>4. SavedShape'
  BY <1>3 DEF Shapes, SavedShape, NoTableYet
<1>5. HistoryShape'
  <2>1. given' \in [Values -> Nat]
    BY OneMore DEF KilledInserting
  <2>2. Counted("inserts") /\ ("resized" \in harm' => "resized" \in harm)
    BY DEF KilledInserting, Harmed, If
  <2>3. count' \in [inserts : Nat, updates : Nat, opens : Nat] /\ count'.updates = count.updates
    BY <2>2, CountedMore
  <2> QED
    BY <2>1, <2>2, <2>3 DEF Shapes, HistoryShape
<1> QED
  BY <1>2, <1>3, <1>4, <1>5, GoneShapes DEF Shapes

(* DeleteData keeps the shapes.                                            *)
LEMMA DeleteDataShapes ==
    ASSUME Shapes, NEW i, DeleteData(i) PROVE Shapes'
<1> DEFINE done == deleteData(db, tbl, pg, i, TRUE)
<1>1. /\ Deletable(i) /\ Write(done.db) /\ tbl' = done.tbl /\ pg' = done.pg
  BY DEF DeleteData
<1>2. /\ FileShape' /\ saved' = saved /\ db'.first_table_page # 0
      /\ done.tbl \in Handle /\ done.tbl.prev_table = 0
      /\ RowRemoved(pg, i, done.pg) \/ done.pg = NoPage
  BY <1>1, DeleteWritten
<1> HIDE DEF done
<1>3. SavedShape'
  BY <1>2 DEF Shapes, SavedShape, NoTableYet
<1>4. ProgramShape'
  BY <1>1, <1>2, DeletableHere DEF DeleteData, Shapes, ProgramShape, RowRemoved
<1>5. ClosingShape'
  BY DEF DeleteData, closing, Shapes, ClosingShape
<1>6. HistoryShape'
  <2>1. given' \in [Values -> Nat]
    <3> DEFINE less(w) == IF w = 0 THEN 0 ELSE w - 1
    <3>1. given \in [Values -> Nat]
      BY DEF Shapes, HistoryShape
    <3>2. given' = [given EXCEPT ![pg.rows[i]] = less(@)]
      BY DEF DeleteData, Minus
    <3>3. \A w \in Nat : less(w) \in Nat
      OBVIOUS
    <3> HIDE DEF less
    <3> QED
      BY <3>1, <3>2, <3>3
  <2>2. UNCHANGED count /\ ("resized" \in harm' => "resized" \in harm)
    BY DEF DeleteData, Harmed, If
  <2> QED
    BY <2>1, <2>2 DEF Shapes, HistoryShape
<1> QED
  BY <1>2, <1>3, <1>4, <1>5, <1>6 DEF Shapes

(* KilledDeleting keeps the shapes.                                        *)
LEMMA KilledDeletingShapes ==
    ASSUME Shapes, NEW i, KilledDeleting(i) PROVE Shapes'
<1>1. FileShape' /\ saved' = saved
  BY KilledDeletingWritten
<1>2. SavedShape'
  BY <1>1 DEF Shapes, SavedShape, NoTableYet
<1>3. ProgramShape' /\ ClosingShape'
  BY GoneShapes DEF KilledDeleting
<1>4. HistoryShape'
  BY DEF KilledDeleting, Harmed, Shapes, HistoryShape
<1> QED
  BY <1>1, <1>2, <1>3, <1>4 DEF Shapes

(* A page that was read as NULL keeps the shapes.                          *)
LEMMA NullDereferencedShapes ==
    ASSUME Shapes, InsertNull \/ DeleteNull PROVE Shapes'
<1>1. Gone /\ UNCHANGED <<file, history>>
  BY DEF InsertNull, DeleteNull
<1> QED
  BY <1>1, GoneShapes, FileKept, HistorySame DEF Shapes

\* Page page with row i changed to v, by its length only if it changed.
RowReplaced(page, i, v, p) ==
    /\ p \in Onward
    /\ p.page_number = page.page_number
    /\ p.rows = [page.rows EXCEPT ![i] = v]
    /\ RowLen[v] = RowLen[page.rows[i]] => p.free_space = page.free_space

(* An update in place replaces one row of the page in memory.              *)
LEMMA UpdateInPlaceEffect ==
    ASSUME NEW t \in Handle, NEW page \in Onward, NEW i \in DOMAIN page.rows,
           NEW v \in Values
    PROVE  LET done == UpdateInPlace(t, page, i, v)
           IN  /\ done.tbl \in Handle /\ SameTable(t, done.tbl)
               /\ RowReplaced(page, i, v, done.pg)
<1>1. /\ page \in Page /\ page.prev = 0 /\ page.rows \in Seq(Values)
      /\ page.free_space \in uint16_t /\ page.free_space \in Nat
      /\ page.next_free \in Nat
  BY OnwardFields
<1>2. i \in 1 .. Len(page.rows)
  BY <1>1, LenProperties
<1>3. page.rows[i] \in Values /\ RowLen[page.rows[i]] \in Nat /\ RowLen[v] \in Nat
  <2>1. page.rows[i] \in Values
    BY <1>1, <1>2, ElementOfSeq
  <2> QED
    BY <2>1, RowLenAssumption
<1> DEFINE a     == RowLen[page.rows[i]]
           b     == RowLen[v]
           space == (page.free_space + b - a) % U16
           rows  == [page.rows EXCEPT ![i] = v]
           p     == [page EXCEPT !.rows[i] = v, !.free_space = space]
           u     == IF space < RowSize THEN [t EXCEPT !.free_place = page.next_free] ELSE t
<1>4. rows \in Seq(Values)
  BY <1>1, <1>2, ExceptSeq
<1>5. space \in uint16_t /\ (a = b => space = page.free_space)
  <2>1. PICK x \in Nat, y \in Nat, z \in Nat : x = page.free_space /\ y = b /\ z = a
    BY <1>1, <1>3
  <2>2. x + y - z \in Int
    OBVIOUS
  <2>3. (x + y - z) % U16 \in uint16_t
    BY <2>2, WrappedSums
  <2>4. y = z => x + y - z = x
    OBVIOUS
  <2>5. x % U16 = x
    <3>1. x \in uint16_t
      BY <1>1, <2>1
    <3> QED
      BY <3>1, Unwrapped
  <2> HIDE DEF a, b
  <2> QED
    BY <2>1, <2>3, <2>4, <2>5
<1>6. UpdateInPlace(t, page, i, v) = [tbl |-> u, pg |-> p]
  BY DEF UpdateInPlace
<1> HIDE DEF space
<1>7. p = [page EXCEPT !.rows = rows, !.free_space = space]
  BY <1>1 DEF Page
<1> HIDE DEF p, rows
<1>8. /\ p \in Onward /\ p.page_number = page.page_number /\ p.rows = rows
      /\ p.free_space = space
  BY <1>1, <1>4, <1>5, <1>7 DEF Onward, Page
<1>9. RowReplaced(page, i, v, p)
  BY <1>5, <1>8 DEF RowReplaced, rows
<1>10. u \in Handle /\ SameTable(t, u)
  <2> DEFINE q == [t EXCEPT !.free_place = page.next_free]
  <2>1. q \in Handle /\ SameTable(t, q)
    BY <1>1 DEF Handle, SameTable
  <2>2. u \in {q, t}
    OBVIOUS
  <2> HIDE DEF q, u
  <2> QED
    BY <2>1, <2>2 DEF SameTable
<1> HIDE DEF u
<1> QED
  BY <1>6, <1>9, <1>10

(* UpdateInMemory replaces one row of the page the program holds.          *)
LEMMA UpdateInMemoryDone ==
    ASSUME Shapes, NEW i, NEW v \in Values, UpdateInMemory(i, v)
    PROVE  /\ tbl' \in Handle /\ SameTable(tbl, tbl') /\ RowReplaced(pg, i, v, pg')
           /\ pg \in Onward /\ pg # NoPage /\ i \in DOMAIN pg.rows
           /\ AtHome /\ pc = "open" /\ tbl.st = "live"
<1>1. /\ pg \in Onward /\ pg # NoPage /\ i \in DOMAIN pg.rows /\ tbl \in Handle
      /\ AtHome /\ pc = "open" /\ tbl.st = "live"
  BY DEF UpdateInMemory, Writing, Shapes, ProgramShape
<1> DEFINE done == UpdateInPlace(tbl, pg, i, v)
<1>2. done.tbl \in Handle /\ SameTable(tbl, done.tbl) /\ RowReplaced(pg, i, v, done.pg)
  BY <1>1, UpdateInPlaceEffect
<1>3. tbl' = done.tbl /\ pg' = done.pg
  BY DEF UpdateInMemory
<1> HIDE DEF done
<1> QED
  BY <1>1, <1>2, <1>3

(* UpdateInMemory keeps the shapes.                                        *)
LEMMA UpdateInMemoryShapes ==
    ASSUME Shapes, NEW i, NEW v \in Values, UpdateInMemory(i, v) PROVE Shapes'
<1>1. /\ tbl' \in Handle /\ SameTable(tbl, tbl') /\ RowReplaced(pg, i, v, pg')
      /\ pc = "open" /\ tbl.st = "live" /\ pc' = pc
  BY UpdateInMemoryDone DEF UpdateInMemory
<1>2. FileShape' /\ SavedShape'
  BY FileKept DEF UpdateInMemory
<1>3. ProgramShape'
  <2>1. db' = db
    BY DEF UpdateInMemory, file
  <2> QED
    BY <1>1, <2>1 DEF Shapes, ProgramShape, SameTable, RowReplaced
<1>4. ClosingShape'
  BY DEF UpdateInMemory, closing, Shapes, ClosingShape
<1>5. HistoryShape'
  <2>1. given' \in [Values -> Nat]
    BY OneMore DEF UpdateInMemory
  <2>2. Counted("updates")
    BY DEF UpdateInMemory
  <2>3. /\ count' \in [inserts : Nat, updates : Nat, opens : Nat]
        /\ count'.updates = count.updates + 1 /\ count.updates \in Nat
    BY <2>2, CountedMore DEF Shapes, HistoryShape
  <2>4. count'.updates # 0
    BY <2>3
  <2> QED
    BY <2>1, <2>3, <2>4 DEF HistoryShape
<1> QED
  BY <1>2, <1>3, <1>4, <1>5 DEF Shapes

(* UpdateMoves keeps the shapes.                                           *)
LEMMA UpdateMovesShapes ==
    ASSUME Shapes, NEW i, NEW v \in Values, UpdateMoves(i, v) PROVE Shapes'
<1> DEFINE cut == deleteData(db, tbl, pg, i, TRUE)
<1>1. /\ FileShape' /\ saved' = saved /\ db'.first_table_page # 0
      /\ tbl' \in Handle /\ tbl'.prev_table = 0
      /\ pg' = cut.pg /\ (RowRemoved(pg, i, cut.pg) \/ cut.pg = NoPage)
  BY MoveWritten
<1> HIDE DEF cut
<1>2. SavedShape'
  BY <1>1 DEF Shapes, SavedShape, NoTableYet
<1>3. pc = "open" /\ pc' = pc
  BY DEF UpdateMoves, Deletable, Writing
<1>4. ProgramShape'
  BY <1>1, <1>3 DEF Shapes, ProgramShape, RowRemoved
<1>5. ClosingShape'
  BY DEF UpdateMoves, closing, Shapes, ClosingShape
<1>6. HistoryShape'
  <2>1. given' \in [Values -> Nat]
    <3> DEFINE more(w) == IF w = v THEN 1 ELSE 0
               less(w) == IF w = pg.rows[i] /\ given[w] > 0 THEN 1 ELSE 0
    <3>1. given \in [Values -> Nat]
      BY DEF Shapes, HistoryShape
    <3>2. given' = [w \in Values |-> given[w] + more(w) - less(w)]
      BY DEF UpdateMoves
    <3>3. \A w \in Values : given[w] + more(w) - less(w) \in Nat
      BY <3>1
    <3> HIDE DEF more, less
    <3> QED
      BY <3>2, <3>3
  <2>2. Counted("updates")
    BY DEF UpdateMoves
  <2>3. /\ count' \in [inserts : Nat, updates : Nat, opens : Nat]
        /\ count'.updates = count.updates + 1 /\ count.updates \in Nat
    BY <2>2, CountedMore DEF Shapes, HistoryShape
  <2>4. count'.updates # 0
    BY <2>3
  <2> QED
    BY <2>1, <2>3, <2>4 DEF HistoryShape
<1> QED
  BY <1>1, <1>2, <1>4, <1>5, <1>6 DEF Shapes

(* CloseDatabase keeps the shapes.                                         *)
LEMMA CloseDatabaseShapes ==
    ASSUME Shapes, CloseDatabase PROVE Shapes'
<1>1. FileShape' /\ SavedShape'
  BY FileKept DEF CloseDatabase
<1>2. ProgramShape'
  BY NullHandleType DEF CloseDatabase, ProgramShape
<1>3. ClosingShape'
  <2>1. <<>> \in Seq(Onward)
    OBVIOUS
  <2>2. offset' \in 0 .. UINT32 - 1
    BY GarbageAssumption DEF CloseDatabase
  <2>3. /\ copy' = <<>> /\ buf' = ZeroPage /\ at' = 1 /\ at' \in Nat /\ at' # 0
    BY DEF CloseDatabase
  <2> QED
    BY <2>1, <2>2, <2>3, ZeroPageOnward DEF ClosingShape
<1>4. HistoryShape'
  BY DEF CloseDatabase, Harmed, If, Shapes, HistoryShape
<1> QED
  BY <1>1, <1>2, <1>3, <1>4 DEF Shapes

(* What a turn of the loop does: the page it looks at is a free page, which*)
(* is counted, or is copied with another number.                           *)
LEMMA CopyPageDone ==
    ASSUME Shapes, CopyPage
    PROVE  LET page == IF at <= eof THEN db.file[at] ELSE buf
           IN  /\ page \in Onward /\ at \in Nat \ {0} /\ at' = at + 1
               /\ at <= db.number_of_pages /\ db'.file = db.file
               /\ at <= eof => at \in 1 .. Len(db.file)
               /\ \/ /\ page.page_type = "FREE_PAGE"
                     /\ db' = [db EXCEPT !.number_of_pages = @ - 1]
                     /\ offset' = (offset + 1) % UINT32
                     /\ buf' = page /\ copy' = copy
                  \/ /\ page.page_type # "FREE_PAGE"
                     /\ db' = db /\ offset' = offset
                     /\ buf' = [page EXCEPT !.page_number = (@ - offset) % UINT32]
                     /\ buf' \in Onward /\ buf'.rows = page.rows
                     /\ buf'.free_space = page.free_space
                     /\ buf'.page_type = page.page_type
                     /\ buf'.page_number = (page.page_number - offset) % UINT32
                     /\ copy' = Append(copy, buf')
<1> DEFINE page  == IF at <= eof THEN db.file[at] ELSE buf
           moved == [page EXCEPT !.page_number = (@ - offset) % UINT32]
<1>1. /\ at <= db.number_of_pages /\ at' = at + 1
      /\ IF page.page_type = "FREE_PAGE"
         THEN /\ db' = [db EXCEPT !.number_of_pages = @ - 1]
              /\ offset' = (offset + 1) % UINT32 /\ buf' = page
              /\ UNCHANGED copy
         ELSE /\ copy' = Append(copy, moved) /\ buf' = moved
              /\ UNCHANGED <<db, offset>>
  BY DEF CopyPage
<1>2. /\ at \in Nat \ {0} /\ buf \in Onward /\ offset \in 0 .. UINT32 - 1
      /\ db.file \in Seq(Onward) /\ eof \in 0 .. Len(db.file) /\ Len(db.file) \in Nat
      /\ db \in Database
  BY ShapesUsable DEF CopyPage, Shapes, ClosingShape
<1>3. at <= eof => at \in 1 .. Len(db.file)
  BY <1>2
<1>4. page \in Onward
  <2>1. at <= eof => db.file[at] \in Onward
    BY <1>2, <1>3, ElementOfSeq
  <2> QED
    BY <1>2, <2>1
<1> HIDE DEF page
<1>5. /\ moved \in Onward /\ moved.rows = page.rows /\ moved.free_space = page.free_space
      /\ moved.page_type = page.page_type
      /\ moved.page_number = (page.page_number - offset) % UINT32
  <2>1. page \in Page /\ page.prev = 0 /\ page.page_number \in Nat
    BY <1>4 DEF Onward, Page
  <2>2. (page.page_number - offset) % UINT32 \in Nat
    <3>1. PICK x \in Nat : x = page.page_number
      BY <2>1
    <3>2. PICK m \in Nat : m = UINT32 /\ m # 0
      BY GarbageAssumption
    <3>3. PICK y \in Nat : y = offset
      BY <1>2, GarbageAssumption
    <3>4. x - y \in Int
      OBVIOUS
    <3>5. (x - y) % m \in 0 .. m - 1
      BY <3>2, <3>4
    <3>6. (x - y) % m \in Nat
      BY <3>5
    <3> QED
      BY <3>1, <3>2, <3>3, <3>6
  <2> DEFINE n == (page.page_number - offset) % UINT32
  <2>3. moved = [page EXCEPT !.page_number = n]
    BY <2>1 DEF Page
  <2> HIDE DEF n
  <2>4. n \in Nat
    BY <2>2 DEF n
  <2>5. /\ moved \in Onward /\ moved.rows = page.rows /\ moved.free_space = page.free_space
        /\ moved.page_type = page.page_type /\ moved.page_number = n
    BY <2>1, <2>3, <2>4 DEF Onward, Page
  <2> QED
    BY <2>5 DEF n
<1>6. page.page_type = "FREE_PAGE" => db'.file = db.file
  BY <1>1, <1>2 DEF Database
<1> QED
  BY <1>1, <1>2, <1>3, <1>4, <1>5, <1>6 DEF page

(* CopyPage keeps the shapes.                                              *)
LEMMA CopyPageShapes ==
    ASSUME Shapes, CopyPage PROVE Shapes'
<1> DEFINE page == IF at <= eof THEN db.file[at] ELSE buf
<1>1. /\ page \in Onward /\ at \in Nat \ {0} /\ at' = at + 1
      /\ at <= db.number_of_pages /\ db'.file = db.file
      /\ \/ /\ db' = [db EXCEPT !.number_of_pages = @ - 1]
            /\ offset' = (offset + 1) % UINT32
            /\ buf' = page /\ copy' = copy
         \/ /\ db' = db /\ offset' = offset
            /\ buf' \in Onward /\ copy' = Append(copy, buf')
  BY CopyPageDone
<1> HIDE DEF page
<1>2. /\ saved' = saved /\ eof' = eof /\ pc = "copying" /\ pc' = pc /\ tbl' = tbl /\ pg' = pg
      /\ given' = given /\ count' = count
      /\ harm' = harm \cup If(at > eof, "past end")
  BY DEF CopyPage, Harmed
<1>3. /\ db \in Database /\ db.number_of_pages \in Nat /\ db.number_of_pages <= MaxPages
      /\ NoTableYet(db) /\ MaxPages \in Nat
  BY ShapesUsable DEF Shapes, FileShape
<1>4. db.number_of_pages # 0 /\ db.number_of_pages - 1 \in Nat
      /\ db.number_of_pages - 1 <= MaxPages
  BY <1>1, <1>3
<1>5. /\ db' \in Database /\ db'.number_of_pages <= MaxPages
      /\ db'.first_table_page = db.first_table_page /\ db.first_table_page # 0
  <2>1. db.first_table_page # 0
    BY <1>3, <1>4 DEF NoTableYet
  <2>2. CASE db' = db
    BY <1>3, <2>1, <2>2
  <2>3. CASE db' = [db EXCEPT !.number_of_pages = @ - 1]
    BY <1>3, <1>4, <2>1, <2>3 DEF Database
  <2> QED
    BY <1>1, <2>2, <2>3
<1>6. FileShape'
  BY <1>1, <1>2, <1>5 DEF Shapes, FileShape, NoTableYet
<1>7. SavedShape'
  BY <1>2 DEF Shapes, SavedShape, NoTableYet
<1>8. ProgramShape'
  BY <1>2, <1>5 DEF Shapes, ProgramShape
<1>9. ClosingShape'
  <2>1. offset' \in 0 .. UINT32 - 1
    <3>1. PICK m \in Nat : m = UINT32 /\ m # 0
      BY GarbageAssumption
    <3>2. offset \in 0 .. m - 1
      BY <3>1 DEF Shapes, ClosingShape
    <3>3. PICK x \in Nat : x = offset /\ x \in 0 .. m - 1
      BY <3>1, <3>2
    <3>4. (x + 1) % m \in 0 .. m - 1
      BY <3>1
    <3> QED
      BY <1>1, <3>1, <3>3, <3>4
  <2>2. copy' \in Seq(Onward) /\ buf' \in Onward
    BY <1>1, SMTT(30) DEF Shapes, ClosingShape
  <2>3. at' \in Nat /\ at' # 0
    BY <1>1
  <2> QED
    BY <1>2, <2>1, <2>2, <2>3 DEF ClosingShape
<1>10. HistoryShape'
  BY <1>2 DEF If, Shapes, HistoryShape
<1> QED
  BY <1>6, <1>7, <1>8, <1>9, <1>10 DEF Shapes

(* SaveDatabase keeps the shapes.                                          *)
LEMMA SaveDatabaseShapes ==
    ASSUME Shapes, SaveDatabase PROVE Shapes'
<1>1. FileShape' /\ SavedShape' /\ HistoryShape'
  BY FileKept, HistorySame DEF SaveDatabase
<1>2. ProgramShape'
  BY DEF SaveDatabase, file, Shapes, ProgramShape
<1>3. ClosingShape'
  BY DEF SaveDatabase, closing, Shapes, ClosingShape
<1> QED
  BY <1>1, <1>2, <1>3 DEF Shapes

(* RemoveOld keeps the shapes.                                             *)
LEMMA RemoveOldShapes ==
    ASSUME Shapes, RemoveOld PROVE Shapes'
<1>1. FileShape'
  BY DEF RemoveOld, Shapes, FileShape, NoTableYet
<1>2. SavedShape'
  BY DEF RemoveOld, SavedShape
<1>3. ProgramShape'
  BY DEF RemoveOld, Shapes, ProgramShape
<1>4. ClosingShape' /\ HistoryShape'
  BY HistorySame DEF RemoveOld, closing, Shapes, ClosingShape
<1> QED
  BY <1>1, <1>2, <1>3, <1>4 DEF Shapes

(* RenameNew keeps the shapes.                                             *)
LEMMA RenameNewShapes ==
    ASSUME Shapes, RenameNew PROVE Shapes'
<1>1. copy \in Seq(Onward) /\ Gone
  BY DEF RenameNew, Shapes, ClosingShape
<1>2. Len(copy) \in Nat /\ copy \in Seq(Page)
  <2>1. \A n \in 1 .. Len(copy) : copy[n] \in Page
    BY <1>1, ElementOfSeq DEF Onward
  <2> QED
    BY <1>1, <2>1, NarrowedSeq, LenProperties
<1>3. /\ db' \in Database /\ db'.file = copy
      /\ db'.number_of_pages = 0 /\ db'.first_free_page = 0 /\ eof' = Len(copy)
  BY <1>2 DEF RenameNew, createDatabase, Database
<1>4. FileShape'
  <2>1. 0 <= MaxPages /\ Len(copy) \in 0 .. Len(copy)
    BY <1>2, StoreBounds
  <2>2. \A n \in 1 .. Len(copy) : ~(n > Len(copy))
    BY <1>2
  <2> QED
    BY <1>1, <1>3, <2>1, <2>2 DEF FileShape, NoTableYet
<1>5. SavedShape'
  <2>1. db \in Database /\ db.number_of_pages <= MaxPages /\ NoTableYet(db)
    BY DEF Shapes, FileShape
  <2>2. PICK k \in Nat : k = db.number_of_pages
    BY <2>1 DEF Database
  <2>3. k \in 0 .. MaxPages
    BY <2>1, <2>2, StoreBounds
  <2>4. /\ db.number_of_pages \in 0 .. MaxPages /\ db.first_free_page \in Nat
        /\ db.first_table_page \in Nat
    BY <2>1, <2>2, <2>3 DEF Database
  <2> DEFINE h == Header(db)
  <2>5. h \in Headers /\ NoTableYet(h)
    BY <2>1, <2>4 DEF Header, Headers, NoTableYet
  <2>6. saved' = h
    BY DEF RenameNew
  <2> HIDE DEF h
  <2> QED
    BY <2>5, <2>6 DEF SavedShape, NoTableYet
<1>6. ProgramShape' /\ ClosingShape'
  BY <1>1, GoneShapes
<1>7. HistoryShape'
  BY HistorySame DEF RenameNew
<1> QED
  BY <1>4, <1>5, <1>6, <1>7 DEF Shapes

(* Killed keeps the shapes.                                                *)
LEMMA KilledShapes ==
    ASSUME Shapes, Killed PROVE Shapes'
<1>1. Gone /\ UNCHANGED <<file, given, count>> /\ harm' = harm \cup {"killed"}
  BY DEF Killed, Harmed
<1>2. HistoryShape'
  BY <1>1 DEF Shapes, HistoryShape
<1> QED
  BY <1>1, <1>2, GoneShapes, FileKept DEF Shapes

(* SecondServer keeps the shapes.                                          *)
LEMMA SecondServerShapes ==
    ASSUME Shapes, SecondServer PROVE Shapes'
<1> DEFINE f == [n \in DOMAIN db.file |-> ZeroPage]
<1>1. /\ db' = [db EXCEPT !.file = f] /\ eof' = 0 /\ saved' = EmptyHeader
      /\ UNCHANGED <<pc, tbl, pg, closing, given, count>>
      /\ harm' = harm \cup {"truncated"}
  BY DEF SecondServer, Harmed
<1>2. /\ db \in Database /\ Len(db.file) \in Nat /\ DOMAIN db.file = 1 .. Len(db.file)
  BY ShapesUsable
<1>3. f \in [1 .. Len(db.file) -> Onward] /\ f \in [1 .. Len(db.file) -> Page]
  BY <1>2, ZeroPageOnward, ZeroPageType
<1>4. f \in Seq(Onward) /\ f \in Seq(Page) /\ Len(f) = Len(db.file)
  <2> HIDE DEF f
  <2> QED
    BY <1>2, <1>3, SeqDef, LenProperties
<1>5. \A n \in 1 .. Len(f) : f[n] = ZeroPage
  BY <1>2, <1>4
<1> HIDE DEF f
<1>6. /\ db' \in Database /\ db'.file = f
      /\ db'.number_of_pages = db.number_of_pages
      /\ db'.first_free_page = db.first_free_page
      /\ db'.first_table_page = db.first_table_page
  BY <1>1, <1>2, <1>4 DEF Database
<1>7. FileShape'
  <2>1. 0 \in 0 .. Len(f)
    BY <1>2, <1>4
  <2> QED
    BY <1>1, <1>4, <1>5, <1>6, <2>1 DEF Shapes, FileShape, NoTableYet
<1>8. SavedShape'
  <2>1. EmptyHeader \in Headers /\ NoTableYet(EmptyHeader)
    BY StoreBounds DEF createDatabase, EmptyHeader, Header, Headers, NoTableYet
  <2> QED
    BY <1>1, <2>1 DEF SavedShape, NoTableYet
<1>9. ProgramShape'
  BY <1>1, <1>6 DEF Shapes, ProgramShape
<1>10. ClosingShape'
  BY <1>1 DEF closing, Shapes, ClosingShape
<1>11. HistoryShape'
  BY <1>1 DEF Shapes, HistoryShape
<1> QED
  BY <1>7, <1>8, <1>9, <1>10, <1>11 DEF Shapes

(* A step that changes nothing keeps the shapes.                           *)
LEMMA StutterShapes ==
    ASSUME Shapes, UNCHANGED vars PROVE Shapes'
<1>1. FileShape' /\ SavedShape'
  BY FileKept DEF vars
<1>2. ProgramShape'
  BY DEF vars, file, Shapes, ProgramShape
<1>3. ClosingShape'
  BY DEF vars, closing, Shapes, ClosingShape
<1>4. HistoryShape'
  BY HistorySame DEF vars
<1> QED
  BY <1>1, <1>2, <1>3, <1>4 DEF Shapes

(* The shapes hold before the first file is created.                       *)
LEMMA InitShapes == Init => Shapes
<1> SUFFICES ASSUME Init PROVE Shapes
  OBVIOUS
<1>1. /\ createDatabase \in Database /\ createDatabase.file = <<>>
      /\ createDatabase.number_of_pages = 0 /\ createDatabase.first_free_page = 0
  <2>1. <<>> \in Seq(Page)
    OBVIOUS
  <2> QED
    BY <2>1 DEF createDatabase, Database
<1>2. <<>> \in Seq(Onward) /\ Len(<<>>) = 0
  OBVIOUS
<1>3. FileShape
  <2>1. 0 <= MaxPages /\ 0 \in 0 .. Len(<<>>) /\ 1 .. Len(<<>>) = {}
    BY <1>2, StoreBounds
  <2>2. db = createDatabase /\ eof = 0
    BY DEF Init
  <2> QED
    BY <1>1, <1>2, <2>1, <2>2 DEF FileShape, NoTableYet
<1>4. SavedShape
  BY DEF Init, SavedShape
<1>5. ProgramShape
  BY NullHandleType DEF Init, ProgramShape
<1>6. ClosingShape
  BY <1>2, GarbageAssumption, ZeroPageOnward DEF Init, ClosingShape
<1>7. HistoryShape
  BY DEF Init, HistoryShape, NoRows, NoCount
<1> QED
  BY <1>3, <1>4, <1>5, <1>6, <1>7 DEF Shapes

(* Every step keeps the shapes.                                            *)
LEMMA NextShapes ==
    ASSUME Shapes, [Next]_vars PROVE Shapes'
<1>1. CASE \E v \in Values : InsertData(v) \/ KilledInserting(v)
  BY <1>1, InsertDataShapes, KilledInsertingShapes
<1>2. CASE \E i \in 1 .. MaxInserts : DeleteData(i) \/ KilledDeleting(i)
  BY <1>2, DeleteDataShapes, KilledDeletingShapes
<1>3. CASE \E i \in 1 .. MaxInserts, v \in Values : UpdateInMemory(i, v) \/ UpdateMoves(i, v)
  BY <1>3, UpdateInMemoryShapes, UpdateMovesShapes
<1> QED
  BY <1>1, <1>2, <1>3, CreateDatabaseShapes, OpenDatabaseShapes, CreateTableShapes,
     FindTableShapes, ReadPageShapes, NullDereferencedShapes, CloseDatabaseShapes,
     CopyPageShapes, SaveDatabaseShapes, RemoveOldShapes, RenameNewShapes,
     KilledShapes, SecondServerShapes, StutterShapes DEF Next

(* Whatever pages are emptied, freed twice, cut off or read past the end,  *)
(* every page of the file, of new_file.bin and in memory stays a page, and *)
(* what is handed out of them stays in the ranges of its types.            *)
THEOREM StoreTyped == Spec => []TypeOK
<1>1. Shapes => TypeOK
  <2> SUFFICES ASSUME Shapes PROVE TypeOK
    OBVIOUS
  <2>1. /\ db.number_of_pages \in Nat /\ eof \in 0 .. Len(db.file)
        /\ DOMAIN db.file = 1 .. Len(db.file)
    BY ShapesUsable
  <2>2. \A n \in 1 .. Len(db.file) : db.file[n] \in Page
    BY ShapesUsable, ElementOfSeq DEF Onward
  <2>3. copy \in Seq(Page)
    <3>1. copy \in Seq(Onward)
      BY DEF Shapes, ClosingShape
    <3>2. \A n \in 1 .. Len(copy) : copy[n] \in Page
      BY <3>1, ElementOfSeq DEF Onward
    <3> QED
      BY <3>1, <3>2, NarrowedSeq
  <2>4. pg \in Page \cup {NoPage} /\ tbl \in Handle
    BY DEF Shapes, ProgramShape, Onward
  <2>5. /\ pc \in {"off", "open", "copying", "copied", "removed"}
        /\ at \in Nat /\ offset \in 0 .. UINT32 - 1 /\ given \in [Values -> Nat]
    BY DEF Shapes, ProgramShape, ClosingShape, HistoryShape
  <2> QED
    BY <2>1, <2>2, <2>3, <2>4, <2>5 DEF TypeOK
<1> QED
  BY <1>1, InitShapes, NextShapes, PTL DEF Spec

----------------------------------------------------------------------------
(***************************************************************************)
(* Space: no page claims more than it has.                                 *)
(***************************************************************************)
Sound(p) == p.free_space + PageBytes(p.rows) <= PageSpace

AllSound(f) == \A n \in 1 .. Len(f) : Sound(f[n])

SpaceInv ==
    harm \cap {"wrapped", "resized"} = {} =>
        /\ AllSound(db.file) /\ AllSound(copy) /\ Sound(buf)
        /\ pg # NoPage => Sound(pg)

(* A page without rows claims no room it does not have.                    *)
LEMMA BlankSound ==
    ASSUME NEW r \in Onward, Blank(r) PROVE Sound(r)
<1>1. r.rows = <<>> /\ r.free_space <= PageSpace /\ r.free_space \in Nat
  BY OnwardFields DEF Blank
<1>2. PageSpace \in Nat
  BY PageSpaceType
<1> QED
  BY <1>1, <1>2, PageBytesOfNone DEF Sound

(* A page of zeros claims no room at all.                                  *)
LEMMA ZeroPageSound == Sound(ZeroPage) /\ Blank(ZeroPage)
<1>1. PageSpace \in Nat
  BY PageSpaceType
<1>2. Blank(ZeroPage)
  BY <1>1, ZeroPageOnward DEF Blank
<1> QED
  BY <1>2, BlankSound, ZeroPageOnward

(* If the pages written are sound, the file stays sound.                   *)
LEMMA RewrittenSound ==
    ASSUME NEW d, NEW e, NEW P, Rewrites(d, e, P), AllSound(d.file),
           \A r \in P : Sound(r)
    PROVE  AllSound(e.file)
BY ZeroPageSound DEF AllSound, Rewrites

(* A row is added where there is space for it and for its entry in         *)
(* row_lens.                                                               *)
LEMMA AddedSound ==
    ASSUME NEW d, d.file \in Seq(Onward), AllSound(d.file),
           NEW t, t.free_place # 0 => t.free_place \in 1 .. Len(d.file),
           NEW v \in Values, ~Wraps(d, t, v),
           NEW p \in Onward, RowAdded(d, t, v, p)
    PROVE  Sound(p)
<1> DEFINE space == IF t.free_place = 0 THEN PageSpace
                    ELSE d.file[t.free_place].free_space
           rows  == IF t.free_place = 0 THEN <<>> ELSE d.file[t.free_place].rows
<1>1. PageSpace \in Nat /\ PageSpace < U16
  BY PageSpaceType
<1>2. RowLen[v] \in Nat
  BY RowLenAssumption
<1>3. space \in Nat /\ rows \in Seq(Values) /\ space + PageBytes(rows) <= PageSpace
  <2>1. CASE t.free_place = 0
    <3>1. space = PageSpace /\ rows = <<>>
      BY <2>1
    <3>2. <<>> \in Seq(Values)
      OBVIOUS
    <3> HIDE DEF space, rows
    <3> QED
      BY <1>1, <3>1, <3>2, PageBytesOfNone
  <2>2. CASE t.free_place # 0
    <3> DEFINE q == d.file[t.free_place]
    <3>1. q \in Onward /\ Sound(q)
      BY <2>2, ElementOfSeq DEF AllSound
    <3>2. q.free_space \in Nat /\ q.rows \in Seq(Values)
      BY <3>1, OnwardFields
    <3>3. space = q.free_space /\ rows = q.rows
      BY <2>2
    <3> HIDE DEF q, space, rows
    <3> QED
      BY <3>1, <3>2, <3>3 DEF Sound
  <2> QED
    BY <2>1, <2>2
<1>4. p.rows = Append(rows, v)
  <2>1. Append(<<>>, v) = <<v>>
    OBVIOUS
  <2> QED
    BY <2>1 DEF RowAdded
<1>5. p.free_space = (space - (RowLen[v] + LenSize)) % U16
  BY DEF RowAdded
<1>6. ~(space < RowLen[v] + LenSize)
  BY DEF Wraps
<1> HIDE DEF space, rows
<1>7. PageBytes(p.rows) = PageBytes(rows) + RowLen[v] + LenSize /\ PageBytes(rows) \in Nat
  BY <1>3, <1>4, PageBytesOfAppended, RowEndsInPage
<1>8. PICK x \in Nat, n \in Nat, b \in Nat :
        x = space /\ n = RowLen[v] /\ b = PageBytes(rows)
  BY <1>2, <1>3, <1>7
<1>9. x + b <= PageSpace /\ n + 2 <= x
  BY <1>3, <1>6, <1>8 DEF LenSize
<1>10. (x - (n + 2)) % U16 = x - (n + 2)
  <2>1. x - (n + 2) \in uint16_t
    BY <1>1, <1>9, WordSize, WordMember
  <2> QED
    BY <2>1, Unwrapped
<1>11. p.free_space = x - (n + 2) /\ PageBytes(p.rows) = b + n + 2
  BY <1>5, <1>7, <1>8, <1>10 DEF LenSize
<1>12. x - (n + 2) + (b + n + 2) <= PageSpace
  BY <1>1, <1>9
<1> QED
  BY <1>11, <1>12 DEF Sound

(* A row that is deleted gives back less than it took.                     *)
LEMMA RemovedSound ==
    ASSUME NEW page \in Onward, Sound(page), NEW i \in DOMAIN page.rows,
           NEW p, RowRemoved(page, i, p)
    PROVE  Sound(p) /\ PageBytes(p.rows) <= PageBytes(page.rows)
<1>1. page.rows \in Seq(Values) /\ page.free_space \in Nat
  BY OnwardFields
<1>2. i \in 1 .. Len(page.rows)
  BY <1>1, LenProperties
<1>3. RowLen[page.rows[i]] \in Nat
  <2>1. page.rows[i] \in Values
    BY <1>1, <1>2, ElementOfSeq
  <2> QED
    BY <2>1, RowLenAssumption
<1>4. /\ PageBytes(p.rows) + RowLen[page.rows[i]] + LenSize = PageBytes(page.rows)
      /\ PageBytes(p.rows) \in Nat /\ PageBytes(page.rows) \in Nat
  <2>1. p.rows = RemoveAt(page.rows, i) /\ p.rows \in Seq(Values)
    BY <1>1, <1>2, RemoveAtEffect DEF RowRemoved
  <2> QED
    BY <1>1, <1>2, <2>1, PageBytesOfRemoved, RowEndsInPage
<1>5. PICK x \in Nat, n \in Nat, b \in Nat, c \in Nat :
        /\ x = page.free_space /\ n = RowLen[page.rows[i]]
        /\ b = PageBytes(page.rows) /\ c = PageBytes(p.rows)
  BY <1>1, <1>3, <1>4
<1>6. x + b <= PageSpace /\ c + n + 2 = b /\ PageSpace \in Nat /\ PageSpace < U16
  BY <1>4, <1>5, PageSpaceType DEF Sound, LenSize
<1>7. (x + n) % U16 = x + n
  <2>1. x + n \in uint16_t
    BY <1>6, WordSize, WordMember
  <2> QED
    BY <2>1, Unwrapped
<1>8. p.free_space = x + n
  BY <1>5, <1>7 DEF RowRemoved
<1>9. x + n + c <= PageSpace /\ c <= b
  BY <1>6
<1> QED
  BY <1>5, <1>8, <1>9 DEF Sound

(* A row inserted leaves its page sound unless free_space wraps around.    *)
LEMMA InsertedSound ==
    ASSUME NEW d, d.file \in Seq(Onward), AllSound(d.file),
           NEW t, t.free_place # 0 => t.free_place \in 1 .. Len(d.file),
           NEW v \in Values, ~Wraps(d, t, v), NEW e, Inserted(d, t, v, e)
    PROVE  AllSound(e.file)
<1>1. PICK p \in Onward, P \in SUBSET Onward :
        /\ RowAdded(d, t, v, p) /\ Rewrites(d, e, P)
        /\ \A r \in P : r = p \/ Blank(r)
  BY DEF Inserted
<1>2. Sound(p)
  BY <1>1, AddedSound
<1>3. \A r \in P : Sound(r)
  BY <1>1, <1>2, BlankSound
<1> QED
  BY <1>1, <1>3, RewrittenSound

(* A row deleted gives its page no more room than it took.                 *)
LEMMA DeletedSound ==
    ASSUME NEW d, AllSound(d.file), NEW page \in Onward, Sound(page),
           NEW i \in DOMAIN page.rows, NEW e, Deleted(d, page, i, e)
    PROVE  AllSound(e.file)
<1>1. PICK P \in SUBSET Onward :
        /\ Rewrites(d, e, P)
        /\ \A r \in P : RowRemoved(page, i, r) \/ Blank(r) \/ Copied(d, r)
  BY DEF Deleted
<1>2. ASSUME NEW r \in P PROVE Sound(r)
  <2>1. CASE RowRemoved(page, i, r)
    BY <2>1, RemovedSound
  <2>2. CASE Blank(r)
    BY <2>2, BlankSound
  <2>3. CASE Copied(d, r)
    BY <2>3 DEF Copied, AllSound, Sound
  <2> QED
    BY <1>1, <2>1, <2>2, <2>3
<1> QED
  BY <1>1, <1>2, RewrittenSound

\* The page insertData puts a row on is a page of the file, or a new one.
LEMMA PlaceInFile ==
    ASSUME NEW d, d.file \in Seq(Onward), NEW t, NEW e \in 0 .. Len(d.file),
           PlaceReadable(d, e, t)
    PROVE  t.free_place # 0 => t.free_place \in 1 .. Len(d.file)
<1>1. Len(d.file) \in Nat
  BY LenProperties
<1> QED
  BY <1>1 DEF PlaceReadable, Readable

----------------------------------------------------------------------------
(* insertData, whole or killed, overstates no space.                       *)
LEMMA InsertSpace ==
    ASSUME Shapes, SpaceInv, NEW v \in Values, InsertData(v) \/ KilledInserting(v)
    PROVE  SpaceInv'
<1> SUFFICES ASSUME harm' \cap {"wrapped", "resized"} = {}
             PROVE  /\ AllSound(db'.file) /\ AllSound(copy') /\ Sound(buf')
                    /\ pg' # NoPage => Sound(pg')
  BY DEF SpaceInv
<1>1. Writing /\ PlaceReadable(db, eof, tbl) /\ harm \subseteq harm'
      /\ (Wraps(db, tbl, v) => "wrapped" \in harm')
  BY DEF InsertData, KilledInserting, Harmed, If
<1>2. harm \cap {"wrapped", "resized"} = {} /\ ~Wraps(db, tbl, v)
  BY <1>1
<1>3. AllSound(db.file) /\ AllSound(copy) /\ Sound(buf) /\ (pg # NoPage => Sound(pg))
  BY <1>2 DEF SpaceInv
<1>4. Inserted(db, tbl, v, db')
  <2>1. PICK wrote \in BOOLEAN, kept \in BOOLEAN :
          Write(insertData(db, tbl, v, wrote, kept).db)
    BY DEF InsertData, KilledInserting
  <2> QED
    BY <1>1, <2>1, InsertWritten
<1>5. db.file \in Seq(Onward) /\ eof \in 0 .. Len(db.file)
  BY ShapesUsable
<1>6. AllSound(db'.file)
  BY <1>1, <1>2, <1>3, <1>4, <1>5, PlaceInFile, InsertedSound
<1>7. copy' = copy /\ (buf' = buf \/ buf' = ZeroPage) /\ (pg' = pg \/ pg' = NoPage)
  BY DEF InsertData, KilledInserting, closing, Gone
<1> QED
  BY <1>3, <1>6, <1>7, ZeroPageSound

(* deleteData, whole or killed, overstates no space.                       *)
LEMMA DeleteSpace ==
    ASSUME Shapes, SpaceInv, NEW i, DeleteData(i) \/ KilledDeleting(i)
    PROVE  SpaceInv'
<1> SUFFICES ASSUME harm' \cap {"wrapped", "resized"} = {}
             PROVE  /\ AllSound(db'.file) /\ AllSound(copy') /\ Sound(buf')
                    /\ pg' # NoPage => Sound(pg')
  BY DEF SpaceInv
<1>1. Deletable(i) /\ harm \subseteq harm'
  BY DEF DeleteData, KilledDeleting, Harmed
<1>2. AllSound(db.file) /\ AllSound(copy) /\ Sound(buf) /\ (pg # NoPage => Sound(pg))
  BY <1>1 DEF SpaceInv
<1>3. pg \in Onward /\ pg # NoPage /\ i \in DOMAIN pg.rows
  BY <1>1, DeletableHere
<1>4. /\ Deleted(db, pg, i, db') /\ copy' = copy /\ (buf' = buf \/ buf' = ZeroPage)
      /\ RowRemoved(pg, i, pg') \/ pg' = NoPage
  <2>1. CASE DeleteData(i)
    <3> DEFINE done == deleteData(db, tbl, pg, i, TRUE)
    <3>1. Write(done.db) /\ pg' = done.pg
      BY <2>1 DEF DeleteData
    <3>2. Deleted(db, pg, i, db') /\ (RowRemoved(pg, i, done.pg) \/ done.pg = NoPage)
      BY <1>1, <3>1, DeleteWritten
    <3> HIDE DEF done
    <3> QED
      BY <2>1, <3>1, <3>2 DEF DeleteData, closing
  <2>2. CASE KilledDeleting(i)
    BY <2>2, KilledDeletingWritten DEF KilledDeleting, Gone
  <2> QED
    BY <2>1, <2>2
<1>5. AllSound(db'.file)
  BY <1>2, <1>3, <1>4, DeletedSound
<1>6. pg' # NoPage => Sound(pg')
  BY <1>2, <1>3, <1>4, RemovedSound
<1> QED
  BY <1>2, <1>4, <1>5, <1>6, ZeroPageSound

(* Nor does an update that deletes the row and inserts it anew.            *)
LEMMA MoveSpace ==
    ASSUME Shapes, SpaceInv, NEW i, NEW v \in Values, UpdateMoves(i, v)
    PROVE  SpaceInv'
<1> SUFFICES ASSUME harm' \cap {"wrapped", "resized"} = {}
             PROVE  /\ AllSound(db'.file) /\ AllSound(copy') /\ Sound(buf')
                    /\ pg' # NoPage => Sound(pg')
  BY DEF SpaceInv
<1> DEFINE cut == deleteData(db, tbl, pg, i, TRUE)
<1>1. /\ Deletable(i) /\ harm \subseteq harm'
      /\ Wraps(cut.db, cut.tbl, v) => "wrapped" \in harm'
      /\ UNCHANGED <<pc, closing>>
  BY DEF UpdateMoves, Harmed, If
<1>2. AllSound(db.file) /\ AllSound(copy) /\ Sound(buf) /\ (pg # NoPage => Sound(pg))
  BY <1>1 DEF SpaceInv
<1>3. pg \in Onward /\ pg # NoPage /\ i \in DOMAIN pg.rows
  BY <1>1, DeletableHere
<1>4. /\ Deleted(db, pg, i, cut.db) /\ Inserted(cut.db, cut.tbl, v, db')
      /\ Usable(cut.db, cut.tbl) /\ PlaceReadable(cut.db, eof, cut.tbl)
      /\ eof \in 0 .. Len(cut.db.file)
      /\ pg' = cut.pg /\ (RowRemoved(pg, i, cut.pg) \/ cut.pg = NoPage)
  BY MoveWritten
<1> HIDE DEF cut
<1>5. AllSound(cut.db.file)
  BY <1>2, <1>3, <1>4, DeletedSound
<1>6. AllSound(db'.file)
  <2>1. ~Wraps(cut.db, cut.tbl, v) /\ cut.db.file \in Seq(Onward)
    BY <1>1, <1>4 DEF Usable
  <2> QED
    BY <1>4, <1>5, <2>1, PlaceInFile, InsertedSound
<1>7. pg' # NoPage => Sound(pg')
  BY <1>2, <1>3, <1>4, RemovedSound
<1> QED
  BY <1>1, <1>2, <1>6, <1>7 DEF closing

(* An update in memory overstates space only if it changes the length of   *)
(* a row.                                                                  *)
LEMMA UpdateSpace ==
    ASSUME Shapes, SpaceInv, NEW i, NEW v \in Values, UpdateInMemory(i, v)
    PROVE  SpaceInv'
<1> SUFFICES ASSUME harm' \cap {"wrapped", "resized"} = {}
             PROVE  /\ AllSound(db'.file) /\ AllSound(copy') /\ Sound(buf')
                    /\ pg' # NoPage => Sound(pg')
  BY DEF SpaceInv
<1>1. /\ harm \subseteq harm' /\ RowLen[v] = RowLen[pg.rows[i]]
      /\ UNCHANGED <<pc, file, closing>>
  BY DEF UpdateInMemory, Harmed, If
<1>2. /\ AllSound(db.file) /\ AllSound(copy) /\ Sound(buf) /\ (pg # NoPage => Sound(pg))
  BY <1>1 DEF SpaceInv
<1>3. RowReplaced(pg, i, v, pg') /\ pg \in Onward /\ pg # NoPage /\ i \in DOMAIN pg.rows
  BY UpdateInMemoryDone
<1>4. pg.rows \in Seq(Values) /\ i \in 1 .. Len(pg.rows)
  BY <1>3, OnwardFields, LenProperties
<1>5. /\ PageBytes(pg'.rows) + RowLen[pg.rows[i]] = PageBytes(pg.rows) + RowLen[v]
      /\ PageBytes(pg'.rows) \in Nat /\ PageBytes(pg.rows) \in Nat
  <2>1. pg'.rows = [pg.rows EXCEPT ![i] = v] /\ pg'.rows \in Seq(Values)
    BY <1>3, <1>4, ExceptSeq DEF RowReplaced
  <2> DEFINE r == [pg.rows EXCEPT ![i] = v]
  <2>2. PageBytes(r) + RowLen[pg.rows[i]] = PageBytes(pg.rows) + RowLen[v]
    BY <1>4, PageBytesOfReplaced
  <2>3. r = pg'.rows
    BY <2>1
  <2> HIDE DEF r
  <2>4. PageBytes(r) \in Nat /\ PageBytes(pg.rows) \in Nat
    BY <1>4, <2>1, <2>3, RowEndsInPage
  <2> QED
    BY <2>2, <2>3, <2>4
<1>6. PageBytes(pg'.rows) = PageBytes(pg.rows)
  <2>1. RowLen[v] \in Nat
    BY RowLenAssumption
  <2>2. PICK x \in Nat, y \in Nat, z \in Nat :
          x = PageBytes(pg'.rows) /\ y = PageBytes(pg.rows) /\ z = RowLen[v]
    BY <1>5, <2>1
  <2>3. x + z = y + z
    BY <1>1, <1>5, <2>2
  <2> QED
    BY <2>2, <2>3
<1>7. Sound(pg')
  BY <1>1, <1>2, <1>3, <1>6 DEF Sound, RowReplaced
<1> QED
  BY <1>1, <1>2, <1>7 DEF file, closing

(* closeDatabase copies the room a page claims together with its rows.     *)
LEMMA CopySpace ==
    ASSUME Shapes, SpaceInv, CopyPage PROVE SpaceInv'
<1> SUFFICES ASSUME harm' \cap {"wrapped", "resized"} = {}
             PROVE  /\ AllSound(db'.file) /\ AllSound(copy') /\ Sound(buf')
                    /\ pg' # NoPage => Sound(pg')
  BY DEF SpaceInv
<1>1. harm \subseteq harm' /\ pg' = pg
  BY DEF CopyPage, Harmed
<1>2. /\ AllSound(db.file) /\ AllSound(copy) /\ Sound(buf) /\ (pg # NoPage => Sound(pg))
  BY <1>1 DEF SpaceInv
<1> DEFINE page == IF at <= eof THEN db.file[at] ELSE buf
<1>3. /\ page \in Onward /\ db'.file = db.file
      /\ at <= eof => at \in 1 .. Len(db.file)
      /\ \/ buf' = page /\ copy' = copy
         \/ /\ buf' \in Onward /\ buf'.rows = page.rows
            /\ buf'.free_space = page.free_space /\ copy' = Append(copy, buf')
  BY CopyPageDone
<1>4. Sound(page)
  BY <1>2, <1>3 DEF AllSound
<1> HIDE DEF page
<1>5. Sound(buf')
  BY <1>3, <1>4 DEF Sound
<1>6. AllSound(copy')
  <2>1. CASE copy' = copy
    BY <1>2, <2>1
  <2>2. CASE buf' \in Onward /\ copy' = Append(copy, buf')
    <3>1. copy \in Seq(Onward)
      BY DEF Shapes, ClosingShape
    <3>2. Len(copy) \in Nat /\ Len(copy') = Len(copy) + 1
      BY <2>2, <3>1, LenProperties, AppendProperties
    <3>3. \A n \in 1 .. Len(copy) : copy'[n] = copy[n]
      BY <2>2, <3>1, AppendProperties
    <3>4. copy'[Len(copy) + 1] = buf'
      BY <2>2, <3>1, AppendProperties
    <3> SUFFICES ASSUME NEW n \in 1 .. Len(copy) + 1 PROVE Sound(copy'[n])
      BY <3>2 DEF AllSound
    <3>5. n \in 1 .. Len(copy) \/ n = Len(copy) + 1
      BY <3>2
    <3> QED
      BY <1>2, <1>5, <3>3, <3>4, <3>5 DEF AllSound
  <2> QED
    BY <1>3, <2>1, <2>2
<1> QED
  BY <1>1, <1>2, <1>3, <1>5, <1>6

(* The other steps write no row.                                           *)
LEMMA OtherSpace ==
    ASSUME Shapes, SpaceInv,
           \/ CreateDatabase \/ OpenDatabase \/ CreateTable \/ FindTable \/ ReadPage
           \/ InsertNull \/ DeleteNull \/ CloseDatabase \/ SaveDatabase \/ RemoveOld
           \/ RenameNew \/ Killed \/ SecondServer \/ UNCHANGED vars
    PROVE  SpaceInv'
<1>1. AllSound(<<>>)
  BY DEF AllSound
<1>2. CASE CreateDatabase
  <2>1. db'.file = <<>> /\ copy' = <<>> /\ buf' = buf /\ pg' = pg
    BY <1>2 DEF CreateDatabase, createDatabase
  <2>2. pg = NoPage
    BY <1>2 DEF CreateDatabase, Shapes, ProgramShape
  <2>3. Sound(buf')
    BY <1>2, <2>1, ZeroPageSound DEF CreateDatabase, Shapes, ClosingShape
  <2> QED
    BY <1>1, <2>1, <2>2, <2>3 DEF SpaceInv
<1>3. CASE OpenDatabase
  <2>1. /\ \A n \in 1 .. Len(db'.file) :
             db'.file[n] = IF n <= eof THEN db.file[n] ELSE ZeroPage
        /\ eof \in 0 .. Len(db.file) /\ Len(db.file) \in Nat
    BY <1>3, OpenedFile, ShapesUsable
  <2>2. copy' = <<>> /\ buf' = buf /\ pg' = pg /\ harm' = harm
    BY <1>3 DEF OpenDatabase
  <2>3. Len(db'.file) \in Nat
    <3>1. FileShape'
      BY <1>3, OpenedFile
    <3>2. db'.file \in Seq(Onward)
      BY <3>1 DEF FileShape
    <3> QED
      BY <3>2, LenProperties
  <2>4. AllSound(db.file) => AllSound(db'.file)
    <3> SUFFICES ASSUME AllSound(db.file), NEW n \in 1 .. Len(db'.file)
                 PROVE  Sound(db'.file[n])
      BY DEF AllSound
    <3>1. CASE n <= eof
      BY <2>1, <3>1 DEF AllSound
    <3>2. CASE ~(n <= eof)
      BY <2>1, <3>2, ZeroPageSound
    <3> QED
      BY <3>1, <3>2
  <2> QED
    BY <1>1, <2>2, <2>4 DEF SpaceInv
<1>4. CASE CreateTable
  <2>1. PICK P \in SUBSET Onward : Rewrites(db, db', P) /\ \A r \in P : Blank(r)
    BY <1>4, CreateTableWritten
  <2>2. \A r \in P : Sound(r)
    BY <2>1, BlankSound
  <2>3. AllSound(db.file) => AllSound(db'.file)
    BY <2>1, <2>2, RewrittenSound
  <2>4. UNCHANGED <<copy, buf, pg, harm>>
    BY <1>4 DEF CreateTable, Program, closing, history
  <2> QED
    BY <2>3, <2>4 DEF SpaceInv
<1>5. CASE FindTable \/ InsertNull \/ DeleteNull \/ Killed
  <2>1. /\ db' = db /\ copy' = copy /\ (buf' = buf \/ buf' = ZeroPage)
        /\ (pg' = pg \/ pg' = NoPage) /\ harm \subseteq harm'
    BY <1>5 DEF FindTable, InsertNull, DeleteNull, Killed, file, closing, history, Gone, Harmed
  <2> QED
    BY <2>1, ZeroPageSound DEF SpaceInv
<1>6. CASE ReadPage
  <2>1. PICK n : \/ Readable(db, eof, n) /\ pg' = readRowPage(db, n)
                 \/ n > eof /\ pg' = NoPage
    BY <1>6 DEF ReadPage
  <2>2. UNCHANGED <<db, copy, buf, harm>>
    BY <1>6 DEF ReadPage, Program, file, closing, history
  <2>3. AllSound(db.file) /\ pg' # NoPage => Sound(pg')
    <3> SUFFICES ASSUME AllSound(db.file), Readable(db, eof, n), pg' = readRowPage(db, n)
                 PROVE  Sound(pg')
      BY <2>1
    <3>1. n \in 1 .. Len(db.file) /\ db.file \in Seq(Onward)
      BY ShapesUsable DEF Readable
    <3>2. db.file[n] \in Onward
      BY <3>1, ElementOfSeq
    <3> QED
      BY <3>1, <3>2, ReadRowPageOnward DEF AllSound, Sound
  <2> QED
    BY <2>2, <2>3 DEF SpaceInv
<1>7. CASE CloseDatabase
  <2>1. /\ db' = db /\ copy' = <<>> /\ buf' = ZeroPage /\ pg' = NoPage /\ harm \subseteq harm'
    BY <1>7 DEF CloseDatabase, file, Harmed
  <2> QED
    BY <1>1, <2>1, ZeroPageSound DEF SpaceInv
<1>8. CASE SaveDatabase \/ RemoveOld
  <2>1. UNCHANGED <<db, copy, buf, pg, harm>>
    BY <1>8 DEF SaveDatabase, RemoveOld, file, closing, history
  <2> QED
    BY <2>1 DEF SpaceInv
<1>9. CASE RenameNew
  <2>1. db'.file = copy /\ copy' = copy /\ buf' = ZeroPage /\ pg' = NoPage /\ harm' = harm
    BY <1>9 DEF RenameNew, Gone, history, createDatabase
  <2> QED
    BY <2>1, ZeroPageSound DEF SpaceInv
<1>10. CASE SecondServer
  <2> DEFINE f == [n \in DOMAIN db.file |-> ZeroPage]
  <2>1. db' = [db EXCEPT !.file = f] /\ UNCHANGED <<copy, buf, pg>> /\ harm \subseteq harm'
    BY <1>10 DEF SecondServer, closing, Harmed
  <2>2. db'.file = f /\ DOMAIN f = 1 .. Len(f)
    <3>1. db \in Database /\ Len(db.file) \in Nat /\ DOMAIN db.file = 1 .. Len(db.file)
      BY ShapesUsable
    <3>2. f \in [1 .. Len(db.file) -> {ZeroPage}]
      BY <3>1
    <3>3. db'.file = f
      BY <2>1, <3>1 DEF Database
    <3> HIDE DEF f
    <3>4. f \in Seq({ZeroPage})
      BY <3>1, <3>2, SeqDef
    <3> QED
      BY <3>3, <3>4, LenProperties
  <2>3. AllSound(f)
    BY <2>2, ZeroPageSound DEF AllSound
  <2> HIDE DEF f
  <2> QED
    BY <2>1, <2>2, <2>3 DEF SpaceInv
<1>11. CASE UNCHANGED vars
  BY <1>11 DEF vars, file, closing, history, SpaceInv
<1> QED
  BY <1>2, <1>3, <1>4, <1>5, <1>6, <1>7, <1>8, <1>9, <1>10, <1>11

(* Every step keeps SpaceInv.                                              *)
LEMMA NextSpace ==
    ASSUME Shapes, SpaceInv, [Next]_vars PROVE SpaceInv'
<1>1. CASE \E v \in Values : InsertData(v) \/ KilledInserting(v)
  BY <1>1, InsertSpace
<1>2. CASE \E i \in 1 .. MaxInserts : DeleteData(i) \/ KilledDeleting(i)
  BY <1>2, DeleteSpace
<1>3. CASE \E i \in 1 .. MaxInserts, v \in Values : UpdateInMemory(i, v) \/ UpdateMoves(i, v)
  BY <1>3, UpdateSpace, MoveSpace
<1> QED
  BY <1>1, <1>2, <1>3, CopySpace, OtherSpace DEF Next

(* SpaceInv holds before the first file is created.                        *)
LEMMA InitSpace == Init => SpaceInv
<1>1. AllSound(<<>>)
  BY DEF AllSound
<1>2. Init => db.file = <<>> /\ copy = <<>> /\ buf = ZeroPage /\ pg = NoPage
  BY DEF Init, createDatabase
<1> QED
  BY <1>1, <1>2, ZeroPageSound DEF SpaceInv

(* No page has more free_space than is free, so that no insert runs past   *)
(* a page, until free_space wraps around or an update has added to it what *)
(* it should have subtracted: for every size of pages and rows, and every  *)
(* number of inserts, deletes and closes.                                  *)
THEOREM StoreSpaceNotOverstated == Spec => []SpaceNotOverstated
<1>1. Shapes /\ SpaceInv => SpaceNotOverstated
  <2> SUFFICES ASSUME Shapes, SpaceInv, harm \cap {"wrapped", "resized"} = {},
                      NEW p \in RowPages
               PROVE  Sound(p)
    BY DEF SpaceNotOverstated, Sound
  <2>1. AllSound(db.file) /\ (pg # NoPage => Sound(pg))
    BY DEF SpaceInv
  <2>2. eof \in 0 .. Len(db.file) /\ Len(db.file) \in Nat
    BY ShapesUsable
  <2>3. \A n \in 1 .. eof : n \in 1 .. Len(db.file)
    BY <2>2
  <2> QED
    BY <2>1, <2>3 DEF RowPages, AllSound
<1>2. Init => Shapes /\ SpaceInv
  BY InitShapes, InitSpace
<1>3. Shapes /\ SpaceInv /\ [Next]_vars => Shapes' /\ SpaceInv'
  BY NextShapes, NextSpace
<1> QED
  BY <1>1, <1>2, <1>3, PTL DEF Spec

----------------------------------------------------------------------------
(***************************************************************************)
(* The first update leaves a page that fits.                               *)
(***************************************************************************)
LEMMA RemovedFits ==
    ASSUME NEW page \in Onward, NEW i \in DOMAIN page.rows, NEW p,
           RowRemoved(page, i, p), ~Overflows(page.rows)
    PROVE  ~Overflows(p.rows)
<1>1. page.rows \in Seq(Values) /\ i \in 1 .. Len(page.rows)
  BY OnwardFields, LenProperties
<1>2. p.rows = RemoveAt(page.rows, i) /\ p.rows \in Seq(Values)
  BY <1>1, RemoveAtEffect DEF RowRemoved
<1>3. page.rows[i] \in Values
  BY <1>1, ElementOfSeq
<1>4. RowLen[page.rows[i]] \in Nat
  BY <1>3, RowLenAssumption
<1>5. /\ PageBytes(p.rows) + RowLen[page.rows[i]] + LenSize = PageBytes(page.rows)
      /\ PageBytes(p.rows) \in Nat /\ PageBytes(page.rows) \in Nat
  BY <1>1, <1>2, PageBytesOfRemoved, RowEndsInPage
<1>6. PICK n \in Nat, b \in Nat, c \in Nat :
        n = RowLen[page.rows[i]] /\ b = PageBytes(page.rows) /\ c = PageBytes(p.rows)
  BY <1>4, <1>5
<1>7. c + n + 2 = b
  BY <1>5, <1>6 DEF LenSize
<1>8. ~(b > PageSpace) => ~(c > PageSpace)
  BY <1>7, PageSpaceType
<1> QED
  BY <1>6, <1>8 DEF Overflows

(* The rows of a page that claims no more room than it has fit.            *)
LEMMA SoundFits ==
    ASSUME NEW p \in Onward, Sound(p) PROVE ~Overflows(p.rows)
<1>1. p.free_space \in Nat /\ p.rows \in Seq(Values)
  BY OnwardFields
<1>2. PICK b \in Nat : b = PageBytes(p.rows)
  BY <1>1, RowEndsInPage
<1>3. PICK x \in Nat : x = p.free_space
  BY <1>1
<1>4. x + b <= PageSpace
  BY <1>2, <1>3 DEF Sound
<1>5. ~(b > PageSpace)
  BY <1>4, PageSpaceType
<1> QED
  BY <1>2, <1>5 DEF Overflows

(* updateData changes a row where it is when its page has room for what    *)
(* the new one is longer by.                                               *)
LEMMA ReplacedFits ==
    ASSUME NEW page \in Onward, Sound(page), NEW i \in DOMAIN page.rows,
           NEW v \in Values, ~Moves(page, i, v), NEW p, RowReplaced(page, i, v, p)
    PROVE  ~Overflows(p.rows)
<1>1. page.rows \in Seq(Values) /\ i \in 1 .. Len(page.rows) /\ page.free_space \in Nat
  BY OnwardFields, LenProperties
<1>2. RowLen[page.rows[i]] \in Nat /\ RowLen[v] \in Nat
  <2>1. page.rows[i] \in Values
    BY <1>1, ElementOfSeq
  <2> QED
    BY <2>1, RowLenAssumption
<1> DEFINE r == [page.rows EXCEPT ![i] = v]
<1>3. PageBytes(r) + RowLen[page.rows[i]] = PageBytes(page.rows) + RowLen[v]
  BY <1>1, PageBytesOfReplaced
<1>4. r \in Seq(Values) /\ r = p.rows
  BY <1>1, ExceptSeq DEF RowReplaced
<1> HIDE DEF r
<1>5. PICK a \in Nat, b \in Nat, c \in Nat, n \in Nat, x \in Nat :
        /\ a = RowLen[page.rows[i]] /\ n = RowLen[v] /\ x = page.free_space
        /\ b = PageBytes(page.rows) /\ c = PageBytes(r)
  BY <1>1, <1>2, <1>4, RowEndsInPage
<1>6. c + a = b + n /\ x + b <= PageSpace /\ ~(x < n - a)
  BY <1>3, <1>5 DEF Sound, Moves
<1>7. ~(c > PageSpace)
  BY <1>6, PageSpaceType
<1> QED
  BY <1>4, <1>5, <1>7 DEF Overflows

Fits == count.updates <= 1 /\ "wrapped" \notin harm /\ pg # NoPage => ~Overflows(pg.rows)

\* Before an update no page is overstated.
LEMMA FitsAtFirst ==
    ASSUME Shapes, SpaceInv, count.updates = 0, "wrapped" \notin harm, pg # NoPage
    PROVE  Sound(pg) /\ ~Overflows(pg.rows)
<1>1. "resized" \notin harm /\ pg \in Onward
  BY DEF Shapes, HistoryShape, ProgramShape
<1>2. Sound(pg)
  BY <1>1 DEF SpaceInv
<1> QED
  BY <1>1, <1>2, SoundFits

(* Every step keeps Fits: until a second update the rows of the page in    *)
(* memory fit.                                                             *)
LEMMA NextFits ==
    ASSUME Shapes, SpaceInv, Fits, [Next]_vars PROVE Fits'
<1> SUFFICES ASSUME count'.updates <= 1, "wrapped" \notin harm', pg' # NoPage
             PROVE  ~Overflows(pg'.rows)
  BY DEF Fits
<1>1. count \in [inserts : Nat, updates : Nat, opens : Nat]
  BY DEF Shapes, HistoryShape
<1>2. PICK u \in Nat : u = count.updates
  BY <1>1
<1>3. CASE pg' = pg /\ (count' = count \/ Counted("inserts") \/ Counted("opens"))
           /\ harm \subseteq harm'
  <2>1. count'.updates = count.updates
    BY <1>1, <1>3 DEF Counted
  <2> QED
    BY <1>3, <2>1 DEF Fits
<1>4. CASE ReadPage
  <2>1. PICK n : Readable(db, eof, n) /\ pg' = readRowPage(db, n)
    BY <1>4 DEF ReadPage
  <2>2. n \in 1 .. Len(db.file) /\ db.file \in Seq(Onward) /\ ~Overflows(db.file[n].rows)
    BY <2>1, ShapesUsable DEF Readable
  <2>3. db.file[n] \in Onward
    BY <2>2, ElementOfSeq
  <2> QED
    BY <2>1, <2>2, <2>3, ReadRowPageOnward
<1>5. ASSUME NEW i, DeleteData(i) PROVE ~Overflows(pg'.rows)
  <2> DEFINE done == deleteData(db, tbl, pg, i, TRUE)
  <2>1. Write(done.db) /\ pg' = done.pg /\ Deletable(i) /\ count' = count /\ harm \subseteq harm'
    BY <1>5 DEF DeleteData, Harmed
  <2>2. RowRemoved(pg, i, done.pg) \/ done.pg = NoPage
    BY <2>1, DeleteWritten
  <2>3. pg \in Onward /\ i \in DOMAIN pg.rows /\ pg # NoPage
    BY <2>1, DeletableHere
  <2> HIDE DEF done
  <2>4. ~Overflows(pg.rows)
    BY <2>1, <2>3 DEF Fits
  <2> QED
    BY <2>1, <2>2, <2>3, <2>4, RemovedFits
<1>6. ASSUME NEW i, NEW v \in Values, UpdateInMemory(i, v) \/ UpdateMoves(i, v)
      PROVE  pg # NoPage => Sound(pg) /\ ~Overflows(pg.rows)
  <2>1. Counted("updates") /\ harm \subseteq harm'
    BY <1>6 DEF UpdateInMemory, UpdateMoves, Harmed
  <2>2. count'.updates = count.updates + 1
    BY <1>1, <2>1 DEF Counted
  <2>3. u + 1 <= 1
    BY <1>2, <2>2
  <2>4. count.updates = 0
    BY <1>2, <2>3
  <2> QED
    BY <2>1, <2>4, FitsAtFirst
<1>7. ASSUME NEW i, NEW v \in Values, UpdateInMemory(i, v) PROVE ~Overflows(pg'.rows)
  <2>1. /\ RowReplaced(pg, i, v, pg') /\ pg \in Onward /\ pg # NoPage
        /\ i \in DOMAIN pg.rows /\ ~Moves(pg, i, v)
    BY <1>7, UpdateInMemoryDone DEF UpdateInMemory
  <2> QED
    BY <1>6, <1>7, <2>1, ReplacedFits
<1>8. ASSUME NEW i, NEW v \in Values, UpdateMoves(i, v) PROVE ~Overflows(pg'.rows)
  <2> DEFINE cut == deleteData(db, tbl, pg, i, TRUE)
  <2>1. pg' = cut.pg /\ (RowRemoved(pg, i, cut.pg) \/ cut.pg = NoPage)
    BY <1>8, MoveWritten
  <2>2. pg \in Onward /\ i \in DOMAIN pg.rows /\ pg # NoPage
    BY <1>8, DeletableHere DEF UpdateMoves
  <2> HIDE DEF cut
  <2> QED
    BY <1>6, <1>8, <2>1, <2>2, RemovedFits
<1>9. CASE Gone
  BY <1>9 DEF Gone
<1>10. CASE CreateDatabase \/ CloseDatabase
  BY <1>10 DEF CreateDatabase, CloseDatabase, Shapes, ProgramShape
<1>11. CASE \/ OpenDatabase \/ CreateTable \/ FindTable \/ CopyPage \/ SaveDatabase
            \/ RemoveOld \/ SecondServer \/ UNCHANGED vars
            \/ \E v \in Values : InsertData(v)
  BY <1>3, <1>9, <1>11 DEF OpenDatabase, CreateTable, FindTable, CopyPage, SaveDatabase,
     RemoveOld, SecondServer, InsertData, vars, history, Harmed
<1>12. CASE \/ InsertNull \/ DeleteNull \/ RenameNew \/ Killed
            \/ \E v \in Values : KilledInserting(v)
            \/ \E i \in 1 .. MaxInserts : KilledDeleting(i)
  BY <1>9, <1>12 DEF InsertNull, DeleteNull, RenameNew, Killed, KilledInserting, KilledDeleting
<1> QED
  BY <1>4, <1>5, <1>7, <1>8, <1>10, <1>11, <1>12 DEF Next

(* The first call of updateData leaves in memory a page whose rows fit,    *)
(* whether it changes the row where it is or moves it, for rows of every   *)
(* length: the comparison of ints is right for shorter rows as well.       *)
THEOREM StoreUpdatedRowFits == Spec => []UpdatedRowFits
<1>1. Fits => UpdatedRowFits
  BY DEF Fits, UpdatedRowFits
<1>2. Init => Shapes /\ SpaceInv /\ Fits
  <2>1. Init => Fits
    BY DEF Init, Fits
  <2> QED
    BY <2>1, InitShapes, InitSpace
<1>3. Shapes /\ SpaceInv /\ Fits /\ [Next]_vars => Shapes' /\ SpaceInv' /\ Fits'
  BY NextShapes, NextSpace, NextFits
<1> QED
  BY <1>1, <1>2, <1>3, PTL DEF Spec

----------------------------------------------------------------------------
(***************************************************************************)
(* closeDatabase numbers the pages it copies.  Until a close with garbage  *)
(* in pages_offset every page of the file but a hole bears the number of   *)
(* its place, and while pages are copied pages_offset counts those left    *)
(* out.                                                                    *)
(***************************************************************************)
Home(p, n) == p.page_type = "DATABASE_MAIN" \/ p.page_number = n

AllHome(f) == \A n \in 1 .. Len(f) : Home(f[n], n)

\* Nothing of harm leads closeDatabase to a wrong number.
Numbering(h) == h \cap {"garbage", "past end"} = {}

CopyInv ==
    Numbering(harm) =>
        /\ AllHome(db.file)
        /\ pc \in {"copying", "copied", "removed"} => AllHome(copy)
        /\ pc = "copying" => /\ Len(copy) + offset + 1 = at
                             /\ db.number_of_pages + offset <= MaxPages

(* Pages written under their own numbers stay in their places.             *)
LEMMA RewrittenHome ==
    ASSUME NEW d, NEW e, NEW P, Rewrites(d, e, P), AllHome(d.file)
    PROVE  AllHome(e.file)
BY ZeroPageOnward DEF AllHome, Home, Rewrites

(* In an empty file every page is in its place.                            *)
LEMMA NoneHome == AllHome(<<>>)
BY DEF AllHome

(* A page that closeDatabase copies gets the number of its place in the    *)
(* new file.                                                               *)
LEMMA CopyNumbers ==
    ASSUME MaxPages < UINT32, Shapes, CopyInv, CopyPage PROVE CopyInv'
<1> SUFFICES ASSUME Numbering(harm')
             PROVE  /\ AllHome(db'.file) /\ AllHome(copy')
                    /\ Len(copy') + offset' + 1 = at'
                    /\ db'.number_of_pages + offset' <= MaxPages
  BY DEF CopyInv
<1>1. Numbering(harm) /\ ~(at > eof) /\ pc = "copying"
  BY DEF CopyPage, Harmed, If, Numbering
<1>2. /\ AllHome(db.file) /\ AllHome(copy) /\ Len(copy) + offset + 1 = at
      /\ db.number_of_pages + offset <= MaxPages
  BY <1>1 DEF CopyInv
<1>3. copy \in Seq(Onward) /\ Len(copy) \in Nat /\ at \in Nat
  BY LenProperties DEF Shapes, ClosingShape
<1>4. PICK m \in Nat : m = UINT32 /\ m # 0
  BY GarbageAssumption
<1>5. PICK x \in Nat, l \in Nat, a \in Nat : x = offset /\ l = Len(copy) /\ a = at
  <2>1. offset \in 0 .. m - 1
    BY <1>4 DEF Shapes, ClosingShape
  <2>2. offset \in Nat
    BY <1>4, <2>1
  <2> QED
    BY <1>3, <2>2
<1>6. PICK k \in Nat, b \in Nat : k = db.number_of_pages /\ b = MaxPages
  BY ShapesUsable
<1>7. l + x + 1 = a /\ k + x <= b /\ b < m
  BY <1>2, <1>4, <1>5, <1>6
<1> DEFINE page == db.file[at]
<1>8. /\ page \in Onward /\ at' = at + 1 /\ at <= db.number_of_pages /\ db'.file = db.file
      /\ at \in 1 .. Len(db.file)
      /\ \/ /\ db' = [db EXCEPT !.number_of_pages = @ - 1]
            /\ offset' = (offset + 1) % UINT32 /\ copy' = copy
         \/ /\ db' = db /\ offset' = offset /\ copy' = Append(copy, buf')
            /\ buf' \in Onward /\ buf'.page_type = page.page_type
            /\ buf'.page_number = (page.page_number - offset) % UINT32
  <2>1. eof \in Nat
    BY ShapesUsable
  <2>2. at <= eof
    BY <1>1, <1>3, <2>1
  <2> QED
    BY <2>2, CopyPageDone
<1>9. Home(page, at)
  BY <1>2, <1>8 DEF AllHome
<1> HIDE DEF page
<1>10. a <= k
  BY <1>5, <1>6, <1>8
<1>11. CASE /\ db' = [db EXCEPT !.number_of_pages = @ - 1]
            /\ offset' = (offset + 1) % UINT32 /\ copy' = copy
  <2>1. x + 1 \in 0 .. m - 1 /\ k - 1 + (x + 1) <= b /\ l + (x + 1) + 1 = a + 1
    BY <1>4, <1>5, <1>6, <1>7, <1>10
  <2> DEFINE y == x + 1
  <2> HIDE DEF y
  <2>2. y % m = y
    BY <1>4, <2>1 DEF y
  <2>3. offset' = x + 1
    BY <1>4, <1>5, <1>11, <2>2 DEF y
  <2>4. db'.number_of_pages = k - 1
    BY <1>6, <1>11, ShapesUsable DEF Database
  <2> QED
    BY <1>2, <1>5, <1>6, <1>8, <1>11, <2>1, <2>3, <2>4
<1>12. CASE /\ db' = db /\ offset' = offset /\ copy' = Append(copy, buf')
            /\ buf' \in Onward /\ buf'.page_type = page.page_type
            /\ buf'.page_number = (page.page_number - offset) % UINT32
  <2>1. /\ Len(copy') = l + 1 /\ copy'[l + 1] = buf'
        /\ \A n \in 1 .. l : copy'[n] = copy[n]
    BY <1>3, <1>5, <1>12, AppendProperties
  <2>2. Home(buf', l + 1)
    <3>1. CASE page.page_type = "DATABASE_MAIN"
      BY <1>12, <3>1 DEF Home
    <3>2. CASE page.page_number = at
      <4>1. a - x = l + 1 /\ l + 1 \in 0 .. m - 1
        BY <1>4, <1>5, <1>6, <1>7, <1>10
      <4> DEFINE y == l + 1
      <4> HIDE DEF y
      <4>2. y % m = y
        BY <1>4, <4>1 DEF y
      <4>3. buf'.page_number = (a - x) % m
        BY <1>4, <1>5, <1>12, <3>2
      <4>4. buf'.page_number = l + 1
        BY <4>1, <4>2, <4>3 DEF y
      <4> QED
        BY <4>4 DEF Home
    <3> QED
      BY <1>9, <3>1, <3>2 DEF Home
  <2>3. AllHome(copy')
    <3> SUFFICES ASSUME NEW n \in 1 .. l + 1 PROVE Home(copy'[n], n)
      BY <2>1 DEF AllHome
    <3>1. n \in 1 .. l \/ n = l + 1
      BY <1>5
    <3> QED
      BY <1>2, <1>5, <2>1, <2>2, <3>1 DEF AllHome
  <2>4. Len(copy') + offset' + 1 = at'
    BY <1>5, <1>7, <1>8, <1>12, <2>1
  <2> QED
    BY <1>2, <1>8, <1>12, <2>3, <2>4
<1> QED
  BY <1>8, <1>11, <1>12

(* The program writes each page under its own number.                      *)
LEMMA ProgramNumbers ==
    ASSUME Shapes, CopyInv,
           \/ CreateTable
           \/ \E v \in Values : InsertData(v) \/ KilledInserting(v)
           \/ \E i \in 1 .. MaxInserts : DeleteData(i) \/ KilledDeleting(i)
           \/ \E i \in 1 .. MaxInserts, v \in Values : UpdateMoves(i, v)
    PROVE  CopyInv'
<1>1. (Numbering(harm') => Numbering(harm)) /\ pc' \in {"open", "off"}
  BY DEF CreateTable, Program, history, InsertData, KilledInserting, DeleteData, KilledDeleting,
     UpdateMoves, Deletable, Writing, Gone, Harmed, Numbering
<1> SUFFICES ASSUME AllHome(db.file) PROVE AllHome(db'.file)
  BY <1>1 DEF CopyInv
<1>2. CASE CreateTable
  BY <1>2, CreateTableWritten, RewrittenHome
<1>3. ASSUME NEW d, NEW e, AllHome(d.file), NEW t, NEW v, Inserted(d, t, v, e)
      PROVE  AllHome(e.file)
  BY <1>3, RewrittenHome DEF Inserted
<1>4. ASSUME NEW d, NEW e, AllHome(d.file), NEW page, NEW i, Deleted(d, page, i, e)
      PROVE  AllHome(e.file)
  BY <1>4, RewrittenHome DEF Deleted
<1>5. ASSUME NEW v \in Values, InsertData(v) \/ KilledInserting(v) PROVE AllHome(db'.file)
  <2>1. PICK wrote \in BOOLEAN, kept \in BOOLEAN :
          Write(insertData(db, tbl, v, wrote, kept).db)
    BY <1>5 DEF InsertData, KilledInserting
  <2>2. Writing /\ PlaceReadable(db, eof, tbl)
    BY <1>5 DEF InsertData, KilledInserting
  <2>3. Inserted(db, tbl, v, db')
    BY <2>1, <2>2, InsertWritten
  <2> QED
    BY <1>3, <2>3
<1>6. ASSUME NEW i, DeleteData(i) \/ KilledDeleting(i) PROVE AllHome(db'.file)
  <2>1. Deleted(db, pg, i, db')
    <3>1. CASE DeleteData(i)
      <4>1. Deletable(i) /\ Write(deleteData(db, tbl, pg, i, TRUE).db)
        BY <3>1 DEF DeleteData
      <4> QED
        BY <4>1, DeleteWritten
    <3> QED
      BY <1>6, <3>1, KilledDeletingWritten
  <2> QED
    BY <1>4, <2>1
<1>7. ASSUME NEW i, NEW v \in Values, UpdateMoves(i, v) PROVE AllHome(db'.file)
  <2> DEFINE cut == deleteData(db, tbl, pg, i, TRUE)
  <2>1. Deleted(db, pg, i, cut.db) /\ Inserted(cut.db, cut.tbl, v, db')
    BY <1>7, MoveWritten
  <2> HIDE DEF cut
  <2>2. AllHome(cut.db.file)
    BY <1>4, <2>1
  <2> QED
    BY <1>3, <2>1, <2>2
<1> QED
  BY <1>2, <1>5, <1>6, <1>7

(* The steps that copy no page and write none keep CopyInv.                *)
LEMMA OtherNumbers ==
    ASSUME Shapes, CopyInv,
           \/ CreateDatabase \/ OpenDatabase \/ FindTable \/ ReadPage
           \/ InsertNull \/ DeleteNull \/ CloseDatabase \/ SaveDatabase \/ RemoveOld
           \/ RenameNew \/ Killed \/ SecondServer \/ UNCHANGED vars
           \/ \E i \in 1 .. MaxInserts, v \in Values : UpdateInMemory(i, v)
    PROVE  CopyInv'
<1>1. CASE CreateDatabase
  <2>1. db'.file = <<>> /\ pc' = "open"
    BY <1>1 DEF CreateDatabase, createDatabase
  <2> QED
    BY <2>1, NoneHome DEF CopyInv
<1>2. CASE OpenDatabase
  <2>1. /\ \A n \in 1 .. Len(db'.file) :
             db'.file[n] = IF n <= eof THEN db.file[n] ELSE ZeroPage
        /\ eof \in 0 .. Len(db.file) /\ Len(db.file) \in Nat /\ FileShape'
    BY <1>2, OpenedFile, ShapesUsable
  <2>2. pc' = "open" /\ harm' = harm
    BY <1>2 DEF OpenDatabase
  <2>3. Len(db'.file) \in Nat
    <3>1. db'.file \in Seq(Onward)
      BY <2>1 DEF FileShape
    <3> QED
      BY <3>1, LenProperties
  <2>4. AllHome(db.file) => AllHome(db'.file)
    <3> SUFFICES ASSUME AllHome(db.file), NEW n \in 1 .. Len(db'.file)
                 PROVE  Home(db'.file[n], n)
      BY DEF AllHome
    <3>1. CASE n <= eof
      BY <2>1, <3>1 DEF AllHome
    <3>2. CASE ~(n <= eof)
      BY <2>1, <3>2, ZeroPageOnward DEF Home
    <3> QED
      BY <3>1, <3>2
  <2> QED
    BY <2>2, <2>4 DEF CopyInv
<1>3. CASE \/ FindTable \/ ReadPage \/ InsertNull \/ DeleteNull \/ Killed
           \/ \E i \in 1 .. MaxInserts, v \in Values : UpdateInMemory(i, v)
  <2>1. db' = db /\ pc' \in {"open", "off"} /\ (Numbering(harm') => Numbering(harm))
    BY <1>3 DEF FindTable, ReadPage, Program, InsertNull, DeleteNull, Killed, UpdateInMemory,
       Writing, file, closing, history, Gone, Harmed, Numbering
  <2> QED
    BY <2>1 DEF CopyInv
<1>4. CASE CloseDatabase
  <2> SUFFICES ASSUME Numbering(harm')
               PROVE  /\ AllHome(db'.file) /\ AllHome(copy')
                      /\ Len(copy') + offset' + 1 = at'
                      /\ db'.number_of_pages + offset' <= MaxPages
    BY DEF CopyInv
  <2>1. /\ db' = db /\ copy' = <<>> /\ at' = 1 /\ Numbering(harm)
        /\ offset' = 0
    BY <1>4 DEF CloseDatabase, file, Harmed, If, Numbering
  <2>2. AllHome(db.file)
    BY <2>1 DEF CopyInv
  <2>3. db.number_of_pages + 0 <= MaxPages
    <3>1. db.number_of_pages \in Nat /\ db.number_of_pages <= MaxPages
      BY ShapesUsable DEF Shapes, FileShape
    <3>2. PICK k \in Nat : k = db.number_of_pages
      BY <3>1
    <3> QED
      BY <3>1, <3>2
  <2>4. Len(<<>>) + 0 + 1 = 1
    OBVIOUS
  <2>5. Len(copy') + offset' + 1 = at'
    BY <2>1, <2>2, <2>4
  <2>6. db'.number_of_pages + offset' <= MaxPages
    BY <2>1, <2>2, <2>3
  <2> QED
    BY <2>1, <2>2, <2>5, <2>6, NoneHome
<1>5. CASE SaveDatabase \/ RemoveOld \/ UNCHANGED vars
  <2>1. /\ UNCHANGED <<db, copy, offset, at, harm>> /\ (pc' = "copying" => pc = "copying")
        /\ pc' \in {"copying", "copied", "removed"} => pc \in {"copying", "copied", "removed"}
    BY <1>5 DEF SaveDatabase, RemoveOld, vars, file, closing, history
  <2> QED
    BY <2>1 DEF CopyInv
<1>6. CASE RenameNew
  <2>1. db'.file = copy /\ pc' = "off" /\ harm' = harm /\ pc = "removed"
    BY <1>6 DEF RenameNew, Gone, history, createDatabase
  <2> QED
    BY <2>1 DEF CopyInv
<1>7. CASE SecondServer
  <2>1. /\ UNCHANGED <<pc, copy, offset, at>> /\ (Numbering(harm') => Numbering(harm))
        /\ db' = [db EXCEPT !.file = [n \in DOMAIN db.file |-> ZeroPage]]
    BY <1>7 DEF SecondServer, closing, Harmed, Numbering
  <2>2. /\ db'.number_of_pages = db.number_of_pages
        /\ db'.file = [n \in DOMAIN db.file |-> ZeroPage]
    BY <2>1, ShapesUsable DEF Database
  <2>3. FileShape'
    BY <1>7, SecondServerShapes DEF Shapes
  <2>4. DOMAIN db'.file = 1 .. Len(db'.file)
    BY <2>3, LenProperties DEF FileShape
  <2>5. AllHome(db'.file)
    BY <2>2, <2>4, ZeroPageOnward DEF AllHome, Home
  <2> QED
    BY <2>1, <2>2, <2>5 DEF CopyInv
<1> QED
  BY <1>1, <1>2, <1>3, <1>4, <1>5, <1>6, <1>7

(* When a page number is wide enough to count the pages, closeDatabase     *)
(* gives each page it copies the number of its new place, however many     *)
(* free pages it leaves out and wherever they are.                         *)
THEOREM StoreCopyNumbered ==
    ASSUME MaxPages < UINT32 PROVE Spec => []CopyNumbered
<1>1. Shapes /\ CopyInv => CopyNumbered
  <2> SUFFICES ASSUME Shapes, CopyInv, pc \in {"copying", "copied", "removed"},
                      Numbering(harm), NEW n \in DOMAIN copy
               PROVE  Home(copy[n], n)
    BY DEF CopyNumbered, Home, Numbering
  <2>1. copy \in Seq(Onward)
    BY DEF Shapes, ClosingShape
  <2>2. n \in 1 .. Len(copy)
    BY <2>1, LenProperties
  <2> QED
    BY <2>2 DEF CopyInv, AllHome
<1>2. Init => Shapes /\ CopyInv
  <2>1. Init => db.file = <<>> /\ pc = "off"
    BY DEF Init, createDatabase
  <2>2. Init => CopyInv
    BY <2>1, NoneHome DEF CopyInv
  <2> QED
    BY <2>2, InitShapes
<1>3. Shapes /\ CopyInv /\ [Next]_vars => Shapes' /\ CopyInv'
  BY NextShapes, CopyNumbers, ProgramNumbers, OtherNumbers DEF Next
<1> QED
  BY <1>1, <1>2, <1>3, PTL DEF Spec

----------------------------------------------------------------------------
(***************************************************************************)
(* closeDatabase leaves no page out that is not free: of the pages before  *)
(* page_num_old, each is in the new file, and when the loop is over        *)
(* page_num_old is past the pages that are counted.                        *)
(***************************************************************************)
Whole(h) == "truncated" \notin h

Closing == pc \in {"copying", "copied", "removed"}

Taken(f, c, n) ==
    f[n].page_type = "FREE_PAGE" \/ \E m \in 1 .. Len(c) : c[m].rows = f[n].rows

PagesInv ==
    Whole(harm) /\ Closing =>
        /\ pc # "copying" => db.number_of_pages < at
        /\ \A n \in 1 .. eof : n < at => Taken(db.file, copy, n)

(* closeDatabase leaves out free pages only.                               *)
LEMMA CopyTakes ==
    ASSUME Shapes, PagesInv, CopyPage PROVE PagesInv'
<1>1. Whole(harm') => Whole(harm)
  BY DEF CopyPage, Harmed, Whole
<1>2. pc = "copying" /\ pc' = "copying" /\ eof' = eof
  BY DEF CopyPage
<1> SUFFICES ASSUME Whole(harm), NEW n \in 1 .. eof, n < at'
             PROVE  Taken(db'.file, copy', n)
  BY <1>1, <1>2 DEF PagesInv
<1> DEFINE page == IF at <= eof THEN db.file[at] ELSE buf
<1>3. /\ at \in Nat \ {0} /\ at' = at + 1 /\ db'.file = db.file
      /\ \/ page.page_type = "FREE_PAGE" /\ copy' = copy
         \/ copy' = Append(copy, buf') /\ buf'.rows = page.rows /\ buf' \in Onward
  BY CopyPageDone
<1>4. copy \in Seq(Onward) /\ Len(copy) \in Nat /\ eof \in Nat
  BY LenProperties, ShapesUsable DEF Shapes, ClosingShape
<1>5. CASE n < at
  <2>1. Taken(db.file, copy, n)
    BY <1>2, <1>5 DEF PagesInv, Closing
  <2>2. CASE copy' = copy
    BY <1>3, <2>1, <2>2
  <2>3. CASE copy' = Append(copy, buf') /\ buf' \in Onward
    <3>1. /\ Len(copy') = Len(copy) + 1
          /\ \A m \in 1 .. Len(copy) : copy'[m] = copy[m]
      BY <1>4, <2>3, AppendProperties
    <3>2. \A m \in 1 .. Len(copy) : m \in 1 .. Len(copy')
      BY <1>4, <3>1
    <3> QED
      BY <1>3, <2>1, <3>1, <3>2 DEF Taken
  <2> QED
    BY <1>3, <2>2, <2>3
<1>6. CASE n = at
  <2>1. page = db.file[n]
    BY <1>6
  <2> HIDE DEF page
  <2>2. CASE page.page_type = "FREE_PAGE"
    BY <1>3, <2>1, <2>2 DEF Taken
  <2>3. CASE copy' = Append(copy, buf') /\ buf'.rows = page.rows /\ buf' \in Onward
    <3>1. Len(copy') = Len(copy) + 1 /\ copy'[Len(copy) + 1] = buf'
      BY <1>4, <2>3, AppendProperties
    <3>2. Len(copy) + 1 \in 1 .. Len(copy')
      BY <1>4, <3>1
    <3>3. copy'[Len(copy) + 1].rows = db.file[n].rows
      BY <2>1, <2>3, <3>1
    <3> QED
      BY <1>3, <3>2, <3>3 DEF Taken
  <2> QED
    BY <1>3, <2>2, <2>3
<1>7. n < at \/ n = at
  BY <1>3, <1>4
<1> QED
  BY <1>5, <1>6, <1>7

(* Every step keeps PagesInv.                                              *)
LEMMA NextTakes ==
    ASSUME Shapes, PagesInv, [Next]_vars PROVE PagesInv'
<1>1. CASE CloseDatabase
  <2>1. pc' = "copying" /\ at' = 1 /\ eof' = eof /\ eof \in Nat
    BY <1>1, ShapesUsable DEF CloseDatabase, file
  <2>2. \A n \in 1 .. eof' : ~(n < at')
    BY <2>1
  <2> QED
    BY <2>1, <2>2 DEF PagesInv
<1>2. CASE SaveDatabase
  <2>1. pc = "copying" /\ at > db.number_of_pages /\ UNCHANGED <<db, eof, at, copy, harm>>
    BY <1>2 DEF SaveDatabase, file, closing, history
  <2>2. db.number_of_pages < at
    <3>1. at \in Nat /\ db.number_of_pages \in Nat
      BY ShapesUsable DEF Shapes, ClosingShape
    <3> QED
      BY <2>1, <3>1
  <2> QED
    BY <2>1, <2>2 DEF PagesInv, Closing
<1>3. CASE RemoveOld \/ UNCHANGED vars
  <2>1. /\ UNCHANGED <<db, eof, at, copy, harm>> /\ (Closing' => Closing)
        /\ pc' # "copying" /\ Closing' => pc # "copying"
    BY <1>3 DEF RemoveOld, vars, file, closing, history, Closing
  <2> QED
    BY <2>1 DEF PagesInv
<1>4. CASE SecondServer
  <2>1. ~Whole(harm')
    BY <1>4 DEF SecondServer, Harmed, Whole
  <2> QED
    BY <2>1 DEF PagesInv
<1>5. CASE \/ CreateDatabase \/ OpenDatabase \/ CreateTable \/ FindTable \/ ReadPage
           \/ InsertNull \/ DeleteNull \/ RenameNew \/ Killed
           \/ \E v \in Values : InsertData(v) \/ KilledInserting(v)
           \/ \E i \in 1 .. MaxInserts : DeleteData(i) \/ KilledDeleting(i)
           \/ \E i \in 1 .. MaxInserts, v \in Values : UpdateInMemory(i, v) \/ UpdateMoves(i, v)
  <2>1. pc' \in {"open", "off"}
    BY <1>5 DEF CreateDatabase, OpenDatabase, CreateTable, FindTable, ReadPage, Program,
       InsertNull, DeleteNull, RenameNew, Killed, InsertData, KilledInserting, DeleteData,
       KilledDeleting, UpdateInMemory, UpdateMoves, Deletable, Writing, Gone
  <2> QED
    BY <2>1 DEF PagesInv, Closing
<1> QED
  BY <1>1, <1>2, <1>3, <1>4, <1>5, CopyTakes DEF Next

(* When the old file is removed, the rows of every page that closeDatabase *)
(* visited and that is not free are in the new one, whatever pages_offset  *)
(* began as and wherever the file was cut off: a kill between remove and   *)
(* rename loses the name of the database and none of those rows.           *)
THEOREM StoreCopyHasThePages == Spec => []CopyHasThePages
<1>1. Shapes /\ PagesInv => CopyHasThePages
  <2> DEFINE both == {eof, db.number_of_pages}
  <2> SUFFICES ASSUME Shapes, PagesInv, pc \in {"copied", "removed"}, Whole(harm),
                      NEW n \in 1 .. Min(both)
               PROVE  \/ db.file[n].page_type = "FREE_PAGE"
                      \/ \E m \in DOMAIN copy : copy[m].rows = db.file[n].rows
    BY DEF CopyHasThePages, Whole
  <2>1. eof \in Nat /\ db.number_of_pages \in Nat /\ at \in Nat
    BY ShapesUsable DEF Shapes, ClosingShape
  <2>2. both \subseteq Nat /\ both # {} /\ eof \in both /\ db.number_of_pages \in both
    BY <2>1
  <2> HIDE DEF both
  <2>3. Min(both) \in Nat /\ Min(both) <= eof /\ Min(both) <= db.number_of_pages
    BY <2>2, LeastInRange
  <2>4. /\ db.number_of_pages < at
        /\ \A k \in 1 .. eof : k < at => Taken(db.file, copy, k)
    BY DEF PagesInv, Closing
  <2>5. PICK b \in Nat, c \in Nat : b = Min(both) /\ c = db.number_of_pages
    BY <2>1, <2>3
  <2>6. n \in 1 .. eof /\ n < at
    BY <2>1, <2>3, <2>4, <2>5
  <2>7. copy \in Seq(Onward)
    BY DEF Shapes, ClosingShape
  <2>8. DOMAIN copy = 1 .. Len(copy)
    BY <2>7, LenProperties
  <2> QED
    BY <2>4, <2>6, <2>8 DEF Taken
<1>2. Init => Shapes /\ PagesInv
  <2>1. Init => PagesInv
    BY DEF Init, PagesInv, Closing
  <2> QED
    BY <2>1, InitShapes
<1>3. Shapes /\ PagesInv /\ [Next]_vars => Shapes' /\ PagesInv'
  BY NextShapes, NextTakes
<1> QED
  BY <1>1, <1>2, <1>3, PTL DEF Spec

----------------------------------------------------------------------------
(***************************************************************************)
(* How often a row is in a sequence of rows and in the pages of a file.    *)
(***************************************************************************)
Hits(rows, v) == {i \in DOMAIN rows : rows[i] = v}

Count(rows, v) == Cardinality(Hits(rows, v))

Total(f, v) == Cardinality(Places(f, 1 .. Len(f), v))

One(w, v) == IF w = v THEN 1 ELSE 0

(* How often a row is in a page is a number.                               *)
LEMMA CountNat ==
    ASSUME NEW rows \in Seq(Values), NEW v
    PROVE  /\ IsFiniteSet(Hits(rows, v)) /\ Count(rows, v) \in Nat
           /\ Hits(rows, v) = {i \in 1 .. Len(rows) : rows[i] = v}
<1>1. DOMAIN rows = 1 .. Len(rows) /\ Len(rows) \in Nat
  BY LenProperties
<1>2. IsFiniteSet(1 .. Len(rows))
  BY <1>1, FS_Interval
<1>3. Hits(rows, v) \in SUBSET (1 .. Len(rows))
  BY <1>1 DEF Hits
<1>4. IsFiniteSet(Hits(rows, v))
  BY <1>2, <1>3, FS_Subset
<1> QED
  BY <1>1, <1>4, FS_CardinalityType DEF Count, Hits

(* No row is in a page without rows.                                       *)
LEMMA CountNone ==
    ASSUME NEW v PROVE Count(<<>>, v) = 0
<1>1. Hits(<<>>, v) = {}
  BY DEF Hits
<1> QED
  BY <1>1, FS_EmptySet DEF Count

(* A row appended is there once more.                                      *)
LEMMA CountAppended ==
    ASSUME NEW rows \in Seq(Values), NEW v \in Values, NEW w
    PROVE  Count(Append(rows, v), w) = Count(rows, w) + One(w, v)
<1> DEFINE t == Append(rows, v)
           n == Len(rows)
<1>1. /\ t \in Seq(Values) /\ Len(t) = n + 1 /\ n \in Nat /\ t[n + 1] = v
      /\ \A i \in 1 .. n : t[i] = rows[i]
  BY AppendProperties, LenProperties
<1> HIDE DEF t, n
<1>2. Hits(rows, w) = {i \in 1 .. n : rows[i] = w} /\ Hits(t, w) = {i \in 1 .. n + 1 : t[i] = w}
  BY <1>1, CountNat DEF n
<1>3. IsFiniteSet(Hits(rows, w)) /\ Count(rows, w) \in Nat
  BY CountNat
<1>4. CASE w = v
  <2>1. Hits(t, w) = Hits(rows, w) \cup {n + 1} /\ n + 1 \notin Hits(rows, w)
    BY <1>1, <1>2, <1>4
  <2> QED
    BY <1>3, <1>4, <2>1, FS_AddElement DEF Count, One, t
<1>5. CASE w # v
  <2>1. Hits(t, w) = Hits(rows, w)
    BY <1>1, <1>2, <1>5
  <2> QED
    BY <1>3, <1>5, <2>1 DEF Count, One, t
<1> QED
  BY <1>4, <1>5

(* A row put in the place of another is there at most once more.           *)
LEMMA CountReplaced ==
    ASSUME NEW rows \in Seq(Values), NEW i \in DOMAIN rows, NEW v \in Values, NEW w
    PROVE  Count([rows EXCEPT ![i] = v], w) <= Count(rows, w) + One(w, v)
<1> DEFINE t == [rows EXCEPT ![i] = v]
           n == Len(rows)
<1>1. n \in Nat /\ DOMAIN rows = 1 .. n
  BY LenProperties
<1>2. /\ t \in Seq(Values) /\ Len(t) = n
      /\ \A k \in 1 .. n : t[k] = IF k = i THEN v ELSE rows[k]
  BY <1>1, ExceptSeq
<1> HIDE DEF t, n
<1>3. Hits(rows, w) = {k \in 1 .. n : rows[k] = w} /\ Hits(t, w) = {k \in 1 .. n : t[k] = w}
  BY <1>2, CountNat DEF n
<1>4. IsFiniteSet(Hits(rows, w)) /\ Count(rows, w) \in Nat /\ Count(t, w) \in Nat
  BY <1>2, CountNat
<1>5. CASE w = v
  <2>1. Hits(t, w) \in SUBSET (Hits(rows, w) \cup {i})
    BY <1>2, <1>3
  <2>2. /\ IsFiniteSet(Hits(rows, w) \cup {i})
        /\ Cardinality(Hits(rows, w) \cup {i}) =
             IF i \in Hits(rows, w) THEN Count(rows, w) ELSE Count(rows, w) + 1
    BY <1>4, FS_AddElement DEF Count
  <2>3. Count(t, w) <= Cardinality(Hits(rows, w) \cup {i})
    BY <2>1, <2>2, FS_Subset DEF Count
  <2> QED
    BY <1>4, <1>5, <2>2, <2>3 DEF One, t
<1>6. CASE w # v
  <2>1. Hits(t, w) \in SUBSET Hits(rows, w)
    BY <1>2, <1>3, <1>6
  <2>2. Count(t, w) <= Count(rows, w)
    BY <1>4, <2>1, FS_Subset DEF Count
  <2> QED
    BY <1>4, <1>6, <2>2 DEF One, t
<1> QED
  BY <1>5, <1>6

(* A row removed is there at least once less.                              *)
LEMMA CountRemoved ==
    ASSUME NEW rows \in Seq(Values), NEW i \in DOMAIN rows, NEW w
    PROVE  Count(RemoveAt(rows, i), w) + One(w, rows[i]) <= Count(rows, w)
<1> DEFINE t == RemoveAt(rows, i)
           n == Len(rows)
<1>1. n \in Nat /\ DOMAIN rows = 1 .. n
  BY LenProperties
<1>2. /\ t \in Seq(Values) /\ Len(t) = n - 1
      /\ \A k \in 1 .. n - 1 : t[k] = IF k < i THEN rows[k] ELSE rows[k + 1]
  BY <1>1, RemoveAtEffect
<1> HIDE DEF t, n
<1>3. Hits(rows, w) = {k \in 1 .. n : rows[k] = w} /\ Hits(t, w) = {k \in 1 .. n - 1 : t[k] = w}
  BY <1>2, CountNat DEF n
<1>4. IsFiniteSet(Hits(rows, w)) /\ Count(rows, w) \in Nat /\ Count(t, w) \in Nat
  BY <1>2, CountNat
<1> DEFINE S == Hits(t, w)
           T == Hits(rows, w) \ {i}
           f == [k \in S |-> IF k < i THEN k ELSE k + 1]
<1>5. f \in Injection(S, T)
  <2>1. i \in 1 .. n
    BY <1>1
  <2>2. \A k \in S : (IF k < i THEN k ELSE k + 1) \in T
    BY <1>1, <1>2, <1>3, <2>1
  <2>3. f \in [S -> T]
    BY <2>2
  <2>4. \A j, k \in S : (IF j < i THEN j ELSE j + 1) = (IF k < i THEN k ELSE k + 1) => j = k
    BY <1>1, <1>3, <2>1
  <2>5. \A j, k \in S : f[j] = f[k] => j = k
    BY <2>4
  <2> QED
    BY <2>3, <2>5 DEF Injection, IsInjective
<1>6. /\ IsFiniteSet(T)
      /\ Cardinality(T) = IF i \in Hits(rows, w) THEN Count(rows, w) - 1 ELSE Count(rows, w)
  BY <1>4, FS_RemoveElement DEF Count
<1> HIDE DEF f, T
<1>7. Count(t, w) <= Cardinality(T)
  BY <1>5, <1>6, FS_Injection DEF Count
<1>8. i \in Hits(rows, w) <=> w = rows[i]
  BY <1>1, <1>3
<1> QED
  BY <1>4, <1>6, <1>7, <1>8 DEF One, t

(* The places of a row on one page more are the places there were, and     *)
(* those on the page.                                                      *)
LEMMA PlacesAdded ==
    ASSUME NEW f \in Seq(Onward), NEW S, NEW m \in 1 .. Len(f), m \notin S, NEW v,
           IsFiniteSet(Places(f, S, v))
    PROVE  /\ IsFiniteSet(Places(f, S \cup {m}, v))
           /\ Cardinality(Places(f, S \cup {m}, v)) =
                Cardinality(Places(f, S, v)) + Count(f[m].rows, v)
<1> DEFINE A == Places(f, S, v)
           B == {m} \X Hits(f[m].rows, v)
<1>1. f[m].rows \in Seq(Values)
  BY ElementOfSeq, OnwardFields
<1>2. IsFiniteSet(Hits(f[m].rows, v))
  BY <1>1, CountNat
<1>3. IsFiniteSet(B) /\ Cardinality(B) = Count(f[m].rows, v)
  BY <1>2, PairCount DEF Count
<1>4. Places(f, S \cup {m}, v) = A \cup B
  BY DEF Places, Hits
<1>5. A \cap B = {}
  BY DEF Places
<1> HIDE DEF A, B
<1>6. IsFiniteSet(A \cup B) /\ Cardinality(A \cup B) = Cardinality(A) + Cardinality(B)
  BY <1>3, <1>5, DisjointCount DEF A
<1> QED
  BY <1>3, <1>4, <1>6 DEF A

(* The places of a row on some pages are finitely many, and no more than   *)
(* on all.                                                                 *)
LEMMA PlacesFinite ==
    ASSUME NEW f \in Seq(Onward), NEW S, S \subseteq 1 .. Len(f), NEW v
    PROVE  /\ IsFiniteSet(Places(f, S, v)) /\ Cardinality(Places(f, S, v)) \in Nat
           /\ Cardinality(Places(f, S, v)) <= Total(f, v)
           /\ Total(f, v) \in Nat
<1>1. Len(f) \in Nat
  BY LenProperties
<1> DEFINE G == {k \in Nat : k <= Len(f) => IsFiniteSet(Places(f, 1 .. k, v))}
<1>2. 0 \in G
  <2>1. Places(f, 1 .. 0, v) = {}
    BY DEF Places
  <2> QED
    BY <2>1, FS_EmptySet
<1>3. ASSUME NEW k \in Nat, k \in G PROVE k + 1 \in G
  <2> SUFFICES ASSUME k + 1 <= Len(f) PROVE IsFiniteSet(Places(f, 1 .. k + 1, v))
    OBVIOUS
  <2>1. IsFiniteSet(Places(f, 1 .. k, v)) /\ k + 1 \in 1 .. Len(f) /\ k + 1 \notin 1 .. k
    BY <1>1, <1>3
  <2>2. IsFiniteSet(Places(f, (1 .. k) \cup {k + 1}, v))
    BY <2>1, PlacesAdded
  <2>3. (1 .. k) \cup {k + 1} = 1 .. k + 1
    OBVIOUS
  <2> QED
    BY <2>2, <2>3
<1>4. Len(f) \in G
  <2> HIDE DEF G
  <2> QED
    BY <1>1, <1>2, <1>3, NatSetInduction
<1>5. IsFiniteSet(Places(f, 1 .. Len(f), v))
  BY <1>1, <1>4
<1>6. Places(f, S, v) \in SUBSET Places(f, 1 .. Len(f), v)
  BY DEF Places
<1> QED
  BY <1>5, <1>6, FS_Subset, FS_CardinalityType DEF Total

(* Fewer pages, the rest of them as they were, have no more rows.          *)
LEMMA PlacesWithin ==
    ASSUME NEW f \in Seq(Onward), NEW g \in Seq(Onward),
           NEW S, S \subseteq 1 .. Len(g), NEW T, T \subseteq 1 .. Len(f),
           \A n \in S : g[n].rows = <<>> \/ (n \in T /\ g[n].rows = f[n].rows), NEW v
    PROVE  /\ Cardinality(Places(g, S, v)) <= Cardinality(Places(f, T, v))
           /\ Cardinality(Places(g, S, v)) \in Nat /\ Cardinality(Places(f, T, v)) \in Nat
<1>1. Places(g, S, v) \in SUBSET Places(f, T, v)
  <2> SUFFICES ASSUME NEW x \in Places(g, S, v) PROVE x \in Places(f, T, v)
    OBVIOUS
  <2>1. PICK n \in S : x \in {n} \X {i \in DOMAIN g[n].rows : g[n].rows[i] = v}
    BY DEF Places
  <2>2. g[n].rows # <<>>
    BY <2>1
  <2>3. n \in T /\ g[n].rows = f[n].rows
    BY <2>2
  <2> QED
    BY <2>1, <2>3 DEF Places
<1>2. IsFiniteSet(Places(f, T, v))
  BY PlacesFinite
<1> QED
  BY <1>1, <1>2, FS_Subset, PlacesFinite

\* How often row v is on page m.
CountAt(f, m, v) == IF m \in 1 .. Len(f) THEN Count(f[m].rows, v) ELSE 0

(* How often a row is in a file is how often it is on one page and on      *)
(* the others.                                                             *)
LEMMA TotalSplit ==
    ASSUME NEW f \in Seq(Onward), NEW m, NEW v
    PROVE  /\ Total(f, v) = Cardinality(Places(f, (1 .. Len(f)) \ {m}, v)) + CountAt(f, m, v)
           /\ CountAt(f, m, v) \in Nat /\ CountAt(f, m, v) <= Total(f, v)
           /\ Cardinality(Places(f, (1 .. Len(f)) \ {m}, v)) \in Nat
<1> DEFINE S == (1 .. Len(f)) \ {m}
<1>1. IsFiniteSet(Places(f, S, v)) /\ Cardinality(Places(f, S, v)) \in Nat
  BY PlacesFinite
<1>2. CASE m \in 1 .. Len(f)
  <2>1. S \cup {m} = 1 .. Len(f) /\ m \notin S
    BY <1>2
  <2> HIDE DEF S
  <2>2. Total(f, v) = Cardinality(Places(f, S, v)) + Count(f[m].rows, v)
    BY <1>1, <1>2, <2>1, PlacesAdded DEF Total
  <2>3. Count(f[m].rows, v) \in Nat
    BY <1>2, ElementOfSeq, OnwardFields, CountNat
  <2> QED
    BY <1>1, <1>2, <2>2, <2>3 DEF CountAt, S
<1>3. CASE m \notin 1 .. Len(f)
  <2>1. S = 1 .. Len(f)
    BY <1>3
  <2>2. CountAt(f, m, v) = 0
    BY <1>3 DEF CountAt
  <2> HIDE DEF S
  <2>3. Total(f, v) = Cardinality(Places(f, S, v))
    BY <2>1 DEF Total
  <2> QED
    BY <1>1, <2>2, <2>3 DEF S
<1> QED
  BY <1>2, <1>3

\* g has the rows f has, but for those of page m and of pages without rows.
Steps(f, g, m) ==
    \A n \in 1 .. Len(g) : n # m =>
        g[n].rows = <<>> \/ (n \in 1 .. Len(f) /\ g[n].rows = f[n].rows)

(* A step that takes rows from other pages, if anything, changes Total     *)
(* as the one page changes.                                                *)
LEMMA TotalMoves ==
    ASSUME NEW f \in Seq(Onward), NEW g \in Seq(Onward), NEW m, Steps(f, g, m), NEW v
    PROVE  /\ Total(g, v) + CountAt(f, m, v) <= Total(f, v) + CountAt(g, m, v)
           /\ Total(f, v) \in Nat /\ Total(g, v) \in Nat
           /\ CountAt(f, m, v) \in Nat /\ CountAt(g, m, v) \in Nat
<1> DEFINE S == (1 .. Len(g)) \ {m}
           T == (1 .. Len(f)) \ {m}
<1>1. \A n \in S : g[n].rows = <<>> \/ (n \in T /\ g[n].rows = f[n].rows)
  BY DEF Steps
<1>2. S \subseteq 1 .. Len(g) /\ T \subseteq 1 .. Len(f)
  OBVIOUS
<1> HIDE DEF S, T
<1>3. Cardinality(Places(g, S, v)) <= Cardinality(Places(f, T, v))
  BY <1>1, <1>2, PlacesWithin
<1>4. /\ Total(f, v) = Cardinality(Places(f, T, v)) + CountAt(f, m, v)
      /\ Total(g, v) = Cardinality(Places(g, S, v)) + CountAt(g, m, v)
      /\ Cardinality(Places(f, T, v)) \in Nat /\ Cardinality(Places(g, S, v)) \in Nat
      /\ CountAt(f, m, v) \in Nat /\ CountAt(g, m, v) \in Nat
  BY TotalSplit DEF S, T
<1> QED
  BY <1>3, <1>4

(* TotalMoves, with what was given and taken added on both sides.          *)
LEMMA TotalShifts ==
    ASSUME NEW f \in Seq(Onward), NEW g \in Seq(Onward), NEW m, Steps(f, g, m), NEW v,
           NEW a \in Nat, NEW b \in Nat, CountAt(g, m, v) + a <= CountAt(f, m, v) + b
    PROVE  Total(g, v) + a <= Total(f, v) + b
<1>1. /\ Total(g, v) + CountAt(f, m, v) <= Total(f, v) + CountAt(g, m, v)
      /\ Total(f, v) \in Nat /\ Total(g, v) \in Nat
      /\ CountAt(f, m, v) \in Nat /\ CountAt(g, m, v) \in Nat
  BY TotalMoves
<1>2. PICK x \in Nat, y \in Nat, z \in Nat, u \in Nat :
        /\ x = Total(f, v) /\ y = Total(g, v)
        /\ z = CountAt(f, m, v) /\ u = CountAt(g, m, v)
  BY <1>1
<1>3. y + z <= x + u /\ u + a <= z + b
  BY <1>1, <1>2
<1>4. y + a <= x + b
  BY <1>2, <1>3
<1> QED
  BY <1>2, <1>4

\* A page of a file is replaced by the one in memory.
Put(f, k, p) == [f EXCEPT ![k] = p]

(* A file in which one page is replaced by another.                        *)
LEMMA PutSeq ==
    ASSUME NEW f \in Seq(Onward), NEW k, NEW p \in Onward
    PROVE  /\ Put(f, k, p) \in Seq(Onward) /\ Len(Put(f, k, p)) = Len(f)
           /\ \A n \in 1 .. Len(f) : Put(f, k, p)[n] = IF n = k THEN p ELSE f[n]
BY PutEffect DEF Put

FileHome(f) == \A n \in 1 .. Len(f) : f[n] = ZeroPage \/ f[n].page_number = n

(* Pages written under their own numbers stay in their places.             *)
LEMMA RewrittenAtHome ==
    ASSUME NEW d, NEW e, NEW P, Rewrites(d, e, P), FileHome(d.file)
    PROVE  FileHome(e.file)
BY DEF FileHome, Rewrites

(* So do the pages that deleteData writes.                                 *)
LEMMA DeletedAtHome ==
    ASSUME NEW d, NEW page, NEW i, NEW e, Deleted(d, page, i, e), FileHome(d.file)
    PROVE  FileHome(e.file)
BY RewrittenAtHome DEF Deleted

\* g has at most one row more than f, v.
Gains(f, g, v) ==
    /\ Len(f) <= Len(g)
    /\ \E m \in Nat : /\ Steps(f, g, m)
                      /\ \A w \in Values : CountAt(g, m, w) <= CountAt(f, m, w) + One(w, v)

(* insertData adds one row to the file, its own, or none.                  *)
LEMMA InsertedGains ==
    ASSUME NEW d, d.file \in Seq(Onward), FileHome(d.file),
           NEW t, t.free_place # 0 => t.free_place \in 1 .. Len(d.file),
           NEW v \in Values, NEW e, e.file \in Seq(Onward), Inserted(d, t, v, e)
    PROVE  Gains(d.file, e.file, v)
<1>1. PICK p \in Onward, P \in SUBSET Onward :
        /\ RowAdded(d, t, v, p) /\ Rewrites(d, e, P)
        /\ \A r \in P : r = p \/ Blank(r)
  BY DEF Inserted
<1> DEFINE m == p.page_number
<1>2. m \in Nat /\ p.rows \in Seq(Values)
  BY OnwardFields DEF Onward, Page
<1>3. Len(d.file) <= Len(e.file)
  BY <1>1 DEF Rewrites
<1>4. ASSUME NEW n \in 1 .. Len(e.file)
      PROVE  \/ e.file[n].rows = <<>>
             \/ n \in 1 .. Len(d.file) /\ e.file[n].rows = d.file[n].rows
             \/ n = m /\ e.file[n].rows = p.rows
  BY <1>1, ZeroPageOnward DEF Rewrites, Blank
<1>5. Steps(d.file, e.file, m)
  BY <1>4 DEF Steps
<1>6. ASSUME NEW w \in Values PROVE CountAt(e.file, m, w) <= CountAt(d.file, m, w) + One(w, v)
  <2>1. CountAt(d.file, m, w) \in Nat /\ CountAt(e.file, m, w) \in Nat
    BY TotalSplit
  <2>2. One(w, v) \in Nat
    BY DEF One
  <2>3. PICK x \in Nat, o \in Nat : x = CountAt(d.file, m, w) /\ o = One(w, v)
    BY <2>1, <2>2
  <2>4. 0 <= x + o /\ x <= x + o
    BY <2>3
  <2>5. CASE m \notin 1 .. Len(e.file)
    BY <2>3, <2>4, <2>5 DEF CountAt
  <2>6. CASE m \in 1 .. Len(e.file) /\ e.file[m].rows = <<>>
    <3>1. CountAt(e.file, m, w) = 0
      BY <2>6, CountNone DEF CountAt
    <3> QED
      BY <2>3, <2>4, <3>1
  <2>7. CASE /\ m \in 1 .. Len(e.file) /\ m \in 1 .. Len(d.file)
             /\ e.file[m].rows = d.file[m].rows
    <3>1. CountAt(e.file, m, w) = CountAt(d.file, m, w)
      BY <2>7 DEF CountAt
    <3> QED
      BY <2>3, <2>4, <3>1
  <2>8. CASE m \in 1 .. Len(e.file) /\ e.file[m].rows = p.rows
    <3>1. CountAt(e.file, m, w) = Count(p.rows, w)
      BY <2>8 DEF CountAt
    <3>2. CASE t.free_place = 0 \/ d.file[t.free_place].rows = <<>>
      <4>1. p.rows = Append(<<>>, v)
        <5>1. Append(<<>>, v) = <<v>>
          OBVIOUS
        <5> QED
          BY <1>1, <3>2, <5>1 DEF RowAdded
      <4>2. <<>> \in Seq(Values)
        OBVIOUS
      <4>3. Count(p.rows, w) = Count(<<>>, w) + One(w, v)
        BY <4>1, <4>2, CountAppended
      <4>4. Count(p.rows, w) = o
        BY <2>3, <4>3, CountNone
      <4>5. o <= x + o
        BY <2>3
      <4> QED
        BY <2>3, <3>1, <4>4, <4>5
    <3>3. CASE t.free_place # 0 /\ d.file[t.free_place].rows # <<>>
      <4>1. t.free_place \in 1 .. Len(d.file)
        BY <3>3
      <4>2. d.file[t.free_place].page_number = t.free_place
        BY <3>3, <4>1, ZeroPageOnward DEF FileHome
      <4>3. m = t.free_place /\ p.rows = Append(d.file[m].rows, v)
        BY <1>1, <3>3, <4>2 DEF RowAdded
      <4>4. d.file[m].rows \in Seq(Values)
        BY <4>1, <4>3, ElementOfSeq, OnwardFields
      <4>5. Count(p.rows, w) = Count(d.file[m].rows, w) + One(w, v)
        BY <4>3, <4>4, CountAppended
      <4>6. CountAt(d.file, m, w) = Count(d.file[m].rows, w)
        BY <4>1, <4>3 DEF CountAt
      <4>7. Count(p.rows, w) = x + o
        BY <2>3, <4>5, <4>6
      <4>8. x + o <= x + o
        BY <2>3
      <4> QED
        BY <2>3, <3>1, <4>7, <4>8
    <3> QED
      BY <3>2, <3>3
  <2>9. m \in 1 .. Len(e.file) =>
          \/ e.file[m].rows = <<>>
          \/ m \in 1 .. Len(d.file) /\ e.file[m].rows = d.file[m].rows
          \/ e.file[m].rows = p.rows
    BY <1>4
  <2> QED
    BY <2>5, <2>6, <2>7, <2>8, <2>9
<1> HIDE DEF m
<1> QED
  BY <1>2, <1>3, <1>5, <1>6 DEF Gains

(* With the page in memory put in its place as well as without.            *)
LEMMA GainedTotal ==
    ASSUME NEW f \in Seq(Onward), NEW g \in Seq(Onward), NEW v, Gains(f, g, v),
           NEW w \in Values
    PROVE  /\ Total(g, w) <= Total(f, w) + One(w, v)
           /\ \A k \in 1 .. Len(f), q \in Onward :
                Total(Put(g, k, q), w) <= Total(Put(f, k, q), w) + One(w, v)
<1>1. PICK m \in Nat : /\ Steps(f, g, m)
                       /\ CountAt(g, m, w) <= CountAt(f, m, w) + One(w, v)
  BY DEF Gains
<1>2. One(w, v) \in Nat /\ 0 \in Nat
  BY DEF One
<1>3. /\ CountAt(f, m, w) \in Nat /\ CountAt(g, m, w) \in Nat
      /\ Total(f, w) \in Nat /\ Total(g, w) \in Nat
  BY <1>1, TotalMoves
<1>4. CountAt(g, m, w) + 0 <= CountAt(f, m, w) + One(w, v)
  BY <1>1, <1>2, <1>3
<1>5. Total(g, w) + 0 <= Total(f, w) + One(w, v)
  BY <1>1, <1>2, <1>4, TotalShifts
<1>6. Total(g, w) <= Total(f, w) + One(w, v)
  BY <1>2, <1>3, <1>5
<1>7. Len(f) \in Nat /\ Len(g) \in Nat /\ Len(f) <= Len(g)
  BY LenProperties DEF Gains
<1>8. ASSUME NEW k \in 1 .. Len(f), NEW q \in Onward
      PROVE  Total(Put(g, k, q), w) <= Total(Put(f, k, q), w) + One(w, v)
  <2> DEFINE a == Put(f, k, q)
             b == Put(g, k, q)
  <2>1. k \in 1 .. Len(g)
    BY <1>7
  <2>2. /\ a \in Seq(Onward) /\ Len(a) = Len(f)
        /\ \A n \in 1 .. Len(f) : a[n] = IF n = k THEN q ELSE f[n]
    BY PutSeq
  <2>3. /\ b \in Seq(Onward) /\ Len(b) = Len(g)
        /\ \A n \in 1 .. Len(g) : b[n] = IF n = k THEN q ELSE g[n]
    BY PutSeq
  <2> HIDE DEF a, b
  <2>4. PICK j \in Nat : Steps(a, b, j) /\ CountAt(b, j, w) + 0 <= CountAt(a, j, w) + One(w, v)
    <3>1. CASE k = m
      <4>1. Steps(a, b, m)
        BY <1>1, <2>2, <2>3, <3>1 DEF Steps
      <4>2. CountAt(b, m, w) = CountAt(a, m, w)
        BY <2>1, <2>2, <2>3, <3>1 DEF CountAt
      <4>3. CountAt(a, m, w) \in Nat
        BY <2>2, TotalSplit
      <4>4. CountAt(a, m, w) + 0 <= CountAt(a, m, w) + One(w, v)
        BY <1>2, <4>3
      <4>5. CountAt(b, m, w) + 0 <= CountAt(a, m, w) + One(w, v)
        BY <4>2, <4>4
      <4> QED
        BY <4>1, <4>5
    <3>2. CASE k # m
      <4>1. Steps(a, b, m)
        <5> SUFFICES ASSUME NEW n \in 1 .. Len(b), n # m
                     PROVE  b[n].rows = <<>> \/ (n \in 1 .. Len(a) /\ b[n].rows = a[n].rows)
          BY DEF Steps
        <5>1. CASE n = k
          BY <2>1, <2>2, <2>3, <5>1
        <5>2. CASE n # k
          BY <1>1, <2>2, <2>3, <5>2 DEF Steps
        <5> QED
          BY <5>1, <5>2
      <4>2. CountAt(b, m, w) = CountAt(g, m, w) /\ CountAt(a, m, w) = CountAt(f, m, w)
        BY <2>2, <2>3, <3>2 DEF CountAt
      <4> QED
        BY <1>4, <4>1, <4>2
    <3> QED
      BY <3>1, <3>2
  <2>5. Total(b, w) + 0 <= Total(a, w) + One(w, v)
    BY <1>2, <2>2, <2>3, <2>4, TotalShifts
  <2>6. Total(a, w) \in Nat /\ Total(b, w) \in Nat
    BY <2>2, <2>3, <2>4, TotalMoves
  <2>7. Total(b, w) <= Total(a, w) + One(w, v)
    BY <1>2, <2>5, <2>6
  <2> QED
    BY <2>7 DEF a, b
<1> QED
  BY <1>6, <1>8

(* deleteData leaves the page it was given with what it was left with in   *)
(* memory, or as it was.                                                   *)
LEMMA DeletedLeaves ==
    ASSUME NEW d, d.file \in Seq(Onward), NEW page \in Onward, NEW i, NEW e,
           Deleted(d, page, i, e)
    PROVE  /\ Steps(d.file, e.file, page.page_number)
           /\ Len(d.file) <= Len(e.file)
           /\ \A n \in 1 .. Len(e.file) : n = page.page_number =>
                \/ e.file[n].rows \in {<<>>, RemoveAt(page.rows, i)}
                \/ n \in 1 .. Len(d.file) /\ e.file[n].rows = d.file[n].rows
<1>1. PICK P \in SUBSET Onward :
        /\ Rewrites(d, e, P)
        /\ \A r \in P : RowRemoved(page, i, r) \/ Blank(r) \/ Copied(d, r)
  BY DEF Deleted
<1>2. ASSUME NEW n \in 1 .. Len(e.file)
      PROVE  \/ e.file[n].rows = <<>>
             \/ n \in 1 .. Len(d.file) /\ e.file[n].rows = d.file[n].rows
             \/ n = page.page_number /\ e.file[n].rows = RemoveAt(page.rows, i)
  <2>1. CASE e.file[n] \in P /\ e.file[n].page_number = n
    BY <1>1, <2>1 DEF RowRemoved, Blank, Copied
  <2>2. CASE e.file[n] = ZeroPage \/ (n \in 1 .. Len(d.file) /\ e.file[n] = d.file[n])
    BY <2>2, ZeroPageOnward
  <2> QED
    BY <1>1, <2>1, <2>2 DEF Rewrites
<1> QED
  BY <1>1, <1>2 DEF Steps, Rewrites

\* The page that is written has one row less than the one in memory had.
LEMMA LessOnPage ==
    ASSUME NEW rows \in Seq(Values), NEW i \in DOMAIN rows, NEW w,
           NEW t \in {<<>>, RemoveAt(rows, i)}
    PROVE  Count(t, w) + One(w, rows[i]) <= Count(rows, w) /\ Count(t, w) \in Nat
<1>1. i \in 1 .. Len(rows)
  BY LenProperties
<1>2. RemoveAt(rows, i) \in Seq(Values)
  BY <1>1, RemoveAtEffect
<1>3. Count(RemoveAt(rows, i), w) \in Nat /\ Count(rows, w) \in Nat
  BY <1>2, CountNat
<1>4. Count(RemoveAt(rows, i), w) + One(w, rows[i]) <= Count(rows, w)
  BY CountRemoved
<1>5. One(w, rows[i]) \in Nat
  BY DEF One
<1>6. Count(<<>>, w) = 0
  BY CountNone
<1>7. 0 + One(w, rows[i]) <= Count(rows, w)
  BY <1>3, <1>4, <1>5
<1> QED
  BY <1>3, <1>4, <1>6, <1>7

(* With the page in memory counted as if it were in the file, deleteData   *)
(* takes a row away.                                                       *)
LEMMA DeletedTotal ==
    ASSUME NEW d, d.file \in Seq(Onward), NEW page \in Onward, NEW i \in DOMAIN page.rows,
           page.page_number \in 1 .. Len(d.file), NEW e, e.file \in Seq(Onward),
           Deleted(d, page, i, e),
           e.file[page.page_number].rows \in {<<>>, RemoveAt(page.rows, i)}, NEW w
    PROVE  LET m == page.page_number
               f == Put(d.file, m, page)
           IN  /\ Total(e.file, w) + One(w, page.rows[i]) <= Total(f, w)
               /\ \A q \in Onward : q.rows = RemoveAt(page.rows, i) =>
                    Total(Put(e.file, m, q), w) + One(w, page.rows[i]) <= Total(f, w)
<1> DEFINE m == page.page_number
           f == Put(d.file, m, page)
           o == One(w, page.rows[i])
<1>1. Steps(d.file, e.file, m) /\ Len(d.file) <= Len(e.file)
  BY DeletedLeaves
<1>2. /\ f \in Seq(Onward) /\ Len(f) = Len(d.file)
      /\ \A n \in 1 .. Len(d.file) : f[n] = IF n = m THEN page ELSE d.file[n]
  BY PutSeq
<1>3. page.rows \in Seq(Values)
  BY OnwardFields
<1>4. Len(d.file) \in Nat /\ Len(e.file) \in Nat
  BY LenProperties
<1>5. m \in 1 .. Len(e.file) /\ m \in 1 .. Len(d.file)
  <2>1. PICK k \in 1 .. Len(d.file) : k = m
    OBVIOUS
  <2>2. k \in 1 .. Len(e.file)
    BY <1>1, <1>4
  <2> QED
    BY <2>1, <2>2
<1>6. e.file[m].rows \in {<<>>, RemoveAt(page.rows, i)}
  OBVIOUS
<1> HIDE DEF m, f
<1>7. o \in Nat
  BY DEF One
<1>8. CountAt(f, m, w) = Count(page.rows, w) /\ Count(page.rows, w) \in Nat
  BY <1>2, <1>3, <1>5, CountNat DEF CountAt
<1>9. ASSUME NEW g \in Seq(Onward), Len(g) = Len(e.file),
             \A n \in 1 .. Len(g) : n # m => g[n] = e.file[n],
             g[m].rows \in {<<>>, RemoveAt(page.rows, i)}
      PROVE  Total(g, w) + o <= Total(f, w)
  <2>1. Steps(f, g, m)
    BY <1>1, <1>2, <1>9 DEF Steps
  <2>2. CountAt(g, m, w) = Count(g[m].rows, w)
    BY <1>5, <1>9 DEF CountAt
  <2>3. Count(g[m].rows, w) + o <= Count(page.rows, w)
    BY <1>3, <1>9, LessOnPage
  <2>4. CountAt(g, m, w) + o <= CountAt(f, m, w) + 0
    BY <1>8, <2>2, <2>3
  <2>5. Total(g, w) + o <= Total(f, w) + 0
    BY <1>2, <1>7, <1>9, <2>1, <2>4, TotalShifts
  <2>6. Total(f, w) \in Nat
    BY <1>2, <2>1, TotalMoves
  <2> QED
    BY <2>5, <2>6
<1>10. Total(e.file, w) + o <= Total(f, w)
  BY <1>6, <1>9
<1>11. ASSUME NEW q \in Onward, q.rows = RemoveAt(page.rows, i)
       PROVE  Total(Put(e.file, m, q), w) + o <= Total(f, w)
  <2> DEFINE g == Put(e.file, m, q)
  <2>1. /\ g \in Seq(Onward) /\ Len(g) = Len(e.file)
        /\ \A n \in 1 .. Len(e.file) : g[n] = IF n = m THEN q ELSE e.file[n]
    BY PutSeq
  <2> HIDE DEF g
  <2>2. g[m].rows = RemoveAt(page.rows, i)
    BY <1>5, <1>11, <2>1
  <2>3. Total(g, w) + o <= Total(f, w)
    BY <1>9, <2>1, <2>2
  <2> QED
    BY <2>3 DEF g
<1> QED
  BY <1>10, <1>11 DEF m, f

(* Killed before the page was written, or after.                           *)
LEMMA KilledTotal ==
    ASSUME NEW d, d.file \in Seq(Onward), NEW page \in Onward, NEW i \in DOMAIN page.rows,
           page.page_number \in 1 .. Len(d.file), NEW e, e.file \in Seq(Onward),
           Deleted(d, page, i, e), NEW w
    PROVE  \/ Total(e.file, w) <= Total(d.file, w)
           \/ Total(e.file, w) <= Total(Put(d.file, page.page_number, page), w)
<1> DEFINE m == page.page_number
           f == Put(d.file, m, page)
<1>1. /\ Steps(d.file, e.file, m) /\ Len(d.file) <= Len(e.file)
      /\ \A n \in 1 .. Len(e.file) : n = m =>
           \/ e.file[n].rows \in {<<>>, RemoveAt(page.rows, i)}
           \/ n \in 1 .. Len(d.file) /\ e.file[n].rows = d.file[n].rows
  BY DeletedLeaves
<1>2. Len(d.file) \in Nat /\ Len(e.file) \in Nat
  BY LenProperties
<1>3. m \in 1 .. Len(e.file) /\ m \in 1 .. Len(d.file)
  <2>1. PICK k \in 1 .. Len(d.file) : k = m
    OBVIOUS
  <2>2. k \in 1 .. Len(e.file)
    BY <1>1, <1>2
  <2> QED
    BY <2>1, <2>2
<1>4. CASE e.file[m].rows = d.file[m].rows
  <2>1. CountAt(e.file, m, w) = CountAt(d.file, m, w)
    BY <1>3, <1>4 DEF CountAt
  <2>2. CountAt(d.file, m, w) \in Nat
    BY TotalSplit
  <2> HIDE DEF m
  <2>3. CountAt(e.file, m, w) + 0 <= CountAt(d.file, m, w) + 0
    BY <2>1, <2>2
  <2>4. Total(e.file, w) + 0 <= Total(d.file, w) + 0
    BY <1>1, <2>3, TotalShifts
  <2>5. Total(e.file, w) \in Nat /\ Total(d.file, w) \in Nat
    BY <1>1, TotalMoves
  <2> QED
    BY <2>4, <2>5
<1>5. CASE e.file[m].rows \in {<<>>, RemoveAt(page.rows, i)}
  <2>1. Total(e.file, w) + One(w, page.rows[i]) <= Total(f, w)
    BY <1>5, DeletedTotal
  <2>2. One(w, page.rows[i]) \in Nat
    BY DEF One
  <2>3. f \in Seq(Onward)
    BY PutSeq
  <2>4. Total(f, w) \in Nat /\ Total(e.file, w) \in Nat
    <3>1. {} \subseteq 1 .. Len(f) /\ {} \subseteq 1 .. Len(e.file)
      OBVIOUS
    <3> HIDE DEF f
    <3> QED
      BY <2>3, <3>1, PlacesFinite
  <2> HIDE DEF f
  <2>5. Total(e.file, w) <= Total(f, w)
    BY <2>1, <2>2, <2>4
  <2> QED
    BY <2>5 DEF f
<1> QED
  BY <1>1, <1>3, <1>4, <1>5

----------------------------------------------------------------------------
(***************************************************************************)
(* No row is made up.  The pages of the file, wherever they are linked or  *)
(* lost, hold a row no more often than it was given; so they would with    *)
(* the page in memory written over the one at its place, which deleteData  *)
(* does; and so does new_file.bin with the pages that are still to copy.   *)
(***************************************************************************)
Clean(h) == "past end" \notin h

Within(f, g) == \A v \in Values : Total(f, v) <= g[v]

InMemory ==
    pg # NoPage =>
        /\ \A v \in Values : Count(pg.rows, v) <= given[v]
        /\ FileHome(db.file) => Within(Put(db.file, pg.page_number, pg), given)

ToCopy(v) == Cardinality(Places(db.file, at .. Len(db.file), v))

RowInv ==
    Clean(harm) =>
        /\ Within(db.file, given) /\ InMemory
        /\ pc = "copying" => \A v \in Values : Total(copy, v) + ToCopy(v) <= given[v]
        /\ pc \in {"copied", "removed"} => Within(copy, given)

(* How often a row is in a file is a number.                               *)
LEMMA TotalNat ==
    ASSUME NEW f \in Seq(Onward), NEW v PROVE Total(f, v) \in Nat
<1>1. {} \subseteq 1 .. Len(f)
  OBVIOUS
<1> QED
  BY <1>1, PlacesFinite

(* No row is in an empty file.                                             *)
LEMMA TotalNone ==
    ASSUME NEW v PROVE Total(<<>>, v) = 0
<1>1. 1 .. Len(<<>>) = {}
  OBVIOUS
<1>2. Places(<<>>, {}, v) = {}
  BY DEF Places
<1> QED
  BY <1>1, <1>2, FS_EmptySet DEF Total

(* If the program finds every page in its place, then they are.            *)
LEMMA AtHomeFile ==
    ASSUME Shapes, AtHome PROVE FileHome(db.file)
<1>1. eof \in Nat /\ Len(db.file) \in Nat
  BY ShapesUsable
<1>2. \A n \in 1 .. Len(db.file) : n \in 1 .. eof \/ n > eof
  BY <1>1
<1>3. \A n \in 1 .. Len(db.file) : n > eof => db.file[n] = ZeroPage
  BY DEF Shapes, FileShape
<1> QED
  BY <1>2, <1>3 DEF AtHome, FileHome

(* How often a row was given is a number.                                  *)
LEMMA GivenNat ==
    ASSUME Shapes, NEW w \in Values PROVE given[w] \in Nat
BY DEF Shapes, HistoryShape

(* A row given is given once more.                                         *)
LEMMA GivenPlus ==
    ASSUME Shapes, NEW v \in Values, Plus(v), NEW w \in Values
    PROVE  given'[w] = given[w] + One(w, v)
BY DEF Plus, One, Shapes, HistoryShape

(* A row deleted is given once less.                                       *)
LEMMA GivenMinus ==
    ASSUME Shapes, NEW v \in Values, Minus(v), NEW w \in Values, One(w, v) <= given[w]
    PROVE  given'[w] = given[w] - One(w, v)
<1>1. given \in [Values -> Nat]
  BY DEF Shapes, HistoryShape
<1>2. CASE w = v
  <2>1. given[w] # 0
    BY <1>1, <1>2 DEF One
  <2> QED
    BY <1>1, <1>2, <2>1 DEF Minus, One
<1>3. CASE w # v
  BY <1>1, <1>3 DEF Minus, One
<1> QED
  BY <1>2, <1>3

(* insertData makes up no row: what it adds was given.                     *)
LEMMA InsertRows ==
    ASSUME Shapes, RowInv, NEW v \in Values, InsertData(v) \/ KilledInserting(v)
    PROVE  RowInv'
<1>1. /\ Clean(harm') => Clean(harm)
      /\ pc' \in {"open", "off"} /\ Plus(v) /\ (pg' = pg \/ pg' = NoPage)
      /\ Writing /\ PlaceReadable(db, eof, tbl)
  BY DEF InsertData, KilledInserting, Writing, Gone, Harmed, If, Clean
<1> SUFFICES ASSUME Within(db.file, given), InMemory
             PROVE  Within(db'.file, given') /\ InMemory'
  BY <1>1 DEF RowInv
<1>2. PICK wrote \in BOOLEAN, kept \in BOOLEAN :
        Write(insertData(db, tbl, v, wrote, kept).db)
  BY DEF InsertData, KilledInserting
<1>3. FileShape' /\ Inserted(db, tbl, v, db')
  BY <1>1, <1>2, InsertWritten
<1>4. db'.file \in Seq(Onward)
  BY <1>3 DEF FileShape
<1>5. /\ db.file \in Seq(Onward) /\ eof \in 0 .. Len(db.file)
      /\ DOMAIN db.file = 1 .. Len(db.file)
  BY ShapesUsable
<1>6. AtHome /\ FileHome(db.file)
  BY <1>1, AtHomeFile DEF Writing
<1>7. Gains(db.file, db'.file, v)
  BY <1>1, <1>3, <1>4, <1>5, <1>6, PlaceInFile, InsertedGains
<1>8. ASSUME NEW w \in Values
      PROVE  given'[w] = given[w] + One(w, v) /\ given[w] \in Nat /\ One(w, v) \in Nat
  BY <1>1, GivenPlus, GivenNat DEF One
<1>9. Within(db'.file, given')
  <2> SUFFICES ASSUME NEW w \in Values PROVE Total(db'.file, w) <= given'[w]
    BY DEF Within
  <2>1. Total(db'.file, w) <= Total(db.file, w) + One(w, v)
    BY <1>4, <1>5, <1>7, GainedTotal
  <2>2. Total(db.file, w) <= given[w]
    BY DEF Within
  <2>3. Total(db'.file, w) \in Nat /\ Total(db.file, w) \in Nat
    BY <1>4, <1>5, TotalNat
  <2> QED
    BY <1>8, <2>1, <2>2, <2>3
<1>10. InMemory'
  <2> SUFFICES ASSUME pg' # NoPage
               PROVE  /\ \A w \in Values : Count(pg'.rows, w) <= given'[w]
                      /\ Within(Put(db'.file, pg'.page_number, pg'), given')
    BY DEF InMemory
  <2>1. pg' = pg /\ pg \in Onward /\ pg # NoPage
    BY <1>1 DEF Shapes, ProgramShape
  <2>2. pg.page_number \in 1 .. Len(db.file)
    BY <1>5, <1>6, <2>1 DEF AtHome
  <2> DEFINE k == pg.page_number
             f == Put(db.file, k, pg)
             g == Put(db'.file, k, pg)
  <2>3. /\ \A w \in Values : Count(pg.rows, w) <= given[w]
        /\ Within(f, given)
    BY <1>6, <2>1 DEF InMemory
  <2>4. f \in Seq(Onward) /\ g \in Seq(Onward)
    BY <1>4, <1>5, <2>1, PutSeq
  <2>5. \A w \in Values : Total(g, w) <= Total(f, w) + One(w, v)
    BY <1>4, <1>5, <1>7, <2>1, <2>2, GainedTotal
  <2>6. pg'.page_number = k /\ Put(db'.file, pg'.page_number, pg') = g
    BY <2>1
  <2> HIDE DEF f, g
  <2>7. ASSUME NEW w \in Values PROVE Count(pg'.rows, w) <= given'[w]
    <3>1. Count(pg.rows, w) \in Nat /\ Count(pg.rows, w) <= given[w]
      BY <2>1, <2>3, CountNat, OnwardFields
    <3>2. Count(pg'.rows, w) = Count(pg.rows, w)
      BY <2>1
    <3> QED
      BY <1>8, <3>1, <3>2
  <2>8. ASSUME NEW w \in Values PROVE Total(g, w) <= given'[w]
    <3>1. Total(f, w) \in Nat /\ Total(g, w) \in Nat /\ Total(f, w) <= given[w]
      BY <2>3, <2>4, TotalNat DEF Within
    <3> QED
      BY <1>8, <2>5, <3>1
  <2> QED
    BY <2>6, <2>7, <2>8 DEF Within
<1> QED
  BY <1>9, <1>10

\* What deleteData leaves, of which a row has been taken off.
LEMMA DeletedRows ==
    ASSUME Shapes, AtHome, Within(db.file, given), InMemory,
           pg # NoPage, NEW i \in DOMAIN pg.rows,
           NEW e, e.file \in Seq(Onward), Deleted(db, pg, i, e), NEW w \in Values
    PROVE  /\ Total(e.file, w) <= given[w]
           /\ (\A n \in 1 .. Len(db.file) : n = pg.page_number =>
                 e.file[n].rows \in {<<>>, RemoveAt(pg.rows, i)})
              => /\ Total(e.file, w) + One(w, pg.rows[i]) <= given[w]
                 /\ \A q \in Onward : q.rows = RemoveAt(pg.rows, i) =>
                      /\ Total(Put(e.file, pg.page_number, q), w) + One(w, pg.rows[i]) <= given[w]
                      /\ Count(q.rows, w) + One(w, pg.rows[i]) <= given[w]
<1>1. pg \in Onward /\ pg.rows \in Seq(Values)
  BY OnwardFields DEF Shapes, ProgramShape
<1>2. db.file \in Seq(Onward) /\ DOMAIN db.file = 1 .. Len(db.file)
  BY ShapesUsable
<1>3. pg.page_number \in 1 .. Len(db.file)
  BY <1>2 DEF AtHome
<1> DEFINE k == pg.page_number
           f == Put(db.file, k, pg)
           o == One(w, pg.rows[i])
<1>4. /\ Total(f, w) <= given[w] /\ Total(db.file, w) <= given[w]
      /\ Count(pg.rows, w) <= given[w]
  BY AtHomeFile DEF InMemory, Within
<1>5. f \in Seq(Onward)
  BY <1>1, <1>2, PutSeq
<1>6. Total(f, w) \in Nat /\ Total(db.file, w) \in Nat /\ Total(e.file, w) \in Nat
  BY <1>2, <1>5, TotalNat
<1>7. given[w] \in Nat /\ o \in Nat
  BY GivenNat DEF One
<1>8. Total(e.file, w) <= Total(db.file, w) \/ Total(e.file, w) <= Total(f, w)
  BY <1>1, <1>2, <1>3, KilledTotal
<1> HIDE DEF f, o
<1>9. Total(e.file, w) <= given[w]
  BY <1>4, <1>6, <1>7, <1>8
<1>10. ASSUME e.file[k].rows \in {<<>>, RemoveAt(pg.rows, i)}
       PROVE  /\ Total(e.file, w) + o <= given[w]
              /\ \A q \in Onward : q.rows = RemoveAt(pg.rows, i) =>
                   /\ Total(Put(e.file, k, q), w) + o <= given[w]
                   /\ Count(q.rows, w) + o <= given[w]
  <2>1. /\ Total(e.file, w) + o <= Total(f, w)
        /\ \A q \in Onward : q.rows = RemoveAt(pg.rows, i) =>
             Total(Put(e.file, k, q), w) + o <= Total(f, w)
    BY <1>1, <1>2, <1>3, <1>10, DeletedTotal DEF f, o
  <2>2. Total(e.file, w) + o <= given[w]
    BY <1>4, <1>6, <1>7, <2>1
  <2>3. ASSUME NEW q \in Onward, q.rows = RemoveAt(pg.rows, i)
        PROVE  /\ Total(Put(e.file, k, q), w) + o <= given[w]
               /\ Count(q.rows, w) + o <= given[w]
    <3>1. Put(e.file, k, q) \in Seq(Onward)
      BY PutSeq
    <3>2. Total(Put(e.file, k, q), w) \in Nat
      BY <3>1, TotalNat
    <3>3. Total(Put(e.file, k, q), w) + o <= Total(f, w)
      BY <2>1, <2>3
    <3>4. Total(Put(e.file, k, q), w) + o <= given[w]
      BY <1>4, <1>6, <1>7, <3>2, <3>3
    <3>5. Count(q.rows, w) + o <= Count(pg.rows, w) /\ Count(q.rows, w) \in Nat
      BY <1>1, <2>3, LessOnPage DEF o
    <3>6. Count(pg.rows, w) \in Nat
      BY <1>1, CountNat
    <3>7. Count(q.rows, w) + o <= given[w]
      BY <1>4, <1>7, <3>5, <3>6
    <3> QED
      BY <3>4, <3>7
  <2> QED
    BY <2>2, <2>3
<1> QED
  BY <1>3, <1>9, <1>10 DEF o

(* deleteData makes up no row, however old the page is that it writes.     *)
LEMMA DeleteRows ==
    ASSUME Shapes, RowInv, NEW i, DeleteData(i) \/ KilledDeleting(i)
    PROVE  RowInv'
<1>1. (Clean(harm') => Clean(harm)) /\ pc' \in {"open", "off"} /\ Deletable(i)
  BY DEF DeleteData, KilledDeleting, Deletable, Writing, Gone, Harmed, If, Clean
<1> SUFFICES ASSUME Within(db.file, given), InMemory
             PROVE  Within(db'.file, given') /\ InMemory'
  BY <1>1 DEF RowInv
<1>2. pg \in Onward /\ pg # NoPage /\ i \in DOMAIN pg.rows /\ AtHome
  BY <1>1, DeletableHere
<1>3. pg.rows[i] \in Values
  <2>1. pg.rows \in Seq(Values)
    BY <1>2, OnwardFields
  <2>2. i \in 1 .. Len(pg.rows)
    BY <1>2, <2>1, LenProperties
  <2> QED
    BY <2>1, <2>2, ElementOfSeq
<1>4. CASE KilledDeleting(i)
  <2>1. FileShape' /\ Deleted(db, pg, i, db') /\ pg' = NoPage /\ given' = given
    BY <1>4, KilledDeletingWritten DEF KilledDeleting, Gone
  <2>2. db'.file \in Seq(Onward)
    BY <2>1 DEF FileShape
  <2>3. \A w \in Values : Total(db'.file, w) <= given[w]
    BY <1>2, <2>1, <2>2, DeletedRows
  <2> QED
    BY <2>1, <2>3 DEF Within, InMemory
<1>5. CASE DeleteData(i)
  <2> DEFINE done == deleteData(db, tbl, pg, i, TRUE)
             k == pg.page_number
  <2>1. Write(done.db) /\ pg' = done.pg /\ Minus(pg.rows[i])
    BY <1>5 DEF DeleteData
  <2>2. /\ FileShape' /\ Deleted(db, pg, i, db')
        /\ RowRemoved(pg, i, done.pg) \/ done.pg = NoPage
        /\ \A n \in 1 .. Len(db.file) : n = pg.page_number =>
             db'.file[n].rows \in {<<>>, RemoveAt(pg.rows, i)}
    BY <1>1, <2>1, DeleteWritten
  <2>3. RowRemoved(pg, i, pg') \/ pg' = NoPage
    BY <2>1, <2>2
  <2> HIDE DEF done
  <2>4. db'.file \in Seq(Onward)
    BY <2>2 DEF FileShape
  <2>5. ASSUME NEW w \in Values
        PROVE  /\ Total(db'.file, w) + One(w, pg.rows[i]) <= given[w]
               /\ \A q \in Onward : q.rows = RemoveAt(pg.rows, i) =>
                    /\ Total(Put(db'.file, k, q), w) + One(w, pg.rows[i]) <= given[w]
                    /\ Count(q.rows, w) + One(w, pg.rows[i]) <= given[w]
    BY <1>2, <2>2, <2>4, DeletedRows
  <2>6. ASSUME NEW w \in Values, NEW x \in Nat, x + One(w, pg.rows[i]) <= given[w]
        PROVE  x <= given'[w]
    <3>1. given[w] \in Nat /\ One(w, pg.rows[i]) \in Nat
      BY GivenNat DEF One
    <3>2. One(w, pg.rows[i]) <= given[w]
      BY <2>6, <3>1
    <3>3. given'[w] = given[w] - One(w, pg.rows[i])
      BY <1>3, <2>1, <3>2, GivenMinus
    <3> QED
      BY <2>6, <3>1, <3>3
  <2>7. Within(db'.file, given')
    <3> SUFFICES ASSUME NEW w \in Values PROVE Total(db'.file, w) <= given'[w]
      BY DEF Within
    <3>1. Total(db'.file, w) \in Nat
      BY <2>4, TotalNat
    <3> QED
      BY <2>5, <2>6, <3>1
  <2>8. InMemory'
    <3> SUFFICES ASSUME pg' # NoPage
                 PROVE  /\ \A w \in Values : Count(pg'.rows, w) <= given'[w]
                        /\ Within(Put(db'.file, pg'.page_number, pg'), given')
      BY DEF InMemory
    <3>1. /\ pg' \in Onward /\ pg'.page_number = k /\ pg'.rows = RemoveAt(pg.rows, i)
          /\ pg'.rows \in Seq(Values)
      BY <2>3, OnwardFields DEF RowRemoved
    <3> DEFINE g == Put(db'.file, k, pg')
    <3>2. g \in Seq(Onward)
      BY <2>4, <3>1, PutSeq
    <3>3. ASSUME NEW w \in Values
          PROVE  /\ Total(g, w) + One(w, pg.rows[i]) <= given[w]
                 /\ Count(pg'.rows, w) + One(w, pg.rows[i]) <= given[w]
      BY <2>5, <3>1
    <3> HIDE DEF g
    <3>4. ASSUME NEW w \in Values
          PROVE  Total(g, w) <= given'[w] /\ Count(pg'.rows, w) <= given'[w]
      <4>1. Total(g, w) \in Nat /\ Count(pg'.rows, w) \in Nat
        BY <3>1, <3>2, TotalNat, CountNat
      <4> QED
        BY <2>6, <3>3, <4>1
    <3>5. Put(db'.file, pg'.page_number, pg') = g
      BY <3>1 DEF g
    <3> QED
      BY <3>4, <3>5 DEF Within
  <2> QED
    BY <2>7, <2>8
<1> QED
  BY <1>4, <1>5

(* deleteData, then insertData: the row that comes may be the one that     *)
(* goes.                                                                   *)
LEMMA MoveRows ==
    ASSUME Shapes, RowInv, NEW i, NEW v \in Values, UpdateMoves(i, v)
    PROVE  RowInv'
<1>1. (Clean(harm') => Clean(harm)) /\ pc' = "open" /\ Deletable(i)
  BY DEF UpdateMoves, Deletable, Writing, closing, Harmed, If, Clean
<1> SUFFICES ASSUME Within(db.file, given), InMemory
             PROVE  Within(db'.file, given') /\ InMemory'
  BY <1>1 DEF RowInv
<1>2. pg \in Onward /\ pg # NoPage /\ i \in DOMAIN pg.rows /\ AtHome
  BY <1>1, DeletableHere
<1> DEFINE cut == deleteData(db, tbl, pg, i, TRUE)
           k == pg.page_number
           old == pg.rows[i]
<1>3. /\ FileShape'
      /\ Deleted(db, pg, i, cut.db) /\ Inserted(cut.db, cut.tbl, v, db')
      /\ Usable(cut.db, cut.tbl) /\ PlaceReadable(cut.db, eof, cut.tbl)
      /\ eof \in 0 .. Len(cut.db.file)
      /\ pg' = cut.pg /\ (RowRemoved(pg, i, cut.pg) \/ cut.pg = NoPage)
      /\ \A n \in 1 .. Len(db.file) : n = pg.page_number =>
           cut.db.file[n].rows \in {<<>>, RemoveAt(pg.rows, i)}
  BY MoveWritten
<1> HIDE DEF cut
<1>4. RowRemoved(pg, i, pg') \/ pg' = NoPage
  BY <1>3
<1> DEFINE f == cut.db.file
           g == db'.file
<1>5. f \in Seq(Onward) /\ g \in Seq(Onward)
  BY <1>3 DEF FileShape, Usable
<1>6. /\ db.file \in Seq(Onward) /\ DOMAIN db.file = 1 .. Len(db.file)
      /\ Len(db.file) \in Nat /\ FileHome(db.file)
  BY <1>2, ShapesUsable, AtHomeFile
<1>7. FileHome(f) /\ Len(db.file) <= Len(f)
  BY <1>2, <1>3, <1>6, DeletedAtHome, DeletedLeaves
<1>8. k \in 1 .. Len(f)
  <2>1. k \in 1 .. Len(db.file)
    BY <1>2, <1>6 DEF AtHome
  <2>2. PICK n \in 1 .. Len(db.file) : n = k
    BY <2>1
  <2>3. Len(f) \in Nat
    BY <1>5, LenProperties
  <2>4. n \in 1 .. Len(f)
    BY <1>6, <1>7, <2>3
  <2> QED
    BY <2>2, <2>4
<1>9. Gains(f, g, v)
  BY <1>3, <1>5, <1>7, PlaceInFile, InsertedGains
<1>10. ASSUME NEW w \in Values
       PROVE  /\ Total(f, w) + One(w, old) <= given[w]
              /\ \A q \in Onward : q.rows = RemoveAt(pg.rows, i) =>
                   /\ Total(Put(f, k, q), w) + One(w, old) <= given[w]
                   /\ Count(q.rows, w) + One(w, old) <= given[w]
  BY <1>2, <1>3, <1>5, DeletedRows
<1>11. ASSUME NEW w \in Values
       PROVE  /\ given'[w] = given[w] + One(w, v) - One(w, old)
              /\ given[w] \in Nat /\ One(w, v) \in Nat /\ One(w, old) \in Nat
  <2>1. given[w] \in Nat /\ One(w, v) \in Nat /\ One(w, old) \in Nat
    BY GivenNat DEF One
  <2>2. Total(f, w) \in Nat
    BY <1>5, TotalNat
  <2>3. One(w, old) <= given[w]
    BY <1>10, <2>1, <2>2
  <2>4. given'[w] = given[w] + (IF w = v THEN 1 ELSE 0)
                      - (IF w = old /\ given[w] > 0 THEN 1 ELSE 0)
    BY DEF UpdateMoves
  <2>5. (IF w = old /\ given[w] > 0 THEN 1 ELSE 0) = One(w, old)
    BY <2>1, <2>3 DEF One
  <2> QED
    BY <2>1, <2>4, <2>5 DEF One
<1> HIDE DEF f, g, old
<1>12. ASSUME NEW w \in Values, NEW x \in Nat, NEW y \in Nat,
              y <= x + One(w, v), x + One(w, old) <= given[w]
       PROVE  y <= given'[w]
  <2>1. PICK a \in Nat, b \in Nat, c \in Nat :
          a = given[w] /\ b = One(w, v) /\ c = One(w, old)
    BY <1>11
  <2>2. given'[w] = a + b - c
    BY <1>11, <2>1
  <2>3. y <= x + b /\ x + c <= a
    BY <1>12, <2>1
  <2>4. y <= a + b - c
    BY <2>1, <2>3
  <2> QED
    BY <2>2, <2>4
<1>13. Within(g, given')
  <2> SUFFICES ASSUME NEW w \in Values PROVE Total(g, w) <= given'[w]
    BY DEF Within
  <2>1. Total(f, w) \in Nat /\ Total(g, w) \in Nat
    BY <1>5, TotalNat
  <2>2. Total(g, w) <= Total(f, w) + One(w, v)
    BY <1>5, <1>9, GainedTotal
  <2> QED
    BY <1>10, <1>12, <2>1, <2>2
<1>14. InMemory'
  <2> SUFFICES ASSUME pg' # NoPage
               PROVE  /\ \A w \in Values : Count(pg'.rows, w) <= given'[w]
                      /\ Within(Put(g, pg'.page_number, pg'), given')
    BY DEF InMemory, g
  <2>1. /\ pg' \in Onward /\ pg'.page_number = k /\ pg'.rows = RemoveAt(pg.rows, i)
        /\ pg'.rows \in Seq(Values)
    BY <1>4, OnwardFields DEF RowRemoved
  <2> DEFINE a == Put(f, k, pg')
             b == Put(g, k, pg')
  <2>2. a \in Seq(Onward) /\ b \in Seq(Onward)
    BY <1>5, <2>1, PutSeq
  <2>3. ASSUME NEW w \in Values
        PROVE  /\ Total(a, w) + One(w, old) <= given[w]
               /\ Count(pg'.rows, w) + One(w, old) <= given[w]
               /\ Total(b, w) <= Total(a, w) + One(w, v)
    BY <1>5, <1>8, <1>9, <1>10, <2>1, GainedTotal
  <2>4. Put(g, pg'.page_number, pg') = b
    BY <2>1
  <2> HIDE DEF a, b
  <2>5. ASSUME NEW w \in Values
        PROVE  Total(b, w) <= given'[w] /\ Count(pg'.rows, w) <= given'[w]
    <3>1. Total(a, w) \in Nat /\ Total(b, w) \in Nat /\ Count(pg'.rows, w) \in Nat
      BY <2>1, <2>2, TotalNat, CountNat
    <3>2. Count(pg'.rows, w) <= Count(pg'.rows, w) + One(w, v)
      BY <1>11, <3>1
    <3> QED
      BY <1>12, <2>3, <3>1, <3>2
  <2> QED
    BY <2>4, <2>5 DEF Within
<1> QED
  BY <1>13, <1>14 DEF g

(* A file whose pages are those of another, or lack rows, has no row       *)
(* more often.                                                             *)
LEMMA FewerRows ==
    ASSUME NEW f \in Seq(Onward), NEW g \in Seq(Onward),
           \A n \in 1 .. Len(g) :
             g[n].rows = <<>> \/ (n \in 1 .. Len(f) /\ g[n].rows = f[n].rows), NEW v
    PROVE  Total(g, v) <= Total(f, v) /\ Total(g, v) \in Nat /\ Total(f, v) \in Nat
<1> DEFINE S == 1 .. Len(g)
           T == 1 .. Len(f)
<1>1. \A n \in S : g[n].rows = <<>> \/ (n \in T /\ g[n].rows = f[n].rows)
  OBVIOUS
<1>2. S \subseteq 1 .. Len(g) /\ T \subseteq 1 .. Len(f)
  OBVIOUS
<1> HIDE DEF S, T
<1>3. /\ Cardinality(Places(g, S, v)) <= Cardinality(Places(f, T, v))
      /\ Cardinality(Places(g, S, v)) \in Nat /\ Cardinality(Places(f, T, v)) \in Nat
  BY <1>1, <1>2, PlacesWithin
<1> QED
  BY <1>3 DEF Total, S, T

(* What a file of no more rows than a file within given has.               *)
LEMMA FewerWithin ==
    ASSUME Shapes, NEW f \in Seq(Onward), Within(f, given), NEW g \in Seq(Onward),
           \A n \in 1 .. Len(g) :
             g[n].rows = <<>> \/ (n \in 1 .. Len(f) /\ g[n].rows = f[n].rows)
    PROVE  Within(g, given)
<1> SUFFICES ASSUME NEW w \in Values PROVE Total(g, w) <= given[w]
  BY DEF Within
<1>1. Total(g, w) <= Total(f, w) /\ Total(g, w) \in Nat /\ Total(f, w) \in Nat
  BY FewerRows
<1>2. Total(f, w) <= given[w] /\ given[w] \in Nat
  BY GivenNat DEF Within
<1> QED
  BY <1>1, <1>2

(* An update in memory keeps RowInv: the row it writes is given.           *)
LEMMA UpdateRows ==
    ASSUME Shapes, RowInv, NEW i, NEW v \in Values, UpdateInMemory(i, v)
    PROVE  RowInv'
<1>1. /\ Clean(harm') => Clean(harm)
      /\ pc' = "open" /\ db' = db /\ Plus(v)
  BY DEF UpdateInMemory, Writing, file, Harmed, If, Clean
<1> SUFFICES ASSUME Within(db.file, given), InMemory
             PROVE  Within(db'.file, given') /\ InMemory'
  BY <1>1 DEF RowInv
<1>2. /\ RowReplaced(pg, i, v, pg') /\ pg \in Onward /\ pg # NoPage
      /\ i \in DOMAIN pg.rows /\ AtHome
  BY UpdateInMemoryDone
<1>3. pg.rows \in Seq(Values)
  BY <1>2, OnwardFields
<1>4. /\ pg' \in Onward /\ pg'.page_number = pg.page_number
      /\ pg'.rows = [pg.rows EXCEPT ![i] = v] /\ pg'.rows \in Seq(Values)
  BY <1>2, OnwardFields DEF RowReplaced
<1>5. FileHome(db.file) /\ db.file \in Seq(Onward) /\ DOMAIN db.file = 1 .. Len(db.file)
  BY <1>2, AtHomeFile, ShapesUsable
<1> DEFINE k == pg.page_number
           f == Put(db.file, k, pg)
           g == Put(db.file, k, pg')
<1>6. k \in 1 .. Len(db.file)
  BY <1>2, <1>5 DEF AtHome
<1>7. ASSUME NEW w \in Values
      PROVE  given'[w] = given[w] + One(w, v) /\ given[w] \in Nat /\ One(w, v) \in Nat
  BY <1>1, GivenPlus, GivenNat DEF One
<1>8. ASSUME NEW w \in Values
      PROVE  /\ Count(pg'.rows, w) <= Count(pg.rows, w) + One(w, v)
             /\ Count(pg.rows, w) \in Nat /\ Count(pg'.rows, w) \in Nat
  BY <1>2, <1>3, <1>4, CountReplaced, CountNat
<1>9. /\ f \in Seq(Onward) /\ g \in Seq(Onward)
      /\ Len(f) = Len(db.file) /\ Len(g) = Len(db.file)
      /\ \A n \in 1 .. Len(db.file) : f[n] = IF n = k THEN pg ELSE db.file[n]
      /\ \A n \in 1 .. Len(db.file) : g[n] = IF n = k THEN pg' ELSE db.file[n]
  <2>1. /\ f \in Seq(Onward) /\ Len(f) = Len(db.file)
        /\ \A n \in 1 .. Len(db.file) : f[n] = IF n = k THEN pg ELSE db.file[n]
    BY <1>2, <1>5, PutSeq
  <2>2. /\ g \in Seq(Onward) /\ Len(g) = Len(db.file)
        /\ \A n \in 1 .. Len(db.file) : g[n] = IF n = k THEN pg' ELSE db.file[n]
    BY <1>4, <1>5, PutSeq
  <2> QED
    BY <2>1, <2>2
<1>10. Within(f, given) /\ \A w \in Values : Count(pg.rows, w) <= given[w]
  BY <1>2, <1>5 DEF InMemory
<1>11. Put(db'.file, pg'.page_number, pg') = g
  BY <1>1, <1>4
<1> HIDE DEF f, g
<1>12. ASSUME NEW w \in Values PROVE Total(g, w) <= given'[w]
  <2>1. Steps(f, g, k)
    BY <1>9 DEF Steps
  <2>2. CountAt(g, k, w) = Count(pg'.rows, w) /\ CountAt(f, k, w) = Count(pg.rows, w)
    BY <1>6, <1>9 DEF CountAt
  <2>3. CountAt(g, k, w) + 0 <= CountAt(f, k, w) + One(w, v)
    BY <1>7, <1>8, <2>2
  <2>4. Total(g, w) + 0 <= Total(f, w) + One(w, v)
    BY <1>7, <1>9, <2>1, <2>3, TotalShifts
  <2>5. Total(g, w) \in Nat /\ Total(f, w) \in Nat /\ Total(f, w) <= given[w]
    BY <1>9, <1>10, TotalNat DEF Within
  <2> QED
    BY <1>7, <2>4, <2>5
<1>13. ASSUME NEW w \in Values PROVE Total(db'.file, w) <= given'[w]
  <2>1. Total(db.file, w) \in Nat /\ Total(db.file, w) <= given[w]
    BY <1>5, TotalNat DEF Within
  <2> QED
    BY <1>1, <1>7, <2>1
<1>14. ASSUME NEW w \in Values PROVE Count(pg'.rows, w) <= given'[w]
  <2>1. Count(pg.rows, w) <= given[w]
    BY <1>10
  <2> QED
    BY <1>7, <1>8, <2>1
<1> QED
  BY <1>11, <1>12, <1>13, <1>14 DEF Within, InMemory

(* createTable writes pages without rows.                                  *)
LEMMA CreateTableRows ==
    ASSUME Shapes, RowInv, CreateTable PROVE RowInv'
<1>1. pc' = "open" /\ harm' = harm /\ given' = given /\ pg' = pg /\ db.first_table_page = 0
  BY DEF CreateTable, Program, history
<1>2. pg' = NoPage
  BY <1>1 DEF Shapes, ProgramShape
<1>3. /\ FileShape'
      /\ \E P \in SUBSET Onward : Rewrites(db, db', P) /\ \A r \in P : Blank(r)
  BY CreateTableWritten
<1>4. db.file \in Seq(Onward) /\ db'.file \in Seq(Onward)
  BY <1>3, ShapesUsable DEF FileShape
<1>5. \A n \in 1 .. Len(db'.file) :
        db'.file[n].rows = <<>> \/ (n \in 1 .. Len(db.file) /\ db'.file[n].rows = db.file[n].rows)
  BY <1>3, ZeroPageOnward DEF Rewrites, Blank
<1>6. Within(db.file, given) => Within(db'.file, given)
  BY <1>4, <1>5, FewerWithin
<1> QED
  BY <1>1, <1>2, <1>6 DEF RowInv, InMemory

(* openDatabase reads the header and no rows.                              *)
LEMMA OpenRows ==
    ASSUME Shapes, RowInv, OpenDatabase PROVE RowInv'
<1>1. pc = "off" /\ pc' = "open" /\ harm' = harm /\ given' = given /\ pg' = pg
  BY DEF OpenDatabase
<1>2. pg' = NoPage
  BY <1>1 DEF Shapes, ProgramShape
<1>3. /\ FileShape' /\ eof <= Len(db'.file)
      /\ \A n \in 1 .. Len(db'.file) :
           db'.file[n] = IF n <= eof THEN db.file[n] ELSE ZeroPage
  BY OpenedFile
<1>4. /\ db.file \in Seq(Onward) /\ db'.file \in Seq(Onward)
      /\ eof \in 0 .. Len(db.file) /\ Len(db.file) \in Nat
  BY <1>3, ShapesUsable DEF FileShape
<1>5. ASSUME NEW n \in 1 .. Len(db'.file)
      PROVE  \/ db'.file[n].rows = <<>>
             \/ n \in 1 .. Len(db.file) /\ db'.file[n].rows = db.file[n].rows
  <2>1. CASE n <= eof
    <3>1. n \in 1 .. Len(db.file)
      BY <1>4, <2>1
    <3> QED
      BY <1>3, <2>1, <3>1
  <2>2. CASE ~(n <= eof)
    BY <1>3, <2>2, ZeroPageOnward
  <2> QED
    BY <2>1, <2>2
<1>6. Within(db.file, given) => Within(db'.file, given)
  BY <1>4, <1>5, FewerWithin
<1> QED
  BY <1>1, <1>2, <1>6 DEF RowInv, InMemory

(* A page that is read is in memory what it is in the file.                *)
LEMMA ReadRows ==
    ASSUME Shapes, RowInv, ReadPage PROVE RowInv'
<1>1. pc' = "open" /\ harm' = harm /\ given' = given /\ db' = db
  BY DEF ReadPage, Program, history, file
<1> SUFFICES ASSUME Within(db.file, given), pg' # NoPage
             PROVE  /\ \A w \in Values : Count(pg'.rows, w) <= given[w]
                    /\ FileHome(db.file) => Within(Put(db.file, pg'.page_number, pg'), given)
  BY <1>1 DEF RowInv, InMemory
<1>2. db.file \in Seq(Onward) /\ eof \in 0 .. Len(db.file) /\ Len(db.file) \in Nat
  BY ShapesUsable
<1>3. PICK n \in 1 .. Len(db.file) : pg' = readRowPage(db, n)
  <2>1. PICK n : Readable(db, eof, n) /\ pg' = readRowPage(db, n)
    BY DEF ReadPage
  <2>2. n \in 1 .. Len(db.file)
    BY <1>2, <2>1 DEF Readable
  <2> QED
    BY <2>1, <2>2
<1>4. db.file[n] \in Onward
  BY <1>2, <1>3, ElementOfSeq
<1>5. /\ pg' \in Onward /\ pg'.rows = db.file[n].rows
      /\ pg'.page_number = db.file[n].page_number
  BY <1>3, <1>4, ReadRowPageOnward
<1>6. ASSUME NEW w \in Values PROVE Count(pg'.rows, w) <= given[w]
  <2>1. /\ CountAt(db.file, n, w) = Count(pg'.rows, w)
        /\ CountAt(db.file, n, w) <= Total(db.file, w) /\ CountAt(db.file, n, w) \in Nat
    BY <1>2, <1>3, <1>5, TotalSplit DEF CountAt
  <2>2. Total(db.file, w) \in Nat /\ given[w] \in Nat /\ Total(db.file, w) <= given[w]
    BY <1>2, TotalNat, GivenNat DEF Within
  <2> QED
    BY <2>1, <2>2
<1>7. ASSUME FileHome(db.file) PROVE Within(Put(db.file, pg'.page_number, pg'), given)
  <2> DEFINE k == pg'.page_number
             g == Put(db.file, k, pg')
  <2>1. /\ g \in Seq(Onward) /\ Len(g) = Len(db.file)
        /\ \A m \in 1 .. Len(db.file) : g[m] = IF m = k THEN pg' ELSE db.file[m]
    BY <1>2, <1>5, PutSeq
  <2>2. k \in 1 .. Len(db.file) => k = n
    <3>1. ZeroPage.page_number = 0
      BY DEF ZeroPage
    <3>2. 0 \notin 1 .. Len(db.file)
      BY <1>2
    <3> QED
      BY <1>3, <1>5, <1>7, <3>1, <3>2 DEF FileHome
  <2> HIDE DEF g, k
  <2>3. \A m \in 1 .. Len(g) : m \in 1 .. Len(db.file) /\ g[m].rows = db.file[m].rows
    BY <1>5, <2>1, <2>2
  <2>4. Within(g, given)
    BY <1>2, <2>1, <2>3, FewerWithin
  <2> QED
    BY <2>4 DEF g, k
<1> QED
  BY <1>6, <1>7

(* closeDatabase begins with an empty new file.                            *)
LEMMA CloseRows ==
    ASSUME Shapes, RowInv, CloseDatabase PROVE RowInv'
<1>1. /\ Clean(harm') => Clean(harm)
      /\ pc' = "copying" /\ copy' = <<>> /\ at' = 1 /\ pg' = NoPage
      /\ db' = db /\ given' = given
  BY DEF CloseDatabase, file, Harmed, If, Clean
<1> SUFFICES ASSUME Within(db.file, given), NEW v \in Values
             PROVE  Total(copy', v) + Cardinality(Places(db'.file, at' .. Len(db'.file), v))
                      <= given[v]
  BY <1>1 DEF RowInv, InMemory, ToCopy
<1>2. db.file \in Seq(Onward)
  BY ShapesUsable
<1>3. Cardinality(Places(db'.file, at' .. Len(db'.file), v)) = Total(db.file, v)
  BY <1>1 DEF Total
<1>4. Total(copy', v) = 0
  BY <1>1, TotalNone
<1>5. Total(db.file, v) \in Nat /\ Total(db.file, v) <= given[v]
  BY <1>2, TotalNat DEF Within
<1>6. 0 + Total(db.file, v) = Total(db.file, v)
  BY <1>5
<1> QED
  BY <1>3, <1>4, <1>5, <1>6

(* A page appended adds its own rows.                                      *)
LEMMA TotalAppended ==
    ASSUME NEW f \in Seq(Onward), NEW p \in Onward, NEW v
    PROVE  Total(Append(f, p), v) = Total(f, v) + Count(p.rows, v)
<1> DEFINE g == Append(f, p)
           l == Len(f)
<1>1. /\ g \in Seq(Onward) /\ Len(g) = l + 1 /\ l \in Nat /\ g[l + 1] = p
      /\ \A n \in 1 .. l : g[n] = f[n]
  BY AppendProperties, LenProperties
<1> HIDE DEF g
<1>2. Places(g, 1 .. l, v) = Places(f, 1 .. l, v)
  BY <1>1 DEF Places
<1>3. IsFiniteSet(Places(f, 1 .. l, v))
  BY PlacesFinite
<1>4. (1 .. l) \cup {l + 1} = 1 .. l + 1 /\ l + 1 \notin 1 .. l /\ l + 1 \in 1 .. l + 1
  BY <1>1
<1>5. Cardinality(Places(g, (1 .. l) \cup {l + 1}, v)) =
        Cardinality(Places(g, 1 .. l, v)) + Count(g[l + 1].rows, v)
  BY <1>1, <1>2, <1>3, <1>4, PlacesAdded
<1> QED
  BY <1>1, <1>2, <1>4, <1>5 DEF Total, g

(* A page that is copied goes over from what is to copy.                   *)
LEMMA CopyRows ==
    ASSUME Shapes, RowInv, CopyPage PROVE RowInv'
<1> DEFINE page == IF at <= eof THEN db.file[at] ELSE buf
<1>1. /\ Clean(harm') => Clean(harm) /\ ~(at > eof)
      /\ pc = "copying" /\ pc' = "copying" /\ pg' = pg /\ given' = given
  BY DEF CopyPage, Harmed, If, Clean
<1>2. /\ page \in Onward /\ at \in Nat \ {0} /\ at' = at + 1 /\ db'.file = db.file
      /\ at <= eof => at \in 1 .. Len(db.file)
      /\ \/ copy' = copy
         \/ /\ buf' \in Onward /\ buf'.rows = page.rows
            /\ copy' = Append(copy, buf')
  BY CopyPageDone
<1>3. pg = NoPage /\ copy \in Seq(Onward)
  BY <1>1 DEF Shapes, ProgramShape, ClosingShape
<1>4. db.file \in Seq(Onward) /\ eof \in Nat /\ Len(db.file) \in Nat
  BY ShapesUsable
<1> HIDE DEF page
<1> SUFFICES ASSUME Clean(harm'), NEW v \in Values
             PROVE  Total(copy', v) + Cardinality(Places(db'.file, at' .. Len(db'.file), v))
                      <= given[v]
  <2>1. Clean(harm') => Within(db'.file, given')
    BY <1>1, <1>2 DEF RowInv
  <2> QED
    BY <1>1, <1>3, <2>1 DEF RowInv, InMemory, ToCopy
<1>5. at <= eof /\ Clean(harm)
  BY <1>1, <1>2, <1>4
<1>6. at \in 1 .. Len(db.file) /\ page = db.file[at]
  BY <1>2, <1>5 DEF page
<1> DEFINE S == at + 1 .. Len(db.file)
<1>7. S \subseteq 1 .. Len(db.file) /\ at \notin S /\ S \cup {at} = at .. Len(db.file)
  BY <1>2, <1>4, <1>6
<1>8. Cardinality(Places(db'.file, at' .. Len(db'.file), v)) = Cardinality(Places(db.file, S, v))
  BY <1>2
<1> HIDE DEF S
<1>9. /\ IsFiniteSet(Places(db.file, S, v)) /\ Cardinality(Places(db.file, S, v)) \in Nat
  BY <1>4, <1>7, PlacesFinite
<1>10. ToCopy(v) = Cardinality(Places(db.file, S, v)) + Count(page.rows, v)
  BY <1>4, <1>6, <1>7, <1>9, PlacesAdded DEF ToCopy
<1>11. Total(copy', v) = Total(copy, v) \/ Total(copy', v) = Total(copy, v) + Count(page.rows, v)
  BY <1>2, <1>3, TotalAppended
<1>12. Total(copy, v) + ToCopy(v) <= given[v]
  BY <1>1, <1>5 DEF RowInv
<1>13. PICK x \in Nat, y \in Nat, z \in Nat, u \in Nat :
         /\ x = Total(copy, v) /\ y = Cardinality(Places(db.file, S, v))
         /\ z = Count(page.rows, v) /\ u = given[v]
  <2>1. Total(copy, v) \in Nat /\ given[v] \in Nat
    BY <1>3, TotalNat, GivenNat
  <2>2. Count(page.rows, v) \in Nat
    BY <1>2, CountNat, OnwardFields
  <2> QED
    BY <1>9, <2>1, <2>2
<1>14. x + (y + z) <= u
  BY <1>10, <1>12, <1>13
<1>15. x + y <= u /\ (x + z) + y <= u
  BY <1>13, <1>14
<1> QED
  BY <1>8, <1>11, <1>13, <1>15

(* The new file, when it is complete, has no row more often than it was    *)
(* given.                                                                  *)
LEMMA SaveRows ==
    ASSUME Shapes, RowInv, SaveDatabase PROVE RowInv'
<1>1. /\ pc = "copying" /\ pc' = "copied" /\ harm' = harm /\ copy' = copy
      /\ pg' = pg /\ given' = given /\ db' = db
  BY DEF SaveDatabase, file, closing, history
<1>2. pg = NoPage /\ copy \in Seq(Onward)
  BY <1>1 DEF Shapes, ProgramShape, ClosingShape
<1> SUFFICES ASSUME Clean(harm), NEW v \in Values PROVE Total(copy, v) <= given[v]
  BY <1>1, <1>2 DEF RowInv, InMemory, Within
<1>3. Total(copy, v) + ToCopy(v) <= given[v]
  BY <1>1 DEF RowInv
<1>4. Total(copy, v) \in Nat /\ given[v] \in Nat
  BY <1>2, TotalNat, GivenNat
<1>5. ToCopy(v) \in Nat
  <2>1. at \in Nat /\ at # 0 /\ db.file \in Seq(Onward) /\ Len(db.file) \in Nat
    BY <1>1, ShapesUsable DEF Shapes, ClosingShape
  <2>2. at .. Len(db.file) \subseteq 1 .. Len(db.file)
    BY <2>1
  <2> QED
    BY <2>1, <2>2, PlacesFinite DEF ToCopy
<1> QED
  BY <1>3, <1>4, <1>5

(* A server empties the file: what the program has in memory is all that   *)
(* can come back.                                                          *)
LEMMA SecondRows ==
    ASSUME Shapes, RowInv, SecondServer PROVE RowInv'
<1>1. /\ Clean(harm') => Clean(harm)
      /\ UNCHANGED <<pc, pg, copy, at, given>>
      /\ db' = [db EXCEPT !.file = [n \in DOMAIN db.file |-> ZeroPage]]
  BY DEF SecondServer, closing, Harmed, Clean
<1>2. db.file \in Seq(Onward) /\ DOMAIN db.file = 1 .. Len(db.file) /\ Len(db.file) \in Nat
  BY ShapesUsable
<1>3. db'.file = [n \in 1 .. Len(db.file) |-> ZeroPage]
  BY <1>1, <1>2, ShapesUsable DEF Database
<1>4. db'.file \in Seq(Onward)
  BY SecondServerShapes DEF Shapes, FileShape
<1>5. Len(db'.file) = Len(db.file) /\ \A n \in 1 .. Len(db.file) : db'.file[n] = ZeroPage
  <2>1. DOMAIN db'.file = 1 .. Len(db'.file) /\ Len(db'.file) \in Nat
    BY <1>4, LenProperties
  <2>2. DOMAIN db'.file = 1 .. Len(db.file)
    BY <1>3
  <2> QED
    BY <1>2, <1>3, <2>1, <2>2
<1> SUFFICES ASSUME Clean(harm), Clean(harm')
             PROVE  /\ Within(db'.file, given) /\ InMemory'
                    /\ pc = "copying" =>
                         \A v \in Values :
                           Total(copy, v) + Cardinality(Places(db'.file, at .. Len(db'.file), v))
                             <= given[v]
                    /\ pc \in {"copied", "removed"} => Within(copy, given)
  BY <1>1 DEF RowInv, ToCopy
<1>6. Within(db.file, given) /\ InMemory
  BY DEF RowInv
<1>7. Within(db'.file, given)
  <2>1. \A n \in 1 .. Len(db'.file) : db'.file[n].rows = <<>>
    BY <1>5, ZeroPageOnward
  <2> QED
    BY <1>2, <1>4, <1>6, <2>1, FewerWithin
<1>8. InMemory'
  <2> SUFFICES ASSUME pg # NoPage
               PROVE  /\ \A v \in Values : Count(pg.rows, v) <= given[v]
                      /\ Within(Put(db'.file, pg.page_number, pg), given)
    BY <1>1 DEF InMemory
  <2>1. pg \in Onward /\ pg.rows \in Seq(Values)
    BY OnwardFields DEF Shapes, ProgramShape
  <2>2. \A v \in Values : Count(pg.rows, v) <= given[v]
    BY <1>6 DEF InMemory
  <2> DEFINE k == pg.page_number
             g == Put(db'.file, k, pg)
             f == <<>>
  <2>3. /\ g \in Seq(Onward) /\ Len(g) = Len(db'.file)
        /\ \A n \in 1 .. Len(db'.file) : g[n] = IF n = k THEN pg ELSE db'.file[n]
    BY <1>4, <2>1, PutSeq
  <2>4. f \in Seq(Onward) /\ 1 .. Len(f) = {}
    OBVIOUS
  <2>5. \A v : Total(f, v) = 0
    BY TotalNone
  <2> HIDE DEF g, k, f
  <2>6. ASSUME NEW v \in Values PROVE Total(g, v) <= given[v]
    <3>1. Steps(f, g, k)
      BY <1>5, <2>3, ZeroPageOnward DEF Steps
    <3>2. Count(pg.rows, v) \in Nat /\ 0 \in Nat
      BY <2>1, CountNat
    <3>3. CountAt(f, k, v) = 0
      BY <2>4 DEF CountAt
    <3>4. CountAt(g, k, v) = 0 \/ CountAt(g, k, v) = Count(pg.rows, v)
      BY <2>3 DEF CountAt
    <3>5. CountAt(g, k, v) + 0 <= CountAt(f, k, v) + Count(pg.rows, v)
      BY <3>2, <3>3, <3>4
    <3>6. Total(g, v) + 0 <= Total(f, v) + Count(pg.rows, v)
      BY <2>3, <2>4, <3>1, <3>2, <3>5, TotalShifts
    <3>7. Total(g, v) \in Nat /\ given[v] \in Nat
      BY <2>3, TotalNat, GivenNat
    <3> QED
      BY <2>2, <2>5, <3>2, <3>6, <3>7
  <2> QED
    BY <2>2, <2>6 DEF Within, g, k
<1>9. ASSUME pc = "copying", NEW v \in Values
      PROVE  Total(copy, v) + Cardinality(Places(db'.file, at .. Len(db'.file), v)) <= given[v]
  <2>1. at \in Nat /\ at # 0 /\ copy \in Seq(Onward)
    BY <1>9 DEF Shapes, ClosingShape
  <2> DEFINE S == at .. Len(db.file)
  <2>2. S \subseteq 1 .. Len(db.file) /\ at .. Len(db'.file) = S
    BY <1>2, <1>5, <2>1
  <2>3. ToCopy(v) = Cardinality(Places(db.file, S, v))
    BY DEF ToCopy
  <2> HIDE DEF S
  <2>4. \A n \in S : db'.file[n].rows = <<>>
    BY <1>5, <2>2, ZeroPageOnward
  <2>5. /\ Cardinality(Places(db'.file, S, v)) <= ToCopy(v)
        /\ Cardinality(Places(db'.file, S, v)) \in Nat /\ ToCopy(v) \in Nat
    BY <1>2, <1>4, <1>5, <2>2, <2>3, <2>4, PlacesWithin, ZenonT(30)
  <2>6. Total(copy, v) + ToCopy(v) <= given[v]
    BY <1>9 DEF RowInv
  <2>7. Total(copy, v) \in Nat /\ given[v] \in Nat
    BY <2>1, TotalNat, GivenNat
  <2> QED
    BY <2>2, <2>5, <2>6, <2>7
<1>10. pc \in {"copied", "removed"} => Within(copy, given)
  BY DEF RowInv
<1> QED
  BY <1>7, <1>8, <1>9, <1>10

(* The steps that touch no rows keep RowInv.                               *)
LEMMA OtherRows ==
    ASSUME Shapes, RowInv,
           \/ CreateDatabase \/ FindTable \/ InsertNull \/ DeleteNull \/ Killed
           \/ RemoveOld \/ RenameNew \/ UNCHANGED vars
    PROVE  RowInv'
<1>1. CASE CreateDatabase
  <2>1. /\ pc = "off" /\ pc' = "open" /\ pg' = pg
        /\ db'.file = <<>> /\ given' = NoRows
    BY <1>1 DEF CreateDatabase, createDatabase
  <2>2. pg = NoPage
    BY <2>1 DEF Shapes, ProgramShape
  <2>3. ASSUME NEW v \in Values PROVE Total(db'.file, v) <= given'[v]
    <3>1. given'[v] = 0
      BY <2>1 DEF NoRows
    <3>2. Total(db'.file, v) = 0
      BY <2>1, TotalNone
    <3> QED
      BY <3>1, <3>2
  <2> QED
    BY <2>1, <2>2, <2>3 DEF RowInv, InMemory, Within
<1>2. CASE FindTable \/ InsertNull \/ DeleteNull \/ Killed
  <2>1. /\ db' = db /\ given' = given /\ pc' \in {"open", "off"}
        /\ (pg' = pg \/ pg' = NoPage) /\ (Clean(harm') => Clean(harm))
    BY <1>2 DEF FindTable, InsertNull, DeleteNull, Killed, file, history, Gone, Harmed, Clean
  <2> QED
    BY <2>1 DEF RowInv, InMemory
<1>3. CASE RemoveOld
  <2>1. /\ pc = "copied" /\ pc' = "removed"
        /\ UNCHANGED <<db, pg, copy, given, harm>>
    BY <1>3 DEF RemoveOld, closing, history
  <2> QED
    BY <2>1 DEF RowInv, InMemory
<1>4. CASE RenameNew
  <2>1. /\ pc = "removed" /\ pc' = "off" /\ pg' = NoPage /\ db'.file = copy
        /\ given' = given /\ harm' = harm
    BY <1>4 DEF RenameNew, Gone, history, createDatabase
  <2> QED
    BY <2>1 DEF RowInv, InMemory
<1>5. CASE UNCHANGED vars
  <2>1. UNCHANGED <<pc, db, pg, copy, at, given, harm>>
    BY <1>5 DEF vars, file, closing, history
  <2> QED
    BY <2>1 DEF RowInv, InMemory, ToCopy
<1> QED
  BY <1>1, <1>2, <1>3, <1>4, <1>5

(* Every step keeps RowInv.                                                *)
LEMMA NextRows ==
    ASSUME Shapes, RowInv, [Next]_vars PROVE RowInv'
BY InsertRows, DeleteRows, MoveRows, UpdateRows, CreateTableRows, OpenRows, ReadRows,
   CloseRows, CopyRows, SaveRows, SecondRows, OtherRows DEF Next

(* RowInv holds before the first file is created.                          *)
LEMMA InitRows == Init => RowInv
<1> SUFFICES ASSUME Init PROVE RowInv
  OBVIOUS
<1>1. db.file = <<>> /\ given = NoRows /\ pc = "off" /\ pg = NoPage
  BY DEF Init, createDatabase
<1>2. ASSUME NEW v \in Values PROVE Total(db.file, v) <= given[v]
  <2>1. given[v] = 0
    BY <1>1 DEF NoRows
  <2>2. Total(db.file, v) = 0
    BY <1>1, TotalNone
  <2> QED
    BY <2>1, <2>2
<1> QED
  BY <1>1, <1>2 DEF RowInv, InMemory, Within

(* A row list holds no row more often than all pages do.                   *)
LEMMA ListWithin ==
    ASSUME NEW f \in Seq(Onward), NEW e \in 0 .. Len(f), NEW h, NEW v \in Values
    PROVE  RowsIn(h, f, e)[v] <= Total(f, v) /\ RowsIn(h, f, e)[v] \in Nat
<1> DEFINE list == TableList(h, f, e)
<1>1. list \subseteq 1 .. e
  BY DEF TableList, ListFrom
<1>2. list \subseteq 1 .. Len(f)
  <2>1. Len(f) \in Nat
    BY LenProperties
  <2>2. 1 .. e \subseteq 1 .. Len(f)
    BY <2>1
  <2> QED
    BY <1>1, <2>2
<1>3. RowsIn(h, f, e)[v] = Cardinality(Places(f, list, v))
  BY DEF RowsIn, RowsOf
<1> HIDE DEF list
<1> QED
  BY <1>2, <1>3, PlacesFinite

(* Over every step of the program, every kill, every close, with garbage   *)
(* or without, and every server started on the file, the table holds no    *)
(* row more often than it was given.                                       *)
THEOREM StoreNoRowMadeUp == Spec => []NoRowMadeUp
<1>1. Shapes /\ RowInv => NoRowMadeUp
  <2> SUFFICES ASSUME Shapes, RowInv, Clean(harm), NEW v \in Values
               PROVE  Stored[v] <= given[v]
    BY DEF NoRowMadeUp, Clean
  <2>1. db.file \in Seq(Onward) /\ eof \in 0 .. Len(db.file)
    BY ShapesUsable
  <2>2. Total(db.file, v) <= given[v] /\ given[v] \in Nat /\ Total(db.file, v) \in Nat
    BY <2>1, TotalNat, GivenNat DEF RowInv, Within
  <2>3. \A h : RowsIn(h, db.file, eof)[v] <= given[v]
    <3> SUFFICES ASSUME NEW h PROVE RowsIn(h, db.file, eof)[v] <= given[v]
      OBVIOUS
    <3>1. /\ RowsIn(h, db.file, eof)[v] <= Total(db.file, v)
          /\ RowsIn(h, db.file, eof)[v] \in Nat
      BY <2>1, ListWithin
    <3> QED
      BY <2>2, <3>1
  <2>4. NoRows[v] <= given[v]
    BY <2>2 DEF NoRows
  <2>5. Stored \in {RowsIn(db, db.file, eof), RowsIn(saved, db.file, eof), NoRows}
    BY DEF Stored
  <2> QED
    BY <2>3, <2>4, <2>5
<1>2. Init => Shapes /\ RowInv
  BY InitShapes, InitRows
<1>3. Shapes /\ RowInv /\ [Next]_vars => Shapes' /\ RowInv'
  BY NextShapes, NextRows
<1> QED
  BY <1>1, <1>2, <1>3, PTL DEF Spec
----------------------------------------------------------------------------
(***************************************************************************)
(* What RowsKept needs: until something goes wrong the file is page 1, the *)
(* table, and behind it the pages of its row list, each of which links to  *)
(* the page before it.                                                     *)
(***************************************************************************)
Top(n) == IF n < 2 THEN 0 ELSE n

(* A list in which every page links to the page before it, down to page    *)
(* low, has all of those pages.                                            *)
LEMMA ListedDown ==
    ASSUME NEW f \in Seq(Onward), NEW low \in Nat, low # 0, NEW n \in Nat,
           low <= n, n <= Len(f), f[low].next = 0,
           \A m \in low + 1 .. n : f[m].next = m - 1
    PROVE  ListFrom(f, Len(f), n) = low .. n
<1> DEFINE N == Len(f)
           W(k) == IF k <= n - low THEN n - k ELSE 0
           Step(m) == IF m \in 1 .. N THEN f[m].next ELSE 0
           Follows(g) == g = [k \in 0 .. N |-> IF k = 0 THEN n
                                ELSE LET m == g[k - 1]
                                     IN  IF m \in 1 .. N THEN f[m].next ELSE 0]
           w == [k \in 0 .. N |-> W(k)]
           visited == CHOOSE g : Follows(g)
<1>1. N \in Nat
  BY LenProperties
<1>2. \A k \in 1 .. N : W(k) = Step(W(k - 1))
  <2> SUFFICES ASSUME NEW k \in 1 .. N PROVE W(k) = Step(W(k - 1))
    OBVIOUS
  <2>1. CASE k <= n - low
    <3>1. W(k - 1) = n - (k - 1) /\ n - (k - 1) \in low + 1 .. n /\ n - (k - 1) \in 1 .. N
      BY <1>1, <2>1
    <3>2. f[n - (k - 1)].next = n - (k - 1) - 1
      BY <3>1
    <3> QED
      BY <1>1, <2>1, <3>1, <3>2
  <2>2. CASE k = n - low + 1
    <3>1. W(k - 1) = low /\ low \in 1 .. N /\ W(k) = 0
      BY <1>1, <2>2
    <3> QED
      BY <3>1
  <2>3. CASE k > n - low + 1
    <3>1. W(k - 1) = 0 /\ W(k) = 0
      BY <1>1, <2>3
    <3> QED
      BY <1>1, <3>1
  <2> QED
    BY <1>1, <2>1, <2>2, <2>3
<1>3. W(0) = n
  BY <1>1
<1>4. Follows(w)
  <2> HIDE DEF W, N
  <2>1. \A k \in 1 .. N : w[k] = Step(w[k - 1])
    BY <1>1, <1>2
  <2>2. 0 \in 0 .. N /\ w[0] = n
    BY <1>1, <1>3
  <2>3. w = [k \in 0 .. N |-> w[k]]
    OBVIOUS
  <2>4. \A k \in 0 .. N : w[k] = IF k = 0 THEN n
                                 ELSE LET m == w[k - 1]
                                      IN  IF m \in 1 .. N THEN f[m].next ELSE 0
    <3> SUFFICES ASSUME NEW k \in 0 .. N
                 PROVE  w[k] = IF k = 0 THEN n ELSE Step(w[k - 1])
      OBVIOUS
    <3>1. k # 0 => k \in 1 .. N
      BY <1>1
    <3> QED
      BY <2>1, <2>2, <3>1
  <2> HIDE DEF w
  <2> QED
    BY <2>3, <2>4
<1>5. Follows(visited)
  <2> HIDE DEF Follows, w
  <2> QED
    BY <1>4
<1>6. ListFrom(f, N, n) = {visited[k] : k \in 0 .. N} \cap 1 .. N
  BY DEF ListFrom
<1> HIDE DEF visited
<1>7. visited[0] = n /\ \A k \in 1 .. N : visited[k] = Step(visited[k - 1])
  <2> HIDE DEF N
  <2> QED
    BY <1>1, <1>5
<1>8. \A k \in 0 .. N : visited[k] = W(k)
  <2> DEFINE S == {k \in Nat : k <= N => visited[k] = W(k)}
  <2> HIDE DEF W, Step
  <2>1. 0 \in S
    BY <1>3, <1>7
  <2>2. ASSUME NEW k \in Nat, k \in S PROVE k + 1 \in S
    <3> SUFFICES ASSUME k + 1 <= N PROVE visited[k + 1] = W(k + 1)
      OBVIOUS
    <3>1. k + 1 \in 1 .. N /\ k + 1 - 1 = k /\ visited[k] = W(k)
      BY <1>1, <2>2
    <3>2. visited[k + 1] = Step(visited[k]) /\ W(k + 1) = Step(W(k))
      BY <1>2, <1>7, <3>1
    <3> QED
      BY <3>1, <3>2
  <2>3. Nat \subseteq S
    <3> HIDE DEF S
    <3> QED
      BY <2>1, <2>2, NatSetInduction
  <2> QED
    BY <2>3
<1>9. {W(k) : k \in 0 .. N} \cap 1 .. N = low .. n
  <2>1. ASSUME NEW m \in low .. n PROVE m \in {W(k) : k \in 0 .. N} /\ m \in 1 .. N
    <3>1. n - m \in 0 .. N /\ n - m <= n - low /\ n - (n - m) = m
      BY <1>1, <2>1
    <3>2. W(n - m) = m /\ m \in 1 .. N
      BY <1>1, <2>1, <3>1
    <3> HIDE DEF W
    <3> QED
      BY <3>1, <3>2
  <2>2. ASSUME NEW k \in 0 .. N, W(k) \in 1 .. N PROVE W(k) \in low .. n
    BY <1>1, <2>2
  <2> QED
    BY <2>1, <2>2
<1> QED
  BY <1>6, <1>8, <1>9

(* There is no page in a list that begins at page 0.                       *)
LEMMA ListedNone ==
    ASSUME NEW f \in Seq(Onward) PROVE ListFrom(f, Len(f), 0) = {}
<1> DEFINE N == Len(f)
           Follows(g) == g = [k \in 0 .. N |-> IF k = 0 THEN 0
                                ELSE LET m == g[k - 1]
                                     IN  IF m \in 1 .. N THEN f[m].next ELSE 0]
           w == [k \in 0 .. N |-> 0]
           visited == CHOOSE g : Follows(g)
<1>1. N \in Nat
  BY LenProperties
<1>2. Follows(w)
  <2> HIDE DEF N
  <2>1. \A k \in 1 .. N : w[k - 1] = 0
    BY <1>1
  <2>2. 0 \notin 1 .. N
    BY <1>1
  <2> QED
    BY <1>1, <2>1, <2>2
<1>3. Follows(visited)
  <2> HIDE DEF Follows, w
  <2> QED
    BY <1>2
<1>4. ListFrom(f, N, 0) = {visited[k] : k \in 0 .. N} \cap 1 .. N
  BY DEF ListFrom
<1> HIDE DEF visited
<1>5. \A k \in 0 .. N : visited[k] = IF k # 0 /\ visited[k - 1] \in 1 .. N
                                      THEN f[visited[k - 1]].next ELSE 0
  <2> HIDE DEF N
  <2> QED
    BY <1>3
<1>6. \A k \in 0 .. N : visited[k] = 0
  <2> DEFINE S == {k \in Nat : k <= N => visited[k] = 0}
  <2> HIDE DEF N
  <2>1. 0 \in S
    <3>1. 0 \in 0 .. N
      BY <1>1
    <3>2. visited[0] = 0
      BY <1>5, <3>1
    <3> QED
      BY <3>2
  <2>2. ASSUME NEW k \in Nat, k \in S PROVE k + 1 \in S
    <3> SUFFICES ASSUME k + 1 <= N PROVE visited[k + 1] = 0
      OBVIOUS
    <3>1. k + 1 \in 0 .. N /\ k + 1 # 0 /\ k + 1 - 1 = k /\ visited[k] = 0
      BY <1>1, <2>2
    <3>2. 0 \notin 1 .. N
      BY <1>1
    <3> QED
      BY <1>5, <3>1, <3>2
  <2>3. Nat \subseteq S
    <3> HIDE DEF S
    <3> QED
      BY <2>1, <2>2, NatSetInduction
  <2> QED
    BY <2>3
<1>7. 0 \notin 1 .. N
  BY <1>1
<1> QED
  BY <1>4, <1>6, <1>7

\* Where insertData can find room, in a file of n pages.
RowPlaces(n) == {0} \cup 2 .. n

\* Page 1 of a file of n pages, and a page m behind it.
Heading(p, n) ==
    /\ p.page_type = "TABLE_PAGE" /\ p.name # NoName /\ p.next = 0
    /\ p.rows = <<>> /\ p.free_space = 0
    /\ p.next_free = Top(n) /\ p.free_place \in RowPlaces(n)

Link(p, m, n) ==
    /\ p.page_type = "ROW_PAGE" /\ p.name = NoName /\ p.free_place = 0
    /\ p.next = Top(m - 1) /\ p.next_free \in RowPlaces(n)

Chain(f) ==
    /\ Len(f) # 0 => Heading(f[1], Len(f))
    /\ \A m \in 2 .. Len(f) : Link(f[m], m, Len(f))

\* The header of such a file, in memory or saved.
Heads(h, f) ==
    /\ h.number_of_pages = Len(f) /\ h.first_free_page = 0
    /\ h.first_table_page = IF Len(f) = 0 THEN 0 ELSE 1

(* The rows of such a file are the rows of its table.                      *)
LEMMA ChainStored ==
    ASSUME NEW f \in Seq(Onward), Chain(f), NEW h, Heads(h, f)
    PROVE  RowsIn(h, f, Len(f)) = [v \in Values |-> Total(f, v)]
<1> DEFINE N == Len(f)
           list == TableList(h, f, N)
<1>1. N \in Nat
  BY LenProperties
<1>2. CASE N = 0
  <2>1. h.first_table_page = 0 /\ 0 \notin 1 .. N
    BY <1>1, <1>2 DEF Heads
  <2>2. list = {}
    BY <2>1 DEF TableList
  <2>3. 1 .. N = {}
    BY <1>2
  <2> HIDE DEF list, N
  <2> QED
    BY <2>2, <2>3 DEF RowsIn, RowsOf, Total, list, N
<1>3. CASE N # 0
  <2>1. h.first_table_page = 1 /\ 1 \in 1 .. N /\ f[1].next_free = Top(N)
    BY <1>1, <1>3 DEF Heads, Chain, Heading
  <2>2. list = ListFrom(f, N, Top(N))
    BY <2>1 DEF TableList
  <2>3. list = 2 .. N
    <3>1. CASE N < 2
      <4>1. Top(N) = 0 /\ 2 .. N = {}
        BY <1>1, <3>1 DEF Top
      <4> QED
        BY <2>2, <4>1, ListedNone
    <3>2. CASE N >= 2
      <4>1. \A m \in 2 .. N : f[m].next = Top(m - 1)
        BY DEF Chain, Link
      <4>2. Top(N) = N /\ Top(2 - 1) = 0 /\ \A m \in 3 .. N : Top(m - 1) = m - 1
        BY <1>1, <3>2 DEF Top
      <4>3. 2 \in 2 .. N /\ \A m \in 2 + 1 .. N : m \in 2 .. N /\ m \in 3 .. N
        BY <1>1, <3>2
      <4>4. f[2].next = 0 /\ \A m \in 2 + 1 .. N : f[m].next = m - 1
        BY <4>1, <4>2, <4>3
      <4>5. ListFrom(f, N, N) = 2 .. N
        <5>1. 2 \in Nat /\ 2 # 0 /\ N <= N
          BY <1>1
        <5> QED
          BY <1>1, <3>2, <4>4, <5>1, ListedDown
      <4> QED
        BY <2>2, <4>2, <4>5
    <3> QED
      BY <1>1, <3>1, <3>2
  <2>4. f[1].rows = <<>>
    BY <1>3 DEF Chain, Heading
  <2> HIDE DEF list
  <2>5. ASSUME NEW v PROVE Places(f, list, v) = Places(f, 1 .. N, v)
    <3>1. Places(f, {1}, v) = {}
      BY <2>4 DEF Places
    <3>2. 1 .. N = {1} \cup list
      BY <1>1, <1>3, <2>3
    <3>3. Places(f, {1} \cup list, v) = Places(f, {1}, v) \cup Places(f, list, v)
      BY DEF Places
    <3> QED
      BY <3>1, <3>2, <3>3
  <2> QED
    BY <2>5 DEF RowsIn, RowsOf, Total, list
<1> QED
  BY <1>2, <1>3

(* Without its row i a page has every other row it had.                    *)
LEMMA CountKept ==
    ASSUME NEW rows \in Seq(Values), NEW i \in DOMAIN rows, NEW w
    PROVE  Count(rows, w) <= Count(RemoveAt(rows, i), w) + One(w, rows[i])
<1> DEFINE t == RemoveAt(rows, i)
           n == Len(rows)
<1>1. n \in Nat /\ DOMAIN rows = 1 .. n
  BY LenProperties
<1>2. /\ t \in Seq(Values) /\ Len(t) = n - 1
      /\ \A k \in 1 .. n - 1 : t[k] = IF k < i THEN rows[k] ELSE rows[k + 1]
  BY <1>1, RemoveAtEffect
<1> HIDE DEF t, n
<1>3. Hits(rows, w) = {k \in 1 .. n : rows[k] = w} /\ Hits(t, w) = {k \in 1 .. n - 1 : t[k] = w}
  BY <1>2, CountNat DEF n
<1>4. /\ IsFiniteSet(Hits(rows, w)) /\ IsFiniteSet(Hits(t, w))
      /\ Count(rows, w) \in Nat /\ Count(t, w) \in Nat
  BY <1>2, CountNat
<1> DEFINE S == Hits(rows, w) \ {i}
           T == Hits(t, w)
           f == [k \in S |-> IF k < i THEN k ELSE k - 1]
<1>5. f \in Injection(S, T)
  <2>1. i \in 1 .. n
    BY <1>1
  <2>2. ASSUME NEW k \in S PROVE (IF k < i THEN k ELSE k - 1) \in T
    <3>1. k \in 1 .. n /\ rows[k] = w /\ k # i
      BY <1>3
    <3>2. CASE k < i
      <4>1. k \in 1 .. n - 1 /\ t[k] = rows[k]
        BY <1>1, <1>2, <2>1, <3>1, <3>2
      <4> QED
        BY <1>3, <3>1, <3>2, <4>1
    <3>3. CASE k > i
      <4>1. k - 1 \in 1 .. n - 1 /\ ~(k - 1 < i) /\ k - 1 + 1 = k
        BY <1>1, <2>1, <3>1, <3>3
      <4>2. t[k - 1] = rows[k]
        BY <1>2, <4>1
      <4>3. ~(k < i)
        BY <2>1, <3>1, <3>3
      <4> QED
        BY <1>3, <3>1, <4>1, <4>2, <4>3
    <3> QED
      BY <1>1, <2>1, <3>1, <3>2, <3>3
  <2>3. f \in [S -> T]
    BY <2>2
  <2>4. \A j, k \in S : (IF j < i THEN j ELSE j - 1) = (IF k < i THEN k ELSE k - 1) => j = k
    BY <1>1, <1>3, <2>1
  <2>5. \A j, k \in S : f[j] = f[k] => j = k
    BY <2>4
  <2> QED
    BY <2>3, <2>5 DEF Injection, IsInjective
<1>6. /\ IsFiniteSet(S)
      /\ Cardinality(S) = IF i \in Hits(rows, w) THEN Count(rows, w) - 1 ELSE Count(rows, w)
  BY <1>4, FS_RemoveElement DEF Count
<1> HIDE DEF f, S
<1>7. Cardinality(S) <= Count(t, w)
  BY <1>4, <1>5, <1>6, FS_Injection DEF Count
<1>8. i \in Hits(rows, w) <=> w = rows[i]
  BY <1>1, <1>3
<1> QED
  BY <1>4, <1>6, <1>7, <1>8 DEF One, t


\* A database and a table as KeptInv has them.
Tidy(d, t) ==
    /\ d \in Database /\ d.file \in Seq(Onward) /\ Len(d.file) # 0
    /\ Chain(d.file) /\ Heads(d, d.file) /\ FileHome(d.file)
    /\ t \in Handle /\ t.prev_table = 0 /\ TablePage(t) = d.file[1]

\* Page k of its row list, in a file of n pages.
Listed(p, k, n) == p \in Onward /\ Link(p, k, n) /\ p.page_number = k

(* What the struct of the table and the pages of the file have in common.  *)
LEMMA TidyFields ==
    ASSUME NEW d, NEW t, Tidy(d, t)
    PROVE  LET n == Len(d.file)
           IN  /\ n \in Nat /\ n # 0 /\ DOMAIN d.file = 1 .. n
               /\ d.number_of_pages = n /\ d.first_free_page = 0 /\ d.first_table_page = 1
               /\ t.page_number = 1 /\ t.next_table = 0 /\ t.name # NoName
               /\ t.first_row_page = Top(n) /\ t.free_place \in RowPlaces(n)
               /\ t.free_place \in Nat
               /\ \A m \in 2 .. n : Listed(d.file[m], m, n)
<1> DEFINE n == Len(d.file)
<1>1. n \in Nat /\ n # 0 /\ DOMAIN d.file = 1 .. n
  BY LenProperties DEF Tidy
<1>2. d.number_of_pages = n /\ d.first_free_page = 0 /\ d.first_table_page = 1
  BY <1>1 DEF Tidy, Heads
<1>3. /\ Heading(d.file[1], n) /\ \A m \in 2 .. n : Link(d.file[m], m, n)
      /\ \A m \in 1 .. n : d.file[m] = ZeroPage \/ d.file[m].page_number = m
      /\ \A m \in 1 .. n : d.file[m] \in Onward
  BY <1>1, ElementOfSeq DEF Tidy, Chain, FileHome
<1>4. TablePage(t) = d.file[1]
  BY DEF Tidy
<1> HIDE DEF n
<1>5. /\ t.next_table = 0 /\ t.name # NoName /\ t.first_row_page = Top(n)
      /\ t.free_place \in RowPlaces(n)
  BY <1>3, <1>4 DEF Heading, TablePage
<1>6. t.page_number = 1
  <2>1. 1 \in 1 .. n
    BY <1>1
  <2>2. d.file[1].page_type = "TABLE_PAGE"
    BY <1>3 DEF Heading
  <2>3. d.file[1] # ZeroPage
    BY <2>2 DEF ZeroPage
  <2>4. d.file[1].page_number = 1
    BY <1>3, <2>1, <2>3
  <2> QED
    BY <1>4, <2>4 DEF TablePage
<1>7. ASSUME NEW m \in 2 .. n PROVE Listed(d.file[m], m, n)
  <2>1. m \in 1 .. n /\ Link(d.file[m], m, n)
    BY <1>1, <1>3
  <2>2. d.file[m].page_type = "ROW_PAGE"
    BY <2>1 DEF Link
  <2>3. d.file[m] # ZeroPage
    BY <2>2 DEF ZeroPage
  <2> QED
    BY <1>3, <2>1, <2>3 DEF Listed
<1>8. t.free_place \in Nat
  BY <1>1, <1>5 DEF RowPlaces
<1> QED
  BY <1>1, <1>2, <1>5, <1>6, <1>7, <1>8 DEF n

\* What getTableFreePage has found for insertData.
Place(d, t, got) ==
    LET n == Len(got.db.file)
        k == got.pg.page_number
    IN  /\ got.db \in Database /\ got.db.file \in Seq(Onward)
        /\ Len(d.file) <= n
        /\ got.db.number_of_pages = n /\ SameLists(d, got.db)
        /\ k \in 2 .. n /\ Listed(got.pg, k, n)
        /\ \A m \in 1 .. n : m # k => m \in 1 .. Len(d.file) /\ got.db.file[m] = d.file[m]
        /\ got.tbl \in Handle /\ SameTable(t, got.tbl)
        /\ got.tbl.first_row_page = Top(n) /\ got.tbl.free_place \in RowPlaces(n)
        /\ \A w : CountAt(d.file, k, w) = Count(got.pg.rows, w)

(* A table without a free page gets a new one, at the head of its row      *)
(* list.                                                                   *)
LEMMA NewPlace ==
    ASSUME NEW d, NEW t, Tidy(d, t), t.free_place = 0
    PROVE  Place(d, t, getTableFreePage(d, t))
<1> DEFINE n   == Len(d.file)
           k   == n + 1
           c   == createPage(d)
           new == createRowPage(d)
           got == getTableFreePage(d, t)
           p   == RowPage(k)
<1>1. /\ n \in Nat /\ n # 0 /\ DOMAIN d.file = 1 .. n /\ d.number_of_pages = n
      /\ d.first_free_page = 0 /\ t.first_row_page = Top(n)
  BY TidyFields
<1>2. d \in Database /\ d.file \in Seq(Onward) /\ t \in Handle
  BY DEF Tidy
<1>3. /\ k \notin 1 .. n /\ k \in Nat /\ k \in 2 .. k /\ k \in 1 .. k
      /\ n <= k /\ k # 0 /\ k - 1 = n /\ k = n + 1 /\ Top(k) = k /\ k \in RowPlaces(k)
      /\ \A m \in 1 .. k : m # k => m \in 1 .. n
  BY <1>1 DEF Top, RowPlaces
<1> HIDE DEF k
<1>4. c = [d EXCEPT !.number_of_pages = k, !.file = Append(d.file, ZeroPage)]
  BY <1>1, <1>2, <1>3 DEF createPage, Database
<1>5. /\ c \in Database /\ c.number_of_pages = k /\ SameLists(d, c)
      /\ c.file \in Seq(Onward) /\ Len(c.file) = k
      /\ \A m \in 1 .. n : c.file[m] = d.file[m]
  <2>1. /\ Append(d.file, ZeroPage) \in Seq(Onward) /\ Append(d.file, ZeroPage) \in Seq(Page)
        /\ Len(Append(d.file, ZeroPage)) = k
        /\ \A m \in 1 .. n : Append(d.file, ZeroPage)[m] = d.file[m]
    <3>1. d.file \in Seq(Page) /\ ZeroPage \in Page
      BY <1>2, ZeroPageType DEF Database
    <3> QED
      BY <1>1, <1>2, <1>3, <3>1, ZeroPageOnward, AppendProperties
  <2> HIDE DEF n
  <2> QED
    BY <1>2, <1>3, <1>4, <2>1 DEF Database, SameLists
<1>6. new = [db |-> PutPage(c, k, p), pg |-> p]
  <2>1. getFreePage(d) = [db |-> c, page_number |-> k]
    BY <1>1, <1>5 DEF getFreePage
  <2>2. p.page_number = k
    BY DEF RowPage
  <2> HIDE DEF c, p, n
  <2> QED
    BY <2>1, <2>2 DEF createRowPage, p
<1>7. p \in Onward /\ p.page_number = k /\ p.rows = <<>>
  BY <1>3, RowPageOnward DEF RowPage, Blank
<1> DEFINE e == PutPage(c, k, p)
<1>8. /\ e \in Database /\ e.number_of_pages = k /\ SameLists(d, e)
      /\ e.file \in Seq(Onward) /\ Len(e.file) = k
      /\ \A m \in 1 .. k : m # k => m \in 1 .. n /\ e.file[m] = d.file[m]
  <2>1. p \in Page
    BY <1>7, OnwardFields
  <2> HIDE DEF c, p, n
  <2>2. /\ e \in Database /\ e.number_of_pages = k /\ SameLists(c, e)
        /\ Len(e.file) = k
        /\ \A m \in 1 .. k : e.file[m] = IF m = k THEN p ELSE c.file[m]
    <3>1. /\ e \in Database /\ e.number_of_pages = c.number_of_pages
          /\ e.first_free_page = c.first_free_page
          /\ e.first_table_page = c.first_table_page
          /\ Len(e.file) = Len(c.file)
          /\ \A m \in 1 .. Len(c.file) : e.file[m] = IF m = k THEN p ELSE c.file[m]
      <4>1. c \in Database /\ k \in Nat
        BY <1>3, <1>5
      <4> QED
        BY <2>1, <4>1, PutPageEffect, SMTT(30)
    <3> QED
      BY <1>5, <3>1 DEF SameLists
  <2> HIDE DEF e
  <2>3. e.file \in Seq(Onward)
    <3>1. e.file \in Seq(Page)
      BY <2>2 DEF Database
    <3>2. ASSUME NEW m \in 1 .. k PROVE e.file[m] \in Onward
      <4>1. c.file[m] \in Onward
        BY <1>5, ElementOfSeq
      <4> QED
        BY <1>7, <2>2, <4>1
    <3> QED
      BY <2>2, <3>1, <3>2, NarrowedSeq
  <2>4. \A m \in 1 .. k : m # k => m \in 1 .. n
    BY <1>3
  <2> QED
    BY <1>3, <1>5, <2>2, <2>3, <2>4 DEF SameLists
<1> DEFINE u == [t EXCEPT !.first_row_page = k, !.free_place = k, !.iterator = k]
           q == [p EXCEPT !.next = Top(n), !.next_free = 0]
<1>9. got = [db |-> e, tbl |-> u, pg |-> q]
  <2> HIDE DEF e, p, n, c
  <2> QED
    <3>1. new.db = e /\ new.pg = p
      BY <1>6 DEF e
    <3> HIDE DEF new, got, u, q
    <3>2. got = [db  |-> new.db,
                 tbl |-> [t EXCEPT !.first_row_page = new.pg.page_number,
                                   !.free_place = new.pg.page_number,
                                   !.iterator = new.pg.page_number],
                 pg  |-> [new.pg EXCEPT !.next = t.first_row_page,
                                        !.next_free = t.free_place]]
      BY DEF getTableFreePage, got, new
    <3> QED
      BY <1>1, <1>7, <3>1, <3>2 DEF u, q
<1>10. u \in Handle /\ SameTable(t, u) /\ u.first_row_page = k /\ u.free_place = k
  <2> HIDE DEF n
  <2> QED
    BY <1>2, <1>3 DEF Handle, SameTable
<1>11. q \in Onward /\ q.page_number = k /\ q.rows = <<>> /\ Link(q, k, k)
  <2>1. Top(n) \in Nat /\ Top(k - 1) = Top(n) /\ 0 \in RowPlaces(k)
    BY <1>1, <1>3 DEF Top, RowPlaces
  <2>2. /\ p.page_type = "ROW_PAGE" /\ p.name = NoName /\ p.free_place = 0
    BY DEF RowPage
  <2> HIDE DEF p, n
  <2>3. /\ q \in Onward /\ q.page_number = k /\ q.rows = <<>>
        /\ q.page_type = "ROW_PAGE" /\ q.name = NoName /\ q.free_place = 0
        /\ q.next = Top(n) /\ q.next_free = 0
    BY <1>7, <2>1, <2>2 DEF Onward, Page
  <2> HIDE DEF q
  <2> QED
    BY <2>1, <2>3 DEF Link
<1>12. \A w : CountAt(d.file, k, w) = Count(q.rows, w)
  <2>1. \A w : CountAt(d.file, k, w) = 0
    BY <1>3 DEF CountAt
  <2> QED
    BY <1>11, <2>1, CountNone
<1> HIDE DEF e, u, q, c, p, new
<1> QED
  BY <1>3, <1>8, <1>9, <1>10, <1>11, <1>12 DEF Place, Listed

(* A table with a free page gets that one, and its list stays.             *)
LEMMA OldPlace ==
    ASSUME NEW d, NEW t, Tidy(d, t), t.free_place # 0
    PROVE  Place(d, t, getTableFreePage(d, t))
<1> DEFINE n   == Len(d.file)
           k   == t.free_place
           p   == d.file[k]
           got == getTableFreePage(d, t)
<1>1. /\ n \in Nat /\ n # 0 /\ d.number_of_pages = n
      /\ t.first_row_page = Top(n) /\ k \in RowPlaces(n)
      /\ \A m \in 2 .. n : Listed(d.file[m], m, n)
  BY TidyFields
<1>2. d \in Database /\ d.file \in Seq(Onward) /\ t \in Handle
  BY DEF Tidy
<1>3. k \in 2 .. n /\ k \in 1 .. n
  BY <1>1 DEF RowPlaces
<1>4. Listed(p, k, n) /\ p \in Onward /\ p.name = NoName /\ p.free_place = 0 /\ p.page_number = k
  BY <1>1, <1>3 DEF Listed, Link
<1>5. readRowPage(d, k) = p
  <2> DEFINE q == [p EXCEPT !.name = NoName, !.free_place = 0]
  <2>1. q = p
    <3> HIDE DEF p
    <3> QED
      BY <1>4 DEF Onward, Page
  <2> QED
    BY <2>1 DEF readRowPage
<1>6. got = [db |-> d, tbl |-> t, pg |-> p]
  BY <1>5 DEF getTableFreePage
<1>7. \A w : CountAt(d.file, k, w) = Count(p.rows, w)
  BY <1>3 DEF CountAt
<1>8. SameTable(t, t) /\ SameLists(d, d) /\ n <= n
  BY <1>1 DEF SameTable, SameLists
<1> HIDE DEF p
<1> QED
  BY <1>1, <1>2, <1>3, <1>4, <1>6, <1>7, <1>8 DEF Place


\* e is d with page k written, which is p now.
Replaced(d, e, k, p) ==
    /\ e \in Database /\ e.file \in Seq(Onward)
    /\ e.number_of_pages = d.number_of_pages /\ SameLists(d, e)
    /\ Len(e.file) = Len(d.file)
    /\ \A m \in 1 .. Len(d.file) : e.file[m] = IF m = k THEN p ELSE d.file[m]

(* One page of the file is written.                                        *)
LEMMA PageWritten ==
    ASSUME NEW d \in Database, d.file \in Seq(Onward), NEW k \in Nat, NEW p \in Onward
    PROVE  Replaced(d, PutPage(d, k, p), k, p)
<1> DEFINE e == PutPage(d, k, p)
<1>1. p \in Page
  BY OnwardFields
<1>2. /\ e \in Database
      /\ e.number_of_pages = d.number_of_pages
      /\ e.first_free_page = d.first_free_page
      /\ e.first_table_page = d.first_table_page
      /\ Len(e.file) = Len(d.file)
      /\ \A m \in 1 .. Len(d.file) : e.file[m] = IF m = k THEN p ELSE d.file[m]
  BY <1>1, PutPageEffect, SMTT(30)
<1> HIDE DEF e
<1>3. e.file \in Seq(Onward)
  <2>1. e.file \in Seq(Page)
    BY <1>2 DEF Database
  <2>2. ASSUME NEW m \in 1 .. Len(d.file) PROVE e.file[m] \in Onward
    <3>1. d.file[m] \in Onward
      BY ElementOfSeq
    <3> QED
      BY <1>2, <3>1
  <2> QED
    BY <1>2, <2>1, <2>2, NarrowedSeq
<1>4. Replaced(d, e, k, p)
  BY <1>2, <1>3 DEF SameLists, Replaced
<1> QED
  BY <1>4 DEF e

(* saveTable writes the page of a table.                                   *)
LEMMA TableWritten ==
    ASSUME NEW d \in Database, d.file \in Seq(Onward), NEW u \in Handle,
           u.page_number = 1, u.prev_table = 0
    PROVE  Replaced(d, saveTable(d, u, TRUE), 1, TablePage(u))
<1> DEFINE k == u.page_number
           p == TablePage(u)
<1>1. saveTable(d, u, TRUE) = PutPage(d, k, p)
  BY DEF saveTable, WritePage
<1>2. k \in Nat /\ p \in Onward
  BY TablePageOnward DEF Handle
<1> HIDE DEF p
<1>3. Replaced(d, PutPage(d, k, p), k, p)
  BY <1>2, PageWritten
<1> QED
  BY <1>1, <1>3 DEF p

(* getTableFreePage gives a tidy table a page of its row list.             *)
LEMMA TidyPlace ==
    ASSUME NEW d, NEW t, Tidy(d, t)
    PROVE  Place(d, t, getTableFreePage(d, t))
BY NewPlace, OldPlace

\* One more file with rows: what the pages of a longer list keep.
LEMMA LinkInLonger ==
    ASSUME NEW p, NEW m, NEW n \in Nat, NEW k \in Nat, n <= k, Listed(p, m, n)
    PROVE  Listed(p, m, k)
<1>1. RowPlaces(n) \subseteq RowPlaces(k)
  BY DEF RowPlaces
<1> QED
  BY <1>1 DEF Listed, Link

\* e is d with row page k, which is p now, and the page of the table written.
Written(d, t, e, u, k, p) ==
    LET n == Len(e.file)
    IN  /\ e \in Database /\ e.file \in Seq(Onward) /\ Len(d.file) <= n
        /\ e.number_of_pages = n /\ SameLists(d, e)
        /\ u \in Handle /\ SameTable(t, u) /\ u.first_row_page = Top(n)
        /\ u.free_place \in RowPlaces(n)
        /\ k \in 2 .. n /\ Listed(p, k, n)
        /\ \A m \in 1 .. n : e.file[m] = IF m = 1 THEN TablePage(u)
                                         ELSE IF m = k THEN p ELSE d.file[m]
        /\ \A m \in 1 .. n : m # k => m \in 1 .. Len(d.file)

(* A file with a row page and the page of its table written is as before.  *)
LEMMA WrittenTidy ==
    ASSUME NEW d, NEW t, Tidy(d, t), NEW e, NEW u, NEW k, NEW p,
           Written(d, t, e, u, k, p)
    PROVE  /\ Tidy(e, u) /\ Steps(e.file, d.file, k)
           /\ \A w : CountAt(e.file, k, w) = Count(p.rows, w)
<1> DEFINE n == Len(e.file)
<1>a. /\ e \in Database /\ e.file \in Seq(Onward) /\ n \in Nat /\ Len(d.file) <= n
      /\ e.number_of_pages = n /\ SameLists(d, e)
      /\ u \in Handle /\ SameTable(t, u) /\ u.first_row_page = Top(n)
      /\ u.free_place \in RowPlaces(n)
  BY LenProperties DEF Written
<1>b. /\ k \in 2 .. n /\ Listed(p, k, n)
      /\ \A m \in 1 .. n : e.file[m] = IF m = 1 THEN TablePage(u)
                                       ELSE IF m = k THEN p ELSE d.file[m]
      /\ \A m \in 1 .. n : m # k => m \in 1 .. Len(d.file)
  BY DEF Written
<1> HIDE DEF n
<1>1. /\ Len(d.file) \in Nat /\ Len(d.file) # 0
      /\ d.first_free_page = 0 /\ d.first_table_page = 1 /\ t.page_number = 1
      /\ t.next_table = 0 /\ t.name # NoName
      /\ \A m \in 2 .. Len(d.file) : Listed(d.file[m], m, Len(d.file))
  BY TidyFields
<1>2. /\ n # 0 /\ 1 \in 1 .. n /\ k \in 1 .. n /\ k # 1
      /\ \A m \in 2 .. n : m \in 1 .. n /\ m # 1
      /\ \A m \in 2 .. n : m # k => m \in 2 .. Len(d.file)
  BY <1>a, <1>b, <1>1
<1>3. /\ u.page_number = 1 /\ u.prev_table = 0 /\ u.next_table = 0 /\ u.name # NoName
  BY <1>a, <1>1 DEF SameTable, Tidy
<1>4. e.file[1] = TablePage(u) /\ e.file[k] = p
  BY <1>b, <1>2
<1>5. Heading(e.file[1], n)
  BY <1>a, <1>3, <1>4 DEF Heading, TablePage
<1>6. ASSUME NEW m \in 2 .. n PROVE Listed(e.file[m], m, n)
  <2>1. CASE m = k
    BY <1>b, <1>4, <2>1
  <2>2. CASE m # k
    <3>1. e.file[m] = d.file[m] /\ m \in 2 .. Len(d.file)
      BY <1>b, <1>2, <2>2
    <3> QED
      BY <1>a, <1>1, <3>1, LinkInLonger
  <2> QED
    BY <2>1, <2>2
<1>7. Chain(e.file)
  BY <1>5, <1>6 DEF Chain, Listed, n
<1>8. Heads(e, e.file)
  BY <1>a, <1>1, <1>2 DEF Heads, SameLists, n
<1>9. FileHome(e.file)
  <2>1. e.file[1].page_number = 1
    BY <1>3, <1>4 DEF TablePage
  <2>2. \A m \in 1 .. n : m # 1 => m \in 2 .. n
    OBVIOUS
  <2> QED
    BY <1>6, <2>1, <2>2 DEF FileHome, Listed, n
<1>10. Tidy(e, u)
  BY <1>a, <1>2, <1>3, <1>4, <1>7, <1>8, <1>9 DEF Tidy, n
<1>11. Steps(e.file, d.file, k)
  <2> SUFFICES ASSUME NEW m \in 1 .. Len(d.file), m # k
               PROVE  m \in 1 .. Len(e.file) /\ d.file[m].rows = e.file[m].rows
    BY DEF Steps
  <2>1. m \in 1 .. n
    BY <1>a, <1>1
  <2>2. CASE m = 1
    <3>1. d.file[1].rows = <<>>
      BY <1>1 DEF Tidy, Chain, Heading
    <3>2. e.file[1].rows = <<>>
      BY <1>4 DEF TablePage
    <3> QED
      BY <2>1, <2>2, <3>1, <3>2 DEF n
  <2>3. CASE m # 1
    BY <1>b, <2>1, <2>3 DEF n
  <2> QED
    BY <2>2, <2>3
<1>12. \A w : CountAt(e.file, k, w) = Count(p.rows, w)
  BY <1>2, <1>4 DEF CountAt, n
<1> QED
  BY <1>10, <1>11, <1>12

(* insertData keeps the file in order and adds its row.                    *)
LEMMA InsertTidy ==
    ASSUME NEW d, NEW t, Tidy(d, t), NEW v \in Values
    PROVE  LET done == insertData(d, t, v, TRUE, TRUE)
           IN  /\ Tidy(done.db, done.tbl) /\ done.tbl.st = t.st
               /\ Len(d.file) <= Len(done.db.file)
               /\ \A w \in Values : Total(d.file, w) + One(w, v) <= Total(done.db.file, w)
<1> DEFINE got  == getTableFreePage(d, t)
           b    == got.db
           n    == Len(b.file)
           k    == got.pg.page_number
           pg1  == AddRow(got.pg, v)
           full == pg1.free_space < RowSize
           pg2  == IF full THEN [pg1 EXCEPT !.next_free = 0] ELSE pg1
           u    == IF full THEN [got.tbl EXCEPT !.free_place = pg1.next_free] ELSE got.tbl
           done == insertData(d, t, v, TRUE, TRUE)
           d1   == WritePage(b, pg2.page_number, pg2, TRUE)
           e    == saveTable(d1, u, TRUE)
<1>1. Place(d, t, got)
  BY TidyPlace
<1>2. done.db = e /\ done.tbl = u
  <2>1. done = [db |-> e, tbl |-> u]
    BY DEF insertData
  <2> HIDE DEF e, u, done
  <2> QED
    BY <2>1
<1> HIDE DEF got, done
<1>3. /\ b \in Database /\ b.file \in Seq(Onward) /\ n \in Nat /\ Len(d.file) <= n
      /\ b.number_of_pages = n /\ SameLists(d, b) /\ k \in 2 .. n /\ k \in Nat
      /\ Listed(got.pg, k, n)
      /\ \A m \in 1 .. n : m # k => m \in 1 .. Len(d.file) /\ b.file[m] = d.file[m]
      /\ got.tbl \in Handle /\ SameTable(t, got.tbl)
      /\ got.tbl.first_row_page = Top(n) /\ got.tbl.free_place \in RowPlaces(n)
      /\ \A w : CountAt(d.file, k, w) = Count(got.pg.rows, w)
  BY <1>1, LenProperties DEF Place
<1> DEFINE rows  == Append(got.pg.rows, v)
           space == (got.pg.free_space - (RowLen[v] + LenSize)) % U16
<1>4. got.pg \in Onward /\ got.pg.rows \in Seq(Values) /\ got.pg.next_free \in RowPlaces(n)
      /\ Link(got.pg, k, n)
  BY <1>3, OnwardFields DEF Listed, Link
<1>5. rows \in Seq(Values) /\ space \in uint16_t
  <2>1. rows \in Seq(Values)
    BY <1>4, AppendProperties
  <2>2. RowLen[v] + LenSize \in Nat
    BY RowLenAssumption DEF LenSize
  <2> QED
    BY <1>4, <2>1, <2>2, WrappedDifference, OnwardFields
<1>6. pg1 = [got.pg EXCEPT !.rows = rows, !.free_space = space]
  BY DEF AddRow
<1> HIDE DEF rows, space
<1>7. Listed(pg2, k, n) /\ pg2.rows = rows /\ pg1.next_free = got.pg.next_free
  <2>1. /\ pg1 \in Onward /\ pg1.page_number = k /\ pg1.rows = rows
        /\ pg1.page_type = got.pg.page_type /\ pg1.name = got.pg.name
        /\ pg1.free_place = got.pg.free_place
        /\ pg1.next = got.pg.next /\ pg1.next_free = got.pg.next_free
    BY <1>4, <1>5, <1>6 DEF Onward, Page
  <2>2. 0 \in RowPlaces(n) /\ 0 \in Nat
    BY DEF RowPlaces
  <2> HIDE DEF pg1
  <2>3. /\ pg2 \in Onward /\ pg2.page_number = k /\ pg2.rows = rows
        /\ pg2.page_type = pg1.page_type /\ pg2.name = pg1.name
        /\ pg2.free_place = pg1.free_place
        /\ pg2.next = pg1.next /\ pg2.next_free \in {0, pg1.next_free}
    BY <2>1, <2>2 DEF Onward, Page
  <2> HIDE DEF pg2
  <2> QED
    BY <1>4, <2>1, <2>2, <2>3 DEF Listed, Link
<1> HIDE DEF pg1, full
<1>8. /\ u \in Handle /\ SameTable(t, u) /\ u.first_row_page = Top(n)
      /\ u.free_place \in RowPlaces(n)
  <2>1. RowPlaces(n) \subseteq Nat
    BY DEF RowPlaces
  <2>2. pg1.next_free \in RowPlaces(n) /\ pg1.next_free \in Nat
    BY <1>4, <1>7, <2>1
  <2> QED
    BY <1>3, <2>2 DEF Handle, SameTable
<1> HIDE DEF pg2, u
<1>9. pg2.page_number = k /\ pg2 \in Page /\ TablePage(u) \in Page
      /\ u.page_number = 1 /\ u.prev_table = 0 /\ TablePage(u) \in Onward
  <2>1. u.page_number = 1 /\ u.prev_table = 0
    BY <1>8, TidyFields DEF SameTable, Tidy
  <2> QED
    BY <1>7, <1>8, <2>1, TablePageOnward, OnwardFields DEF Listed
<1>10. /\ d1 \in Database /\ d1.file \in Seq(Onward)
       /\ d1.number_of_pages = n /\ SameLists(b, d1) /\ Len(d1.file) = n
       /\ \A m \in 1 .. n : d1.file[m] = IF m = k THEN pg2 ELSE b.file[m]
  <2>1. pg2 \in Onward
    BY <1>7 DEF Listed
  <2>2. d1 = PutPage(b, k, pg2)
    BY <1>9 DEF WritePage
  <2> HIDE DEF b, k, d1
  <2>3. Replaced(b, d1, k, pg2)
    BY <1>3, <2>1, <2>2, PageWritten
  <2> HIDE DEF n
  <2> QED
    BY <1>3, <2>3 DEF Replaced, n
<1> HIDE DEF d1
<1>11. /\ e \in Database /\ e.file \in Seq(Onward)
       /\ e.number_of_pages = n /\ SameLists(d, e) /\ n = Len(e.file)
       /\ \A m \in 1 .. n : e.file[m] = IF m = 1 THEN TablePage(u) ELSE d1.file[m]
  <2>1. Replaced(d1, e, 1, TablePage(u))
    BY <1>8, <1>9, <1>10, TableWritten
  <2> HIDE DEF e, n
  <2> QED
    BY <1>3, <1>10, <2>1 DEF Replaced, SameLists
<1> HIDE DEF e, b, k, n
<1>12. \A m \in 1 .. n : e.file[m] = IF m = 1 THEN TablePage(u)
                                     ELSE IF m = k THEN pg2 ELSE d.file[m]
  BY <1>3, <1>10, <1>11
<1>13. \A m \in 1 .. n : m # k => m \in 1 .. Len(d.file)
  BY <1>3
<1>14. /\ Tidy(e, u) /\ Steps(e.file, d.file, k)
       /\ \A w : CountAt(e.file, k, w) = Count(pg2.rows, w)
  <2>1. Written(d, t, e, u, k, pg2)
    BY <1>3, <1>7, <1>8, <1>11, <1>12, <1>13 DEF Written
  <2> QED
    BY <2>1, WrittenTidy
<1>15. ASSUME NEW w \in Values PROVE Total(d.file, w) + One(w, v) <= Total(e.file, w)
  <2>1. Count(rows, w) = Count(got.pg.rows, w) + One(w, v)
    BY <1>4, CountAppended DEF rows
  <2>2. Count(rows, w) \in Nat /\ Count(got.pg.rows, w) \in Nat /\ One(w, v) \in Nat
    BY <1>4, <1>5, CountNat DEF One
  <2>3. CountAt(d.file, k, w) + One(w, v) <= CountAt(e.file, k, w) + 0
    BY <1>3, <1>7, <1>14, <2>1, <2>2
  <2>4. d.file \in Seq(Onward)
    BY DEF Tidy
  <2>5. Total(d.file, w) + One(w, v) <= Total(e.file, w) + 0
    BY <1>11, <1>14, <2>2, <2>3, <2>4, TotalShifts
  <2>6. Total(e.file, w) \in Nat
    BY <1>11, TotalNat
  <2> QED
    BY <2>5, <2>6
<1>16. u.st = t.st
  BY <1>8 DEF SameTable
<1>17. Len(d.file) <= Len(e.file)
  BY <1>3, <1>11
<1>18. /\ Tidy(done.db, done.tbl) /\ done.tbl.st = t.st
       /\ Len(d.file) <= Len(done.db.file)
       /\ \A w \in Values : Total(d.file, w) + One(w, v) <= Total(done.db.file, w)
  BY <1>14, <1>15, <1>16, <1>17, <1>2
<1> QED
  BY <1>18 DEF done

\* A struct of the table as it may become, in a file of n pages.
Following(t, u, n) ==
    /\ u \in Handle /\ SameTable(t, u) /\ u.first_row_page = Top(n)
    /\ u.free_place \in RowPlaces(n)

(* A page of the row list and the page of the table are written.           *)
LEMMA PagesSaved ==
    ASSUME NEW d, NEW t, Tidy(d, t), NEW k \in 2 .. Len(d.file),
           NEW p, Listed(p, k, Len(d.file)), NEW u, Following(t, u, Len(d.file))
    PROVE  Written(d, t, saveTable(PutPage(d, k, p), u, TRUE), u, k, p)
<1> DEFINE n  == Len(d.file)
           d1 == PutPage(d, k, p)
           e  == saveTable(d1, u, TRUE)
<1>1. n \in Nat /\ d.number_of_pages = n /\ t.page_number = 1 /\ t.prev_table = 0
  BY TidyFields DEF Tidy
<1>2. d \in Database /\ d.file \in Seq(Onward)
  BY DEF Tidy
<1>3. k \in Nat /\ p \in Onward
  BY <1>1 DEF Listed
<1>4. Replaced(d, d1, k, p)
  BY <1>2, <1>3, PageWritten
<1> HIDE DEF d1, e
<1>5. d1 \in Database /\ d1.file \in Seq(Onward)
  BY <1>4 DEF Replaced
<1>6. u \in Handle /\ u.page_number = 1 /\ u.prev_table = 0
  BY <1>1 DEF Following, SameTable
<1>7. Replaced(d1, e, 1, TablePage(u))
  BY <1>5, <1>6, TableWritten DEF e
<1>8. /\ e \in Database /\ e.file \in Seq(Onward) /\ Len(e.file) = n
      /\ e.number_of_pages = n /\ SameLists(d, e)
      /\ \A m \in 1 .. n : e.file[m] = IF m = 1 THEN TablePage(u)
                                       ELSE IF m = k THEN p ELSE d.file[m]
  BY <1>1, <1>4, <1>7 DEF Replaced, SameLists
<1>9. n <= n /\ \A m \in 1 .. n : m # k => m \in 1 .. Len(d.file)
  BY <1>1
<1>10. Written(d, t, e, u, k, p)
  BY <1>8, <1>9 DEF Written, Following
<1> QED
  BY <1>10 DEF e, d1

\* What FreeRow leaves of page k, and the table struct after it.
RowFreed(t, page, i, u, left, k, n) ==
    /\ Following(t, u, n) /\ Listed(left, k, n) /\ left.rows = RemoveAt(page.rows, i)

(* Freeing a row leaves the page where it is in the row list.              *)
LEMMA FreeRowListed ==
    ASSUME NEW n \in Nat, NEW k \in 2 .. n, NEW t, Following(t, t, n),
           NEW page, Listed(page, k, n), NEW i \in DOMAIN page.rows
    PROVE  LET s == FreeRow(t, page, RowLen[page.rows[i]])
           IN  RowFreed(t, page, i, s.tbl, [s.pg EXCEPT !.rows = RemoveAt(@, i)], k, n)
<1> DEFINE len    == RowLen[page.rows[i]]
           space  == (page.free_space + len) % U16
           linked == page.free_space < RowSize /\ space > RowSize
           place  == IF linked THEN page.page_number ELSE t.free_place
           next   == IF linked THEN t.free_place ELSE page.next_free
           full   == space < RowSize
           first  == IF full THEN next ELSE place
           after  == IF full THEN 0 ELSE next
           s      == FreeRow(t, page, len)
           left   == [s.pg EXCEPT !.rows = RemoveAt(@, i)]
<1>1. page \in Onward /\ page.page_number = k /\ Link(page, k, n) /\ k \in RowPlaces(n)
  BY DEF Listed, RowPlaces
<1>2. t \in Handle /\ t.free_place \in RowPlaces(n) /\ t.first_row_page = Top(n)
  BY DEF Following
<1>3. s.tbl \in Handle /\ SameTable(t, s.tbl) /\ RowRemoved(page, i, left)
  BY <1>1, <1>2, FreeRowEffect
<1>4. first \in RowPlaces(n) /\ after \in RowPlaces(n)
  <2>1. place \in {page.page_number, t.free_place} /\ next \in {t.free_place, page.next_free}
    OBVIOUS
  <2>2. first \in {next, place} /\ after \in {0, next}
    OBVIOUS
  <2>3. page.next_free \in RowPlaces(n) /\ 0 \in RowPlaces(n)
    BY <1>1 DEF Link, RowPlaces
  <2> HIDE DEF place, next, first, after
  <2> QED
    BY <1>1, <1>2, <2>1, <2>2, <2>3
<1>5. s = [tbl |-> [t EXCEPT !.free_place = first],
           pg  |-> [page EXCEPT !.free_space = space, !.next_free = after]]
  BY DEF FreeRow
<1> HIDE DEF first, after, space
<1>6. /\ s.tbl = [t EXCEPT !.free_place = first]
      /\ s.pg = [page EXCEPT !.free_space = space, !.next_free = after]
  BY <1>5
<1> HIDE DEF s
<1>7. s.tbl.first_row_page = Top(n) /\ s.tbl.free_place \in RowPlaces(n)
  BY <1>2, <1>4, <1>6 DEF Handle
<1>8. /\ left.page_type = page.page_type /\ left.name = page.name
      /\ left.free_place = page.free_place /\ left.next = page.next
      /\ left.next_free = after
  BY <1>1, <1>6 DEF Onward, Page
<1> HIDE DEF left
<1>9. /\ left \in Onward /\ left.page_number = k /\ left.rows = RemoveAt(page.rows, i)
  BY <1>1, <1>3 DEF RowRemoved
<1>10. RowFreed(t, page, i, s.tbl, left, k, n)
  BY <1>1, <1>3, <1>4, <1>7, <1>8, <1>9 DEF RowFreed, Following, Listed, Link
<1> QED
  BY <1>10 DEF left, s

(* A page that deleteData is handed is one of the file.                    *)
LEMMA TidyPage ==
    ASSUME NEW d, NEW t, Tidy(d, t), NEW page, page.page_type = "ROW_PAGE",
           NEW k \in 1 .. Len(d.file), readRowPage(d, k) = page
    PROVE  k \in 2 .. Len(d.file) /\ page = d.file[k] /\ Listed(page, k, Len(d.file))
<1> DEFINE n == Len(d.file)
           p == d.file[k]
<1>1. /\ n \in Nat /\ n # 0 /\ \A m \in 2 .. n : Listed(d.file[m], m, n)
  BY TidyFields
<1>2. page = [p EXCEPT !.name = NoName, !.free_place = 0]
  BY DEF readRowPage
<1>3. p \in Onward
  BY ElementOfSeq DEF Tidy
<1>4. p.page_type = "ROW_PAGE"
  <2> HIDE DEF p
  <2> QED
    BY <1>2, <1>3 DEF Onward, Page
<1>5. k # 1
  <2> SUFFICES ASSUME k = 1 PROVE FALSE
    OBVIOUS
  <2>1. p.page_type = "TABLE_PAGE"
    BY <1>1 DEF Tidy, Chain, Heading
  <2> QED
    BY <1>4, <2>1
<1>6. k \in 2 .. n /\ Listed(p, k, n)
  BY <1>1, <1>5
<1>7. p.name = NoName /\ p.free_place = 0
  BY <1>6 DEF Listed, Link
<1>8. page = p
  <2> HIDE DEF p
  <2> QED
    BY <1>2, <1>3, <1>7 DEF Onward, Page
<1> QED
  BY <1>6, <1>8

\* What deleteData leaves in the file when a row is left on its page.
RowGone(d, t, page, i, done) ==
    /\ Tidy(done.db, done.tbl) /\ done.tbl.st = t.st
    /\ Len(done.db.file) = Len(d.file)
    /\ done.pg.page_type = "ROW_PAGE" /\ done.pg.next = page.next /\ done.pg # NoPage
    /\ \A w \in Values :
         Total(d.file, w) <= Total(done.db.file, w) + One(w, page.rows[i])

(* deleteData keeps a table tidy while rows are left on the page.          *)
LEMMA DeleteTidy ==
    ASSUME NEW d, NEW t, Tidy(d, t), NEW page, page.page_type = "ROW_PAGE",
           NEW k, k = page.page_number, k \in 1 .. Len(d.file), readRowPage(d, k) = page,
           NEW i \in DOMAIN page.rows, Len(page.rows) # 1
    PROVE  RowGone(d, t, page, i, deleteData(d, t, page, i, TRUE))
<1> DEFINE n    == Len(d.file)
           s    == FreeRow(t, page, RowLen[page.rows[i]])
           left == [s.pg EXCEPT !.rows = RemoveAt(@, i)]
           d1   == PutPage(d, left.page_number, left)
           e    == saveTable(d1, s.tbl, TRUE)
           done == deleteData(d, t, page, i, TRUE)
<1>1. k \in 2 .. n /\ page = d.file[k] /\ Listed(page, k, n)
  BY TidyPage
<1>2. /\ n \in Nat /\ t \in Handle /\ t.first_row_page = Top(n)
      /\ t.free_place \in RowPlaces(n) /\ t.page_number = 1 /\ t.prev_table = 0
      /\ d.file \in Seq(Onward)
  BY TidyFields DEF Tidy
<1>3. Following(t, t, n)
  BY <1>2 DEF Following, SameTable
<1>4. RowFreed(t, page, i, s.tbl, left, k, n)
  <2> HIDE DEF n
  <2> QED
    BY <1>1, <1>2, <1>3, FreeRowListed
<1>5. left.rows # <<>>
  <2>1. page.rows \in Seq(Values)
    BY <1>1, OnwardFields DEF Listed
  <2>2. i \in 1 .. Len(page.rows) /\ Len(page.rows) \in Nat
    BY <2>1, LenProperties
  <2>3. /\ RemoveAt(page.rows, i) \in Seq(Values)
        /\ Len(RemoveAt(page.rows, i)) = Len(page.rows) - 1
    BY <2>1, <2>2, RemoveAtEffect
  <2>4. left.rows = RemoveAt(page.rows, i)
    BY <1>4 DEF RowFreed
  <2> DEFINE r == RemoveAt(page.rows, i)
  <2>5. r \in Seq(Values) /\ Len(r) = Len(page.rows) - 1 /\ left.rows = r
    BY <2>3, <2>4
  <2> HIDE DEF left, r
  <2>6. r = <<>> <=> Len(r) = 0
    BY <2>5, EmptySeq
  <2> QED
    BY <2>2, <2>5, <2>6
<1>6. done.db = e /\ done.tbl = s.tbl /\ done.pg = left
  <2>1. done = IF left.rows = <<>>
               THEN [db |-> freeRowPage(UnlinkPage(d, left), left, TRUE),
                     tbl |-> s.tbl, pg |-> NoPage]
               ELSE [db |-> e, tbl |-> s.tbl, pg |-> left]
    BY DEF deleteData
  <2> HIDE DEF done, left, e
  <2> QED
    BY <1>5, <2>1
<1> HIDE DEF s, left, done
<1>7. left.page_number = k /\ Listed(left, k, n) /\ Following(t, s.tbl, n)
      /\ left.rows = RemoveAt(page.rows, i)
  BY <1>4 DEF RowFreed, Listed
<1>8. Written(d, t, e, s.tbl, k, left)
  <2>1. e = saveTable(PutPage(d, k, left), s.tbl, TRUE)
    BY <1>7
  <2> HIDE DEF e
  <2> QED
    BY <1>1, <1>7, <2>1, PagesSaved
<1> HIDE DEF e
<1>9. /\ Tidy(e, s.tbl) /\ Steps(e.file, d.file, k)
      /\ \A w : CountAt(e.file, k, w) = Count(left.rows, w)
  BY <1>8, WrittenTidy
<1>10. Len(e.file) = n /\ e.file \in Seq(Onward)
  BY <1>1, <1>2, <1>8, <1>9, LenProperties DEF Written, Tidy
<1>11. ASSUME NEW w \in Values
       PROVE  Total(d.file, w) <= Total(e.file, w) + One(w, page.rows[i])
  <2>1. page.rows \in Seq(Values)
    BY <1>1, OnwardFields DEF Listed
  <2>2. Count(page.rows, w) <= Count(left.rows, w) + One(w, page.rows[i])
    BY <1>7, <2>1, CountKept
  <2>3. CountAt(d.file, k, w) = Count(page.rows, w) /\ One(w, page.rows[i]) \in Nat
    BY <1>1, <1>2 DEF CountAt, One
  <2>4. CountAt(d.file, k, w) \in Nat /\ CountAt(e.file, k, w) \in Nat
    BY <1>2, <1>10, TotalSplit
  <2>5. CountAt(d.file, k, w) + 0 <= CountAt(e.file, k, w) + One(w, page.rows[i])
    BY <1>9, <2>2, <2>3, <2>4
  <2>6. Total(d.file, w) + 0 <= Total(e.file, w) + One(w, page.rows[i])
    BY <1>2, <1>9, <1>10, <2>3, <2>5, TotalShifts
  <2>7. Total(d.file, w) \in Nat
    BY <1>2, TotalNat
  <2> QED
    BY <2>6, <2>7
<1>12. left.page_type = "ROW_PAGE" /\ left.next = page.next /\ left # NoPage
  <2>1. left.page_type = "ROW_PAGE" /\ left.next = Top(k - 1) /\ page.next = Top(k - 1)
    BY <1>1, <1>7 DEF Listed, Link
  <2> QED
    BY <2>1 DEF NoPage
<1>13. s.tbl.st = t.st
  BY <1>7 DEF Following, SameTable
<1>14. RowGone(d, t, page, i, done)
  BY <1>6, <1>9, <1>10, <1>11, <1>12, <1>13 DEF RowGone
<1> QED
  BY <1>14 DEF done

----------------------------------------------------------------------------
(***************************************************************************)
(* The invariant behind RowsKept.                                          *)
(***************************************************************************)
\* Page for page the same, but for the numbers.
Alike(c, f) ==
    \A n \in 1 .. Len(c) : c[n] = [f[n] EXCEPT !.page_number = c[n].page_number]

KeptFile ==
    /\ Chain(db.file) /\ eof = Len(db.file)
    /\ \A v \in Values : given[v] <= Total(db.file, v)

KeptHeader ==
    IF pc # "off" THEN Heads(db, db.file)
    ELSE IF saved = NoHeader THEN given = NoRows
    ELSE Heads(saved, db.file)

KeptProgram ==
    /\ tbl.st = "live" => Len(db.file) # 0 /\ TablePage(tbl) = db.file[1]
    /\ pg # NoPage => pg.page_type = "ROW_PAGE" /\ pg.next \in RowPlaces(Len(db.file))

KeptCopy ==
    /\ pc = "copying" => /\ offset = 0 /\ Len(copy) + 1 = at /\ at <= Len(db.file) + 1
                         /\ Alike(copy, db.file)
    /\ pc \in {"copied", "removed"} => Len(copy) = Len(db.file) /\ Alike(copy, db.file)

Kept == KeptFile /\ KeptHeader /\ KeptProgram /\ KeptCopy

KeptInv == harm = {} => Kept

(* A copy of a file is in order as the file is, and has its rows.          *)
LEMMA AlikeKeeps ==
    ASSUME NEW f \in Seq(Onward), NEW c \in Seq(Onward), Len(c) = Len(f), Alike(c, f),
           Chain(f)
    PROVE  Chain(c) /\ \A v : Total(c, v) = Total(f, v)
<1> DEFINE n == Len(f)
<1>1. n \in Nat /\ Len(c) = n
  BY LenProperties
<1>2. ASSUME NEW m \in 1 .. n
      PROVE  /\ c[m].page_type = f[m].page_type /\ c[m].name = f[m].name
             /\ c[m].next = f[m].next /\ c[m].next_free = f[m].next_free
             /\ c[m].free_space = f[m].free_space /\ c[m].free_place = f[m].free_place
             /\ c[m].rows = f[m].rows
  <2>1. f[m] \in Onward /\ c[m] = [f[m] EXCEPT !.page_number = c[m].page_number]
    BY ElementOfSeq DEF Alike
  <2> DEFINE p == f[m]
             q == c[m]
  <2>2. p \in Onward /\ q = [p EXCEPT !.page_number = q.page_number]
    BY <2>1
  <2> HIDE DEF p, q
  <2>3. /\ q.page_type = p.page_type /\ q.name = p.name
        /\ q.next = p.next /\ q.next_free = p.next_free
        /\ q.free_space = p.free_space /\ q.free_place = p.free_place
        /\ q.rows = p.rows
    BY <2>2 DEF Onward, Page
  <2> QED
    BY <2>3 DEF p, q
<1>3. n # 0 => Heading(c[1], n)
  <2> SUFFICES ASSUME n # 0 PROVE Heading(c[1], n)
    OBVIOUS
  <2>1. 1 \in 1 .. n /\ Heading(f[1], n)
    BY <1>1 DEF Chain
  <2> QED
    BY <1>2, <2>1 DEF Heading
<1>4. ASSUME NEW m \in 2 .. n PROVE Link(c[m], m, n)
  <2>1. m \in 1 .. n /\ Link(f[m], m, n)
    BY <1>1 DEF Chain
  <2> QED
    BY <1>2, <2>1 DEF Link
<1>5. Chain(c)
  BY <1>1, <1>3, <1>4 DEF Chain
<1>6. ASSUME NEW v PROVE Total(c, v) = Total(f, v)
  <2>1. Total(c, v) <= Total(f, v) /\ Total(c, v) \in Nat /\ Total(f, v) \in Nat
    BY <1>1, <1>2, FewerRows
  <2>2. Total(f, v) <= Total(c, v)
    BY <1>1, <1>2, FewerRows
  <2> QED
    BY <2>1, <2>2
<1> QED
  BY <1>5, <1>6

(* What a file of such a shape holds is what was given.                    *)
LEMMA KeptRows ==
    ASSUME Shapes, RowInv, KeptInv, harm = {},
           NEW f \in Seq(Onward), Chain(f), \A v : Total(f, v) = Total(db.file, v),
           NEW h, Heads(h, f)
    PROVE  RowsIn(h, f, Len(f)) = given
<1>1. \A v \in Values : Total(db.file, v) <= given[v] /\ given[v] <= Total(db.file, v)
  BY DEF RowInv, Clean, Within, KeptInv, Kept, KeptFile
<1>2. given \in [Values -> Nat] /\ \A v \in Values : Total(db.file, v) \in Nat
  <2>1. db.file \in Seq(Onward)
    BY ShapesUsable
  <2> QED
    BY <2>1, TotalNat DEF Shapes, HistoryShape
<1>3. \A v \in Values : Total(f, v) = given[v]
  BY <1>1, <1>2
<1>4. RowsIn(h, f, Len(f)) = [v \in Values |-> Total(f, v)]
  BY ChainStored
<1> QED
  BY <1>2, <1>3, <1>4

(* KeptInv implies RowsKept: what is in the file is in the row list.       *)
LEMMA KeptIsKept ==
    ASSUME Shapes, RowInv, KeptInv PROVE RowsKept
<1> SUFFICES ASSUME harm = {}
             PROVE  CASE pc = "off" /\ saved = NoHeader -> given = NoRows
                      [] pc = "removed" -> RowsIn(db, copy, Len(copy)) = given
                      [] OTHER -> Stored = given
  BY DEF RowsKept
<1>1. KeptFile /\ KeptHeader /\ KeptCopy
  BY DEF KeptInv, Kept
<1>2. db.file \in Seq(Onward) /\ copy \in Seq(Onward)
  BY ShapesUsable DEF Shapes, ClosingShape
<1>3. CASE pc = "off" /\ saved = NoHeader
  BY <1>1, <1>3 DEF KeptHeader
<1>4. CASE pc = "removed"
  <2>1. Len(copy) = Len(db.file) /\ Alike(copy, db.file) /\ Heads(db, db.file) /\ Chain(db.file)
    BY <1>1, <1>4 DEF KeptFile, KeptHeader, KeptCopy
  <2>2. Chain(copy) /\ \A v : Total(copy, v) = Total(db.file, v)
    BY <1>2, <2>1, AlikeKeeps
  <2>3. Heads(db, copy)
    BY <2>1 DEF Heads
  <2>4. RowsIn(db, copy, Len(copy)) = given
    BY <1>2, <2>2, <2>3, KeptRows
  <2> QED
    BY <1>4, <2>4
<1>5. CASE pc # "removed" /\ ~(pc = "off" /\ saved = NoHeader)
  <2>1. Chain(db.file) /\ eof = Len(db.file)
    BY <1>1 DEF KeptFile
  <2>2. CASE pc # "off"
    <3>1. Heads(db, db.file)
      BY <1>1, <2>2 DEF KeptHeader
    <3>2. RowsIn(db, db.file, Len(db.file)) = given
      BY <1>2, <2>1, <3>1, KeptRows
    <3> QED
      BY <1>5, <2>1, <2>2, <3>2 DEF Stored
  <2>3. CASE pc = "off"
    <3>1. saved # NoHeader /\ Heads(saved, db.file)
      BY <1>1, <1>5, <2>3 DEF KeptHeader
    <3>2. RowsIn(saved, db.file, Len(db.file)) = given
      BY <1>2, <2>1, <3>1, KeptRows
    <3> QED
      BY <1>5, <2>1, <2>3, <3>1, <3>2 DEF Stored
  <2> QED
    BY <2>2, <2>3
<1> QED
  BY <1>3, <1>4, <1>5

(* What the steps below use of Kept.                                       *)
LEMMA KeptFields ==
    ASSUME Shapes, Kept
    PROVE  LET n == Len(db.file)
           IN  /\ n \in Nat /\ eof = n /\ db.file \in Seq(Onward) /\ Chain(db.file)
               /\ DOMAIN db.file = 1 .. n /\ db \in Database
               /\ \A v \in Values : given[v] \in Nat /\ given[v] <= Total(db.file, v)
               /\ pc # "off" => Heads(db, db.file)
BY ShapesUsable, GivenNat DEF Kept, KeptFile, KeptHeader

\* With the table in use the file is one InsertTidy and DeleteTidy speak of.
LEMMA KeptTidy ==
    ASSUME Shapes, Kept, Writing PROVE Tidy(db, tbl)
<1>1. /\ Len(db.file) # 0 /\ TablePage(tbl) = db.file[1]
      /\ pc # "off" /\ AtHome
  BY DEF Kept, KeptProgram, Writing
<1>2. FileHome(db.file)
  BY <1>1, AtHomeFile
<1>3. tbl \in Handle /\ tbl.prev_table = 0
  BY DEF Shapes, ProgramShape
<1> QED
  BY <1>1, <1>2, <1>3, KeptFields DEF Tidy

(* What is written reaches the end of the file.                            *)
LEMMA WrittenWhole ==
    ASSUME Shapes, Kept, NEW d \in Database, Len(db.file) <= Len(d.file), Write(d)
    PROVE  db' = d /\ saved' = saved /\ eof' = Len(d.file)
<1>1. FileShape /\ eof = Len(db.file) /\ Len(db.file) \in Nat
  BY KeptFields DEF Shapes
<1>2. /\ db' = d /\ saved' = saved /\ eof' \in 0 .. Len(d.file)
      /\ \A n \in 1 .. Len(d.file) :
           n > eof' => n \in 1 .. Len(db.file) /\ d.file[n] = db.file[n] /\ n > eof
  BY <1>1, WriteReaches
<1>3. Len(d.file) \in Nat
  BY LenProperties DEF Database
<1>4. eof' = Len(d.file)
  <2> SUFFICES ASSUME eof' # Len(d.file) PROVE FALSE
    OBVIOUS
  <2>1. Len(d.file) \in 1 .. Len(d.file) /\ Len(d.file) > eof'
    BY <1>2, <1>3
  <2>2. Len(d.file) \in 1 .. Len(db.file) /\ Len(d.file) > eof
    BY <1>2, <2>1
  <2> QED
    BY <1>1, <2>2
<1> QED
  BY <1>2, <1>4

\* The program after a call that kept the file in order.
LEMMA TidyKept ==
    ASSUME Shapes, Kept, NEW d, NEW u, Tidy(d, u), Len(db.file) <= Len(d.file),
           Write(d), tbl' = u, pc = "open", pc' = pc,
           \A v \in Values : given'[v] <= Total(d.file, v),
           pg' # NoPage => pg'.page_type = "ROW_PAGE" /\ pg'.next \in RowPlaces(Len(db.file))
    PROVE  Kept'
<1>1. d \in Database /\ Chain(d.file) /\ Heads(d, d.file) /\ Len(d.file) # 0
      /\ TablePage(u) = d.file[1]
  BY DEF Tidy
<1>2. db' = d /\ eof' = Len(d.file)
  BY <1>1, WrittenWhole
<1>3. KeptFile'
  BY <1>1, <1>2 DEF KeptFile
<1>4. KeptHeader'
  BY <1>1, <1>2 DEF KeptHeader
<1>5. KeptProgram'
  <2>1. Len(db.file) \in Nat /\ Len(d.file) \in Nat
    BY <1>1, KeptFields, LenProperties DEF Database
  <2>2. RowPlaces(Len(db.file)) \subseteq RowPlaces(Len(d.file))
    BY <2>1 DEF RowPlaces
  <2> QED
    BY <1>1, <1>2, <2>2 DEF KeptProgram
<1>6. KeptCopy'
  BY DEF KeptCopy
<1> QED
  BY <1>3, <1>4, <1>5, <1>6 DEF Kept

(* insertData keeps the chain of row pages and adds the row it is given.   *)
LEMMA InsertKept ==
    ASSUME Shapes, Kept, NEW v \in Values, InsertData(v) PROVE Kept'
<1> DEFINE done == insertData(db, tbl, v, TRUE, TRUE)
<1>1. /\ Write(done.db) /\ tbl' = done.tbl /\ Plus(v) /\ pc' = pc /\ pg' = pg
      /\ Writing /\ pc = "open"
  BY DEF InsertData, Writing
<1>2. Tidy(db, tbl)
  BY <1>1, KeptTidy
<1>3. /\ Tidy(done.db, done.tbl) /\ Len(db.file) <= Len(done.db.file)
      /\ \A w \in Values : Total(db.file, w) + One(w, v) <= Total(done.db.file, w)
  BY <1>2, InsertTidy
<1> HIDE DEF done
<1>4. ASSUME NEW w \in Values PROVE given'[w] <= Total(done.db.file, w)
  <2>1. given'[w] = given[w] + One(w, v)
    BY <1>1, GivenPlus
  <2>2. done.db.file \in Seq(Onward) /\ db.file \in Seq(Onward)
    BY <1>2, <1>3 DEF Tidy
  <2>3. Total(done.db.file, w) \in Nat /\ Total(db.file, w) \in Nat /\ One(w, v) \in Nat
    BY <2>2, TotalNat DEF One
  <2> QED
    BY <1>3, <2>1, <2>3, KeptFields
<1>5. pg' # NoPage => pg'.page_type = "ROW_PAGE" /\ pg'.next \in RowPlaces(Len(db.file))
  BY <1>1 DEF Kept, KeptProgram
<1> QED
  BY <1>1, <1>3, <1>4, <1>5, TidyKept

(* deleteData on a page as the file has it, on which a row is left.        *)
LEMMA DeletedTidy ==
    ASSUME Shapes, Kept, NEW i, Deletable(i), ~Stale,
           deleteData(db, tbl, pg, i, TRUE).pg # NoPage
    PROVE  RowGone(db, tbl, pg, i, deleteData(db, tbl, pg, i, TRUE))
<1> DEFINE k == pg.page_number
<1>1. /\ pg \in Onward /\ pg # NoPage /\ i \in DOMAIN pg.rows /\ NextAtHome(db, pg)
      /\ AtHome /\ Writing
  BY DeletableHere DEF Deletable
<1>2. Tidy(db, tbl)
  BY <1>1, KeptTidy
<1>3. k \in 1 .. Len(db.file) /\ readRowPage(db, k) = pg
  BY <1>1, KeptFields DEF AtHome, Stale
<1>4. pg.page_type = "ROW_PAGE"
  BY <1>1 DEF Kept, KeptProgram
<1>5. Len(pg.rows) # 1
  <2>1. /\ db \in Database /\ tbl \in Handle /\ tbl.prev_table = 0 /\ TRUE \in BOOLEAN
    BY <1>2 DEF Tidy
  <2>2. Len(pg.rows) = 1 /\ pg.next # 0 =>
          db.file[pg.next] \in Onward /\ db.file[pg.next].page_number = pg.next
    <3>1. db.file \in Seq(Onward)
      BY KeptFields
    <3> QED
      BY <1>1, <3>1, ElementOfSeq DEF NextAtHome
  <2>3. DeleteWrites(db, tbl, pg, i, deleteData(db, tbl, pg, i, TRUE))
    BY <1>1, <2>1, <2>2, DeleteDataRewrites
  <2> QED
    BY <2>3 DEF DeleteWrites
<1> HIDE DEF k
<1> QED
  BY <1>1, <1>2, <1>3, <1>4, <1>5, DeleteTidy DEF k

(* deleteData keeps the chain, unless it does harm.                        *)
LEMMA DeleteKept ==
    ASSUME Shapes, Kept, NEW i, DeleteData(i), harm' = {} PROVE Kept'
<1> DEFINE done == deleteData(db, tbl, pg, i, TRUE)
           row  == pg.rows[i]
<1>1. /\ Deletable(i) /\ Write(done.db) /\ tbl' = done.tbl /\ pg' = done.pg
      /\ harm' = harm \cup (If(done.pg = NoPage, "emptied") \cup If(Stale, "stale"))
      /\ Minus(row) /\ pc' = pc
  BY DEF DeleteData, Harmed
<1>2. done.pg # NoPage /\ ~Stale
  BY <1>1 DEF If
<1>3. RowGone(db, tbl, pg, i, done)
  BY <1>1, <1>2, DeletedTidy
<1> HIDE DEF done, row
<1>4. /\ Tidy(done.db, done.tbl) /\ Len(done.db.file) = Len(db.file)
      /\ done.pg.page_type = "ROW_PAGE" /\ done.pg.next = pg.next
      /\ \A w \in Values : Total(db.file, w) <= Total(done.db.file, w) + One(w, row)
  BY <1>3 DEF RowGone, row
<1>5. pg # NoPage /\ pc = "open"
  BY <1>1, DeletableHere
<1>6. ASSUME NEW w \in Values PROVE given'[w] <= Total(done.db.file, w)
  <2>1. given'[w] = IF w = row THEN IF given[w] = 0 THEN 0 ELSE given[w] - 1 ELSE given[w]
    BY <1>1 DEF Minus, Shapes, HistoryShape
  <2>2. done.db.file \in Seq(Onward) /\ db.file \in Seq(Onward)
    BY <1>4, KeptFields DEF Tidy
  <2>3. Total(done.db.file, w) \in Nat /\ Total(db.file, w) \in Nat
    BY <2>2, TotalNat
  <2>4. given[w] \in Nat /\ given[w] <= Total(db.file, w)
    BY KeptFields
  <2>5. Total(db.file, w) <= Total(done.db.file, w) + One(w, row)
    BY <1>4
  <2> QED
    BY <2>1, <2>3, <2>4, <2>5 DEF One
<1>7. pg' # NoPage => pg'.page_type = "ROW_PAGE" /\ pg'.next \in RowPlaces(Len(db.file))
  BY <1>1, <1>4, <1>5 DEF Kept, KeptProgram
<1>8. Len(db.file) <= Len(done.db.file)
  BY <1>4, KeptFields
<1> QED
  BY <1>1, <1>4, <1>5, <1>6, <1>7, <1>8, TidyKept

(* An update that moves a row keeps the chain, unless it does harm.        *)
LEMMA MoveKept ==
    ASSUME Shapes, Kept, NEW i, NEW v \in Values, UpdateMoves(i, v), harm' = {} PROVE Kept'
<1> DEFINE cut  == deleteData(db, tbl, pg, i, TRUE)
           done == insertData(cut.db, cut.tbl, v, TRUE, TRUE)
           row  == pg.rows[i]
<1>1. /\ Deletable(i) /\ Write(done.db) /\ tbl' = done.tbl /\ pg' = cut.pg /\ pc' = pc
      /\ harm' = harm \cup (If(cut.pg = NoPage, "emptied") \cup If(Stale, "stale")
                            \cup If(Wraps(cut.db, cut.tbl, v), "wrapped"))
      /\ given' = [w \in Values |-> given[w] + (IF w = v THEN 1 ELSE 0)
                                    - (IF w = row /\ given[w] > 0 THEN 1 ELSE 0)]
  BY DEF UpdateMoves, Harmed
<1>2. cut.pg # NoPage /\ ~Stale
  BY <1>1 DEF If
<1>3. RowGone(db, tbl, pg, i, cut)
  BY <1>1, <1>2, DeletedTidy
<1> HIDE DEF cut, row
<1>4. /\ Tidy(cut.db, cut.tbl) /\ Len(cut.db.file) = Len(db.file)
      /\ cut.pg.page_type = "ROW_PAGE" /\ cut.pg.next = pg.next
      /\ \A w \in Values : Total(db.file, w) <= Total(cut.db.file, w) + One(w, row)
  BY <1>3 DEF RowGone, row
<1>5. /\ Tidy(done.db, done.tbl) /\ Len(cut.db.file) <= Len(done.db.file)
      /\ \A w \in Values : Total(cut.db.file, w) + One(w, v) <= Total(done.db.file, w)
  BY <1>4, InsertTidy
<1> HIDE DEF done
<1>6. pg # NoPage /\ pc = "open"
  BY <1>1, DeletableHere
<1>7. ASSUME NEW w \in Values PROVE given'[w] <= Total(done.db.file, w)
  <2>1. given'[w] = given[w] + (IF w = v THEN 1 ELSE 0)
                    - (IF w = row /\ given[w] > 0 THEN 1 ELSE 0)
    BY <1>1
  <2>2. /\ done.db.file \in Seq(Onward) /\ db.file \in Seq(Onward)
        /\ cut.db.file \in Seq(Onward)
    BY <1>4, <1>5, KeptFields DEF Tidy
  <2>3. /\ Total(done.db.file, w) \in Nat /\ Total(db.file, w) \in Nat
        /\ Total(cut.db.file, w) \in Nat
    BY <2>2, TotalNat
  <2>4. given[w] \in Nat /\ given[w] <= Total(db.file, w)
    BY KeptFields
  <2>5. /\ Total(db.file, w) <= Total(cut.db.file, w) + One(w, row)
        /\ Total(cut.db.file, w) + One(w, v) <= Total(done.db.file, w)
    BY <1>4, <1>5
  <2> QED
    BY <2>1, <2>3, <2>4, <2>5 DEF One
<1>8. pg' # NoPage => pg'.page_type = "ROW_PAGE" /\ pg'.next \in RowPlaces(Len(db.file))
  BY <1>1, <1>4, <1>6 DEF Kept, KeptProgram
<1>9. Len(db.file) <= Len(done.db.file)
  BY <1>4, <1>5, KeptFields
<1> QED
  BY <1>1, <1>5, <1>6, <1>7, <1>8, <1>9, TidyKept

(* The first thing a file gets is the page of its table.                   *)
LEMMA CreateTableKept ==
    ASSUME Shapes, Kept, CreateTable PROVE Kept'
<1>1. /\ pc = "open" /\ pc' = pc /\ db.first_table_page = 0
      /\ pg' = pg /\ given' = given
  BY DEF CreateTable, Program, history
<1>2. PICK name \in Names :
        LET d == createTable(db, name, TRUE)
        IN  Write(d) /\ tbl' = readTable(d, d.first_table_page)
  BY DEF CreateTable
<1> DEFINE d == createTable(db, name, TRUE)
           c == createPage(db)
           u == [st |-> "live", name |-> name, page_number |-> 1,
                 next_table |-> 0, prev_table |-> 0,
                 first_row_page |-> 0, free_place |-> 0, iterator |-> 0]
           p == TablePage(u)
<1>3. /\ db.file = <<>> /\ db.number_of_pages = 0 /\ db.first_free_page = 0
      /\ db.file \in Seq(Onward) /\ Len(db.file) = 0
  <2>1. Heads(db, db.file) /\ db.file \in Seq(Onward) /\ Len(db.file) \in Nat
    BY <1>1, KeptFields
  <2>2. Len(db.file) = 0
    BY <1>1, <2>1 DEF Heads
  <2> QED
    BY <2>1, <2>2, EmptySeq DEF Heads
<1>4. c = [number_of_pages |-> 1, first_free_page |-> 0, first_table_page |-> 0,
           file |-> <<ZeroPage>>]
  <2>1. c = [db EXCEPT !.number_of_pages = 1, !.file = <<ZeroPage>>]
    BY <1>3 DEF createPage
  <2>2. db \in Database
    BY KeptFields
  <2> HIDE DEF c
  <2> QED
    BY <1>1, <1>3, <2>1, <2>2 DEF Database
<1>5. d = [saveTable(c, u, TRUE) EXCEPT !.first_table_page = 1]
  <2>1. getFreePage(db) = [db |-> c, page_number |-> 1]
    <3>1. c.number_of_pages = 1
      BY <1>4
    <3> HIDE DEF c
    <3> QED
      BY <1>3, <3>1 DEF getFreePage, c
  <2> HIDE DEF c
  <2> QED
    BY <1>1, <2>1 DEF createTable
<1> HIDE DEF c
<1>6. d = [number_of_pages |-> 1, first_free_page |-> 0, first_table_page |-> 1,
           file |-> <<p>>]
  <2> HIDE DEF p
  <2>1. saveTable(c, u, TRUE) = [number_of_pages |-> 1, first_free_page |-> 0,
                                 first_table_page |-> 0, file |-> <<p>>]
    <3>1. saveTable(c, u, TRUE) = [c EXCEPT !.file = [@ EXCEPT ![1] = p]]
      BY DEF saveTable, WritePage, PutPage, p
    <3> HIDE DEF u
    <3>2. [<<ZeroPage>> EXCEPT ![1] = p] = <<p>>
      OBVIOUS
    <3> QED
      BY <1>4, <3>1, <3>2
  <2> DEFINE e == saveTable(c, u, TRUE)
  <2>2. /\ d = [e EXCEPT !.first_table_page = 1]
        /\ e = [number_of_pages |-> 1, first_free_page |-> 0,
                first_table_page |-> 0, file |-> <<p>>]
    BY <1>5, <2>1
  <2> HIDE DEF d, e
  <2> QED
    BY <2>2
<1>7. name # NoName /\ u \in Handle
  BY NamesAssumption DEF Handle
<1>8. p \in Onward /\ Heading(p, 1)
  <2>1. p \in Onward
    BY <1>7, TablePageOnward
  <2>2. Top(1) = 0 /\ 0 \in RowPlaces(1)
    BY DEF Top, RowPlaces
  <2> QED
    BY <1>7, <2>1, <2>2 DEF Heading, TablePage
<1>9. d \in Database /\ d.file \in Seq(Onward) /\ Len(d.file) = 1 /\ d.file[1] = p
  <2>1. p \in Page
    BY <1>8, OnwardFields
  <2> HIDE DEF d, p
  <2>2. <<p>> \in Seq(Page) /\ <<p>> \in Seq(Onward) /\ Len(<<p>>) = 1 /\ <<p>>[1] = p
    BY <1>8, <2>1
  <2> QED
    BY <1>6, <2>2 DEF Database
<1> HIDE DEF d, p
<1>0. Write(d) /\ tbl' = readTable(d, d.first_table_page)
  BY <1>2 DEF d
<1>10. db' = d /\ eof' = 1
  <2>1. Len(db.file) <= Len(d.file)
    BY <1>3, <1>9
  <2> QED
    BY <1>0, <1>9, <2>1, WrittenWhole
<1>11. Chain(d.file) /\ Heads(d, d.file)
  BY <1>6, <1>8, <1>9 DEF Chain, Heads
<1>12. ASSUME NEW v \in Values PROVE given'[v] <= Total(d.file, v)
  <2>1. Total(db.file, v) = 0 /\ Total(d.file, v) \in Nat
    BY <1>3, <1>9, TotalNone, TotalNat
  <2>2. given[v] \in Nat /\ given[v] <= Total(db.file, v)
    BY KeptFields
  <2> QED
    BY <1>1, <2>1, <2>2
<1>13. TablePage(tbl') = p
  <2>1. tbl' = readTable(d, 1)
    BY <1>0, <1>6
  <2> QED
    BY <1>9, <2>1 DEF readTable, TablePage, p
<1>14. pg' = NoPage
  BY <1>1 DEF Shapes, ProgramShape
<1> QED
  <2>1. KeptFile'
    BY <1>9, <1>10, <1>11, <1>12 DEF KeptFile
  <2>2. KeptHeader'
    BY <1>1, <1>10, <1>11 DEF KeptHeader
  <2>3. KeptProgram'
    BY <1>9, <1>10, <1>13, <1>14 DEF KeptProgram
  <2>4. KeptCopy'
    BY <1>1 DEF KeptCopy
  <2> QED
    BY <2>1, <2>2, <2>3, <2>4 DEF Kept

(* The struct findTable makes is the table on page 1.                      *)
LEMMA FindTableKept ==
    ASSUME Shapes, Kept, FindTable PROVE Kept'
<1> DEFINE n == Len(db.file)
<1>1. /\ pc = "open" /\ n \in Nat /\ eof = n /\ Heads(db, db.file)
      /\ db' = db /\ saved' = saved /\ eof' = eof /\ given' = given /\ harm' = harm
      /\ Chain(db.file) /\ db.file \in Seq(Onward)
  BY KeptFields DEF FindTable, file, history
<1>2. KeptFile'
  BY <1>1 DEF Kept, KeptFile
<1>3. CASE n = 0
  <2>1. db.first_table_page = 0
    BY <1>1, <1>3 DEF Heads
  <2>2. tbl' = NullHandle /\ pc' = pc /\ pg' = pg
    BY <2>1 DEF FindTable
  <2>3. KeptHeader' /\ KeptCopy'
    BY <1>1, <2>2 DEF KeptHeader, KeptCopy
  <2>4. KeptProgram'
    BY <1>1, <2>2 DEF Kept, KeptProgram, NullHandle
  <2> QED
    BY <1>2, <2>3, <2>4 DEF Kept
<1>4. CASE n # 0
  <2> DEFINE p == db.file[1]
  <2>1. /\ db.first_table_page = 1 /\ 1 <= eof /\ Heading(p, n) /\ p \in Onward
    <3>1. 1 \in 1 .. n
      BY <1>1, <1>4
    <3> QED
      BY <1>1, <1>4, <3>1, ElementOfSeq DEF Heads, Chain
  <2>2. tbl' = readTable(db, 1) /\ pc' = pc /\ pg' = pg
    BY <2>1 DEF FindTable, Heading
  <2>3. KeptHeader' /\ KeptCopy'
    BY <1>1, <2>2 DEF KeptHeader, KeptCopy
  <2>4. TablePage(tbl') = p
    <3>1. TablePage(tbl') =
            [page_type |-> "TABLE_PAGE", page_number |-> p.page_number,
             next |-> p.next, prev |-> p.prev, next_free |-> p.next_free,
             free_space |-> 0, rows |-> <<>>, name |-> p.name,
             free_place |-> p.free_place]
      BY <2>2 DEF readTable, TablePage
    <3>2. p.page_type = "TABLE_PAGE" /\ p.rows = <<>> /\ p.free_space = 0
      BY <2>1 DEF Heading
    <3> HIDE DEF p
    <3> QED
      BY <2>1, <3>1, <3>2 DEF Onward, Page
  <2>5. KeptProgram'
    BY <1>1, <1>4, <2>2, <2>4 DEF Kept, KeptProgram
  <2> QED
    BY <1>2, <2>3, <2>5 DEF Kept
<1> QED
  BY <1>3, <1>4

(* A page that is read by following the list is a row page with a link     *)
(* into it.                                                                *)
LEMMA ReadPageKept ==
    ASSUME Shapes, Kept, ReadPage PROVE Kept'
<1> DEFINE N == Len(db.file)
<1>1. /\ pc = "open" /\ pc' = pc /\ N \in Nat /\ N # 0 /\ eof = N
      /\ db' = db /\ saved' = saved /\ eof' = eof /\ given' = given /\ tbl' = tbl
      /\ Chain(db.file) /\ db.file \in Seq(Onward) /\ TablePage(tbl) = db.file[1]
  BY KeptFields DEF ReadPage, Program, file, history, Kept, KeptProgram
<1>2. PICK n \in {tbl.first_row_page} \cup {p.next : p \in {pg} \ {NoPage}} :
        /\ n # 0
        /\ \/ Readable(db, eof, n) /\ pg' = readRowPage(db, n)
           \/ n > eof /\ pg' = NoPage
  BY DEF ReadPage
<1>3. n \in RowPlaces(N)
  <2>1. tbl.first_row_page = Top(N)
    <3>1. Heading(TablePage(tbl), N)
      BY <1>1 DEF Chain
    <3> QED
      BY <3>1 DEF Heading, TablePage
  <2>2. Top(N) \in RowPlaces(N)
    BY <1>1 DEF Top, RowPlaces
  <2>3. pg # NoPage => pg.next \in RowPlaces(N)
    BY DEF Kept, KeptProgram
  <2> QED
    BY <1>2, <2>1, <2>2, <2>3
<1>4. n \in 2 .. N /\ n \in 1 .. N
  BY <1>1, <1>2, <1>3 DEF RowPlaces
<1>5. pg' = readRowPage(db, n)
  BY <1>1, <1>2, <1>4
<1>6. pg'.page_type = "ROW_PAGE" /\ pg'.next \in RowPlaces(N)
  <2> DEFINE p == db.file[n]
  <2>1. p \in Onward /\ Link(p, n, N)
    BY <1>1, <1>4, ElementOfSeq DEF Chain
  <2>2. pg' = [p EXCEPT !.name = NoName, !.free_place = 0]
    BY <1>5 DEF readRowPage
  <2>3. Top(n - 1) \in RowPlaces(N)
    BY <1>1, <1>4 DEF Top, RowPlaces
  <2> HIDE DEF p
  <2>4. pg'.page_type = p.page_type /\ pg'.next = p.next
    BY <2>1, <2>2 DEF Onward, Page
  <2> QED
    BY <2>1, <2>3, <2>4 DEF Link
<1>7. KeptFile' /\ KeptHeader' /\ KeptCopy'
  BY <1>1 DEF Kept, KeptFile, KeptHeader, KeptCopy
<1>8. KeptProgram'
  BY <1>1, <1>6 DEF Kept, KeptProgram
<1> QED
  BY <1>7, <1>8 DEF Kept

(* No page of such a file, and no header of it, names one beyond its end.  *)
LEMMA NamedWithin ==
    ASSUME NEW f \in Seq(Onward), Chain(f), NEW h, Heads(h, f)
    PROVE  Named(h, f) \subseteq 0 .. Len(f)
<1> DEFINE n == Len(f)
<1>1. n \in Nat /\ DOMAIN f = 1 .. n
  BY LenProperties
<1>2. {h.number_of_pages, h.first_free_page, h.first_table_page} \subseteq 0 .. n
  BY <1>1 DEF Heads
<1>3. ASSUME NEW m \in 1 .. n
      PROVE  {f[m].next, f[m].prev, f[m].next_free, f[m].free_place} \subseteq 0 .. n
  <2>1. f[m].prev = 0
    BY ElementOfSeq DEF Onward
  <2>2. RowPlaces(n) \subseteq 0 .. n /\ Top(n) \in 0 .. n /\ Top(m - 1) \in 0 .. n
        /\ 0 \in 0 .. n
    BY <1>1 DEF RowPlaces, Top
  <2>3. CASE m = 1
    <3>1. Heading(f[m], n)
      BY <1>1, <2>3 DEF Chain
    <3> QED
      BY <2>1, <2>2, <3>1 DEF Heading
  <2>4. CASE m # 1
    <3>1. m \in 2 .. n
      BY <1>1, <2>4
    <3>2. Link(f[m], m, n)
      BY <3>1 DEF Chain
    <3> QED
      BY <2>1, <2>2, <3>2 DEF Link
  <2> QED
    BY <2>3, <2>4
<1>4. ASSUME NEW p \in ToSet(f)
      PROVE  {p.next, p.prev, p.next_free, p.free_place} \subseteq 0 .. n
  <2>1. PICK m \in 1 .. n : p = f[m]
    BY <1>1 DEF ToSet
  <2> QED
    BY <1>3, <2>1
<1>5. UNION {{p.next, p.prev, p.next_free, p.free_place} : p \in ToSet(f)} \subseteq 0 .. n
  BY <1>4
<1> QED
  BY <1>2, <1>5 DEF Named

(* openDatabase reads the header that was saved.                           *)
LEMMA OpenKept ==
    ASSUME Shapes, Kept, OpenDatabase PROVE Kept'
<1> DEFINE n      == Len(db.file)
           pages  == SubSeq(db.file, 1, eof)
           length == Max({eof} \cup Named(saved, pages))
<1>1. /\ pc = "off" /\ saved # NoHeader /\ n \in Nat /\ eof = n /\ db.file \in Seq(Onward)
      /\ Chain(db.file) /\ Heads(saved, db.file)
      /\ pc' = "open" /\ eof' = eof /\ given' = given /\ tbl' = tbl /\ pg' = pg
      /\ db' = [number_of_pages |-> saved.number_of_pages,
                first_free_page |-> saved.first_free_page,
                first_table_page |-> saved.first_table_page,
                file |-> [m \in 1 .. length |->
                            IF m <= eof THEN db.file[m] ELSE ZeroPage]]
  BY KeptFields DEF OpenDatabase, Kept, KeptHeader
<1>2. pages = db.file
  <2>2. 1 \in 1 .. n + 1 /\ n \in 0 .. n
    BY <1>1
  <2>3. /\ Len(pages) = n /\ pages \in Seq(Onward)
        /\ \A m \in 1 .. n : pages[m] = db.file[m]
    <3>1. \A m \in 1 .. n : 1 + m - 1 = m
      BY <1>1
    <3>2. /\ Len(SubSeq(db.file, 1, n)) = n /\ SubSeq(db.file, 1, n) \in Seq(Onward)
          /\ \A m \in 1 .. n : SubSeq(db.file, 1, n)[m] = db.file[m]
      BY <1>1
    <3> QED
      BY <1>1, <3>2
  <2> QED
    BY <1>1, <2>3, SeqEqual
<1>3. length = n
  <2> DEFINE T == {n} \cup Named(saved, db.file)
  <2>1. T \subseteq 0 .. n
    BY <1>1, NamedWithin
  <2> HIDE DEF T
  <2>2. n \in T /\ T # {}
    BY DEF T
  <2>3. Max(T) \in T /\ \A y \in T : y <= Max(T)
    BY <1>1, <2>1, <2>2, LargestNat
  <2>4. Max(T) \in 0 .. n /\ n <= Max(T)
    BY <2>1, <2>2, <2>3
  <2>5. Max(T) = n
    BY <1>1, <2>4
  <2>6. length = Max(T)
    BY <1>1, <1>2 DEF T
  <2> QED
    BY <2>5, <2>6
<1> HIDE DEF length, pages
<1>4. db'.file = db.file
  <2>1. db'.file = [m \in 1 .. n |-> IF m <= n THEN db.file[m] ELSE ZeroPage]
    BY <1>1, <1>3
  <2>2. \A m \in 1 .. n : m <= n
    BY <1>1
  <2>3. db'.file = [m \in 1 .. n |-> db.file[m]]
    BY <2>1, <2>2
  <2>4. db.file = [m \in 1 .. n |-> db.file[m]]
    BY <1>1
  <2> QED
    BY <2>3, <2>4
<1>5. Heads(db', db.file)
  BY <1>1 DEF Heads
<1>6. tbl' = NullHandle /\ pg' = NoPage
  BY <1>1 DEF Shapes, ProgramShape
<1>7. KeptFile'
  BY <1>1, <1>4 DEF Kept, KeptFile
<1>8. KeptHeader'
  BY <1>1, <1>4, <1>5 DEF KeptHeader
<1>9. KeptProgram' /\ KeptCopy'
  BY <1>1, <1>6 DEF KeptProgram, KeptCopy, NullHandle
<1> QED
  BY <1>7, <1>8, <1>9 DEF Kept

(* closeDatabase begins to copy from the first page on.                    *)
LEMMA CloseKept ==
    ASSUME Shapes, Kept, CloseDatabase, harm' = {} PROVE Kept'
<1>1. /\ pc = "open" /\ pc' = "copying" /\ copy' = <<>> /\ at' = 1
      /\ db' = db /\ saved' = saved /\ eof' = eof /\ given' = given
      /\ tbl' = NullHandle /\ pg' = NoPage
  BY DEF CloseDatabase, file
<1>2. offset' = 0
  BY DEF CloseDatabase, Harmed, If
<1>3. KeptFile' /\ KeptHeader' /\ KeptProgram'
  BY <1>1 DEF Kept, KeptFile, KeptHeader, KeptProgram, NullHandle
<1>4. KeptCopy'
  <2>1. Len(db.file) \in Nat
    BY KeptFields
  <2>2. Alike(<<>>, db.file)
    BY DEF Alike
  <2> QED
    BY <1>1, <1>2, <2>1, <2>2 DEF KeptCopy
<1> QED
  BY <1>3, <1>4 DEF Kept

(* No page of the file is free, and each is copied.                        *)
LEMMA CopyKept ==
    ASSUME Shapes, Kept, CopyPage, harm' = {} PROVE Kept'
<1> DEFINE n     == Len(db.file)
           page  == IF at <= eof THEN db.file[at] ELSE buf
           moved == [page EXCEPT !.page_number = (@ - offset) % UINT32]
<1>1. /\ pc = "copying" /\ pc' = pc /\ n \in Nat /\ eof = n /\ Chain(db.file)
      /\ db.file \in Seq(Onward) /\ copy \in Seq(Onward)
      /\ saved' = saved /\ eof' = eof /\ given' = given /\ tbl' = tbl /\ pg' = pg
      /\ at' = at + 1 /\ at \in Nat
      /\ offset = 0 /\ Len(copy) + 1 = at /\ Alike(copy, db.file)
      /\ Len(copy) \in Nat
  BY KeptFields, LenProperties DEF CopyPage, Shapes, ClosingShape, Kept, KeptCopy
<1>2. at <= eof
  <2>1. harm' = harm \cup If(at > eof, "past end")
    BY ZenonT(30) DEF CopyPage, Harmed
  <2>2. ASSUME NEW c, NEW what, If(c, what) = {} PROVE ~c
    BY <2>2 DEF If
  <2>3. If(at > eof, "past end") = {}
    BY <2>1, ZenonT(30)
  <2>4. ~(at > eof)
    BY <2>2, <2>3, ZenonT(30)
  <2> QED
    BY <1>1, <2>4
<1>3. at \in 1 .. n /\ page = db.file[at] /\ page \in Onward
  <2>1. at \in 1 .. n
    BY <1>1, <1>2
  <2>2. page = db.file[at]
    BY <1>2
  <2> HIDE DEF page
  <2> QED
    BY <1>1, <2>1, <2>2, ElementOfSeq
<1>4. page.page_type # "FREE_PAGE"
  <2>1. CASE at = 1
    <3>1. Heading(db.file[1], n)
      BY <1>1, <1>3, <2>1 DEF Chain
    <3> HIDE DEF page
    <3> QED
      BY <1>3, <2>1, <3>1 DEF Heading
  <2>2. CASE at # 1
    <3>1. at \in 2 .. n
      BY <1>1, <1>3, <2>2
    <3>2. Link(db.file[at], at, n)
      BY <1>1, <3>1 DEF Chain
    <3> HIDE DEF page
    <3> QED
      BY <1>3, <3>2 DEF Link
  <2> QED
    BY <2>1, <2>2
<1>5. copy' = Append(copy, moved) /\ db' = db /\ offset' = offset
  BY <1>4 DEF CopyPage
<1>6. moved = [db.file[at] EXCEPT !.page_number = moved.page_number] /\ moved \in Onward
  <2> DEFINE k == (page.page_number - offset) % UINT32
  <2>1. k \in Nat
    <3>1. page.page_number - offset \in Int
      <4> HIDE DEF page
      <4> QED
        BY <1>1, <1>3, OnwardFields
    <3>2. UINT32 \in Nat \ {0}
      BY GarbageAssumption
    <3> HIDE DEF page
    <3> QED
      BY <3>1, <3>2
  <2>2. moved = [page EXCEPT !.page_number = k]
    OBVIOUS
  <2> HIDE DEF page, k, moved
  <2>3. moved.page_number = k /\ moved \in Onward
    BY <1>3, <2>1, <2>2 DEF Onward, Page
  <2> QED
    BY <1>3, <2>2, <2>3
<1> HIDE DEF page, moved
<1>7. Len(copy') = at /\ Alike(copy', db.file)
  <2>1. /\ Len(Append(copy, moved)) = Len(copy) + 1
        /\ \A m \in 1 .. Len(copy) : Append(copy, moved)[m] = copy[m]
        /\ Append(copy, moved)[Len(copy) + 1] = moved
    BY <1>1, <1>6, AppendProperties
  <2>2. Len(copy') = at
    BY <1>1, <1>5, <2>1
  <2>3. ASSUME NEW m \in 1 .. at
        PROVE  copy'[m] = [db.file[m] EXCEPT !.page_number = copy'[m].page_number]
    <3>1. CASE m = at
      BY <1>1, <1>5, <1>6, <2>1, <3>1
    <3>2. CASE m # at
      <4>1. m \in 1 .. Len(copy)
        BY <1>1, <3>2
      <4>2. copy'[m] = copy[m]
        BY <1>5, <2>1, <4>1
      <4>3. copy[m] = [db.file[m] EXCEPT !.page_number = copy[m].page_number]
        BY <1>1, <4>1 DEF Alike
      <4> QED
        BY <4>2, <4>3
    <3> QED
      BY <3>1, <3>2
  <2> QED
    BY <2>2, <2>3 DEF Alike
<1>8. KeptFile' /\ KeptHeader' /\ KeptProgram'
  BY <1>1, <1>5 DEF Kept, KeptFile, KeptHeader, KeptProgram
<1>9. KeptCopy'
  BY <1>1, <1>3, <1>5, <1>7 DEF KeptCopy
<1> QED
  BY <1>8, <1>9 DEF Kept

(* The header that is saved is the one of the file that was copied.        *)
LEMMA SaveKept ==
    ASSUME Shapes, Kept, SaveDatabase PROVE Kept'
<1>1. /\ pc = "copying" /\ pc' = "copied" /\ at > db.number_of_pages
      /\ db' = db /\ saved' = saved /\ eof' = eof /\ given' = given /\ tbl' = tbl
      /\ pg' = pg /\ copy' = copy
  BY DEF SaveDatabase, file, closing, history
<1>2. KeptFile' /\ KeptHeader' /\ KeptProgram'
  BY <1>1 DEF Kept, KeptFile, KeptHeader, KeptProgram
<1>3. KeptCopy'
  <2>1. /\ Len(copy) + 1 = at /\ at <= Len(db.file) + 1 /\ Alike(copy, db.file)
        /\ db.number_of_pages = Len(db.file) /\ Len(db.file) \in Nat /\ Len(copy) \in Nat
    BY <1>1, KeptFields, LenProperties DEF Kept, KeptHeader, KeptCopy, Heads, Shapes, ClosingShape
  <2>2. Len(copy) = Len(db.file)
    BY <1>1, <2>1
  <2> QED
    BY <1>1, <2>1, <2>2 DEF KeptCopy
<1> QED
  BY <1>2, <1>3 DEF Kept

(* The copy is complete when the old file is removed.                      *)
LEMMA RemoveKept ==
    ASSUME Shapes, Kept, RemoveOld PROVE Kept'
<1>1. /\ pc = "copied" /\ pc' = "removed"
      /\ db' = db /\ eof' = eof /\ given' = given /\ tbl' = tbl
      /\ pg' = pg /\ copy' = copy
  BY DEF RemoveOld, closing, history
<1> QED
  BY <1>1 DEF Kept, KeptFile, KeptHeader, KeptProgram, KeptCopy

(* The copy is the file afterwards, and its rows are those of the old      *)
(* one.                                                                    *)
LEMMA RenameKept ==
    ASSUME Shapes, Kept, RenameNew PROVE Kept'
<1>1. /\ pc = "removed" /\ pc' = "off" /\ tbl' = NullHandle /\ pg' = NoPage
      /\ saved' = Header(db) /\ db' = [createDatabase EXCEPT !.file = copy]
      /\ eof' = Len(copy) /\ given' = given
  BY DEF RenameNew, Gone, history
<1>2. /\ Len(copy) = Len(db.file) /\ Alike(copy, db.file) /\ Chain(db.file)
      /\ Heads(db, db.file) /\ copy \in Seq(Onward) /\ db.file \in Seq(Onward)
  BY <1>1, KeptFields DEF Kept, KeptCopy, Shapes, ClosingShape
<1>3. Chain(copy) /\ \A v : Total(copy, v) = Total(db.file, v)
  BY <1>2, AlikeKeeps
<1>4. db'.file = copy
  BY <1>1 DEF createDatabase
<1>5. Heads(Header(db), copy)
  BY <1>2 DEF Heads, Header
<1>6. Header(db) # NoHeader
  <2>1. Header(db).number_of_pages \in Nat
    BY KeptFields DEF Header, Database
  <2>2. NoHeader.number_of_pages \notin Nat
    BY DEF NoHeader
  <2> QED
    BY <2>1, <2>2
<1>7. KeptFile'
  BY <1>1, <1>3, <1>4, KeptFields DEF KeptFile
<1>8. KeptHeader'
  BY <1>1, <1>4, <1>5, <1>6 DEF KeptHeader
<1>9. KeptProgram' /\ KeptCopy'
  BY <1>1 DEF KeptProgram, KeptCopy, NullHandle
<1> QED
  BY <1>7, <1>8, <1>9 DEF Kept

(* A file newly created has no rows, and none are given.                   *)
LEMMA CreateKept ==
    ASSUME Shapes, CreateDatabase PROVE Kept'
<1>1. /\ pc = "off" /\ pc' = "open" /\ db' = createDatabase /\ eof' = 0 /\ copy' = <<>>
      /\ given' = NoRows /\ tbl' = tbl /\ pg' = pg
  BY DEF CreateDatabase
<1>2. tbl' = NullHandle /\ pg' = NoPage
  BY <1>1 DEF Shapes, ProgramShape
<1>3. /\ createDatabase.file = <<>> /\ Len(<<>>) = 0 /\ Chain(<<>>)
      /\ Heads(createDatabase, <<>>)
  BY DEF createDatabase, Chain, Heads
<1>4. \A v \in Values : NoRows[v] <= Total(<<>>, v)
  <2>1. \A v \in Values : NoRows[v] = 0 /\ Total(<<>>, v) = 0
    BY TotalNone DEF NoRows
  <2> QED
    BY <2>1
<1>5. KeptFile'
  BY <1>1, <1>3, <1>4 DEF KeptFile
<1>6. KeptHeader' /\ KeptCopy'
  BY <1>1, <1>3 DEF KeptHeader, KeptCopy
<1>7. KeptProgram'
  BY <1>2 DEF KeptProgram, NullHandle
<1> QED
  BY <1>5, <1>6, <1>7 DEF Kept

\* The library never finds a link beyond the end of such a file.
LEMMA NoNullLink ==
    ASSUME Shapes, Kept PROVE ~InsertNull /\ ~DeleteNull
<1> DEFINE n == Len(db.file)
<1>1. n \in Nat /\ eof = n /\ Chain(db.file) /\ \A k \in RowPlaces(n) : k <= n
  BY KeptFields DEF RowPlaces
<1>2. ASSUME InsertNull PROVE FALSE
  <2>1. tbl.free_place > eof /\ n # 0 /\ TablePage(tbl) = db.file[1]
    BY <1>2 DEF InsertNull, Writing, Kept, KeptProgram
  <2>2. Heading(TablePage(tbl), n)
    BY <2>1 DEF Kept, KeptFile, Chain
  <2>3. tbl.free_place \in RowPlaces(n)
    BY <2>2 DEF Heading, TablePage
  <2>4. tbl.free_place <= n
    BY <1>1, <2>3
  <2>5. tbl.free_place \in Nat
    BY DEF Shapes, ProgramShape, Handle
  <2> QED
    BY <1>1, <2>1, <2>4, <2>5
<1>3. ASSUME DeleteNull PROVE FALSE
  <2>1. pg # NoPage /\ pg.next > eof
    BY <1>3 DEF DeleteNull
  <2>2. pg.next \in RowPlaces(n)
    BY <2>1 DEF Kept, KeptProgram
  <2>3. pg.next <= n /\ pg.next \in Nat
    BY <1>1, <2>2 DEF RowPlaces
  <2> QED
    BY <1>1, <2>1, <2>3
<1> QED
  BY <1>2, <1>3

(* Every step keeps KeptInv.                                               *)
LEMMA NextKept ==
    ASSUME Shapes, RowInv, KeptInv, [Next]_vars PROVE KeptInv'
<1> SUFFICES ASSUME harm' = {} PROVE Kept'
  BY DEF KeptInv
<1>1. CASE CreateDatabase
  BY <1>1, CreateKept
<1>2. CASE ~CreateDatabase
  <2>1. harm = {}
    <3>1. CASE UNCHANGED vars
      BY <3>1 DEF vars, history
    <3>2. CASE Next
      BY <1>2, <3>2
         DEF Next, OpenDatabase, CreateTable, FindTable, ReadPage, InsertData,
             KilledInserting, InsertNull, DeleteData, KilledDeleting, DeleteNull,
             UpdateInMemory, UpdateMoves, CloseDatabase, CopyPage, SaveDatabase,
             RemoveOld, RenameNew, Killed, SecondServer, Harmed, history
    <3> QED
      BY <3>1, <3>2
  <2>2. Kept
    BY <2>1 DEF KeptInv
  <2>3. CASE UNCHANGED vars
    BY <2>2, <2>3 DEF vars, file, closing, history, Kept, KeptFile, KeptHeader,
                      KeptProgram, KeptCopy
  <2>4. ASSUME \/ \E v \in Values : KilledInserting(v)
               \/ \E i \in 1 .. MaxInserts : KilledDeleting(i)
               \/ \E i \in 1 .. MaxInserts, v \in Values : UpdateInMemory(i, v)
               \/ Killed \/ SecondServer
        PROVE  FALSE
    BY <2>4 DEF KilledInserting, KilledDeleting, UpdateInMemory, Killed, SecondServer, Harmed
  <2>5. CASE Next
    <3>1. CASE OpenDatabase
      BY <2>2, <3>1, OpenKept
    <3>2. CASE CreateTable
      BY <2>2, <3>2, CreateTableKept
    <3>3. CASE FindTable
      BY <2>2, <3>3, FindTableKept
    <3>4. CASE ReadPage
      BY <2>2, <3>4, ReadPageKept
    <3>5. ASSUME NEW v \in Values, InsertData(v) PROVE Kept'
      BY <2>2, <3>5, InsertKept
    <3>6. ASSUME NEW i \in 1 .. MaxInserts, DeleteData(i) PROVE Kept'
      BY <2>2, <3>6, DeleteKept
    <3>7. ASSUME NEW i \in 1 .. MaxInserts, NEW v \in Values, UpdateMoves(i, v) PROVE Kept'
      BY <2>2, <3>7, MoveKept
    <3>8. CASE CloseDatabase
      BY <2>2, <3>8, CloseKept
    <3>9. CASE CopyPage
      BY <2>2, <3>9, CopyKept
    <3>10. CASE SaveDatabase
      BY <2>2, <3>10, SaveKept
    <3>11. CASE RemoveOld
      BY <2>2, <3>11, RemoveKept
    <3>12. CASE RenameNew
      BY <2>2, <3>12, RenameKept
    <3>13. ~InsertNull /\ ~DeleteNull
      BY <2>2, NoNullLink
    <3> QED
      BY <1>2, <2>4, <2>5, <3>1, <3>2, <3>3, <3>4, <3>5, <3>6, <3>7, <3>8, <3>9,
         <3>10, <3>11, <3>12, <3>13 DEF Next
  <2> QED
    BY <2>3, <2>5
<1> QED
  BY <1>1, <1>2

(* KeptInv holds before the first file is created.                         *)
LEMMA InitKept == Init => KeptInv
<1> SUFFICES ASSUME Init PROVE Kept
  BY DEF KeptInv
<1>1. createDatabase.file = <<>> /\ Len(<<>>) = 0 /\ Chain(<<>>)
  BY DEF createDatabase, Chain
<1>2. \A v \in Values : NoRows[v] <= Total(<<>>, v)
  <2>1. \A v \in Values : NoRows[v] = 0 /\ Total(<<>>, v) = 0
    BY TotalNone DEF NoRows
  <2> QED
    BY <2>1
<1> QED
  BY <1>1, <1>2 DEF Init, Kept, KeptFile, KeptHeader, KeptProgram, KeptCopy, NullHandle

(* RowsKept: a program that nothing goes wrong for finds exactly the rows  *)
(* it has handed to the library and not deleted, whatever it inserts,      *)
(* deletes, moves, closes and opens again, in files of every size.         *)
THEOREM StoreRowsKept == Spec => []RowsKept
<1>1. Init => Shapes /\ RowInv /\ KeptInv
  BY InitShapes, InitRows, InitKept
<1>2. Shapes /\ RowInv /\ KeptInv /\ [Next]_vars => (Shapes /\ RowInv /\ KeptInv)'
  <2> SUFFICES ASSUME Shapes, RowInv, KeptInv, [Next]_vars
               PROVE  Shapes' /\ RowInv' /\ KeptInv'
    OBVIOUS
  <2> QED
    BY NextShapes, NextRows, NextKept
<1>3. Shapes /\ RowInv /\ KeptInv => RowsKept
  BY KeptIsKept
<1> QED
  BY <1>1, <1>2, <1>3, PTL DEF Spec

----------------------------------------------------------------------------
(***************************************************************************)
(* DeleteTakesOneRow                                                       *)
(***************************************************************************)
\* e is d, in which page k has been freed.
PageFreed(d, e, k) ==
    /\ e \in Database /\ e.file \in Seq(Onward) /\ Len(e.file) = Len(d.file)
    /\ e.first_table_page = d.first_table_page
    /\ \A m \in 1 .. Len(d.file) : m # k => e.file[m] = d.file[m]
    /\ e.file[k].next = 0 /\ e.file[k].rows = <<>>

\* u is d, with every page as it was.
SameFile(d, u) ==
    /\ u \in Database /\ u.file \in Seq(Onward) /\ Len(u.file) = Len(d.file)
    /\ SameLists(d, u)
    /\ \A m \in 1 .. Len(d.file) : u.file[m] = d.file[m]

(* UnlinkPage writes the page behind the one that is freed as it was.      *)
LEMMA UnlinkSame ==
    ASSUME NEW d, NEW t, Tidy(d, t), NEW k \in 2 .. Len(d.file),
           NEW p, Listed(p, k, Len(d.file))
    PROVE  SameFile(d, UnlinkPage(d, p))
<1> DEFINE n     == Len(d.file)
           u     == UnlinkPage(d, p)
           after == readRowPage(d, p.next)
           q     == [after EXCEPT !.prev = p.prev]
<1>1. /\ n \in Nat /\ d \in Database /\ d.file \in Seq(Onward)
      /\ \A m \in 2 .. n : Listed(d.file[m], m, n)
  BY TidyFields DEF Tidy
<1>2. p.prev = 0 /\ p.next = Top(k - 1)
  BY DEF Listed, Link, Onward
<1>3. u = IF p.next = 0 THEN d ELSE PutPage(d, after.page_number, q)
  BY <1>2 DEF UnlinkPage
<1>4. CASE p.next = 0
  <2>1. u = d
    BY <1>3, <1>4
  <2>2. SameFile(d, d)
    BY <1>1 DEF SameFile, SameLists
  <2> HIDE DEF u
  <2>3. SameFile(d, u)
    BY <2>1, <2>2
  <2> QED
    BY <2>3 DEF u
<1>5. CASE p.next # 0
  <2> DEFINE j == p.next
             r == d.file[j]
  <2>1. j \in 2 .. n /\ j \in Nat
    BY <1>1, <1>2, <1>5 DEF Top
  <2>2. r \in Onward /\ r.page_number = j /\ r.name = NoName /\ r.free_place = 0
    BY <1>1, <2>1 DEF Listed, Link
  <2>3. after = [r EXCEPT !.name = NoName, !.free_place = 0]
    BY DEF readRowPage
  <2>4. after = r /\ q = r
    <3> HIDE DEF r, after
    <3>1. after = r
      BY <2>2, <2>3 DEF Onward, Page
    <3>2. q = [r EXCEPT !.prev = 0]
      BY <1>2, <3>1
    <3> HIDE DEF q
    <3>3. q = r
      BY <2>2, <3>2 DEF Onward, Page
    <3> QED
      BY <3>1, <3>3
  <2> HIDE DEF after, q, u
  <2>5. u = PutPage(d, j, r)
    BY <1>3, <1>5, <2>2, <2>4
  <2> HIDE DEF j
  <2>6. Replaced(d, u, j, r)
    BY <1>1, <2>1, <2>2, <2>5, PageWritten
  <2>7. SameFile(d, u)
    BY <2>6 DEF Replaced, SameFile
  <2> QED
    BY <2>7 DEF u
<1> QED
  BY <1>4, <1>5

(* With the last row of a page, deleteData frees the page, and leaves      *)
(* all others.                                                             *)
LEMMA DeleteFrees ==
    ASSUME NEW d, NEW t, Tidy(d, t), NEW page, page.page_type = "ROW_PAGE",
           NEW k, k = page.page_number, k \in 1 .. Len(d.file), readRowPage(d, k) = page,
           NEW i \in DOMAIN page.rows, Len(page.rows) = 1
    PROVE  PageFreed(d, deleteData(d, t, page, i, TRUE).db, k)
<1> DEFINE n     == Len(d.file)
           s     == FreeRow(t, page, RowLen[page.rows[i]])
           left  == [s.pg EXCEPT !.rows = RemoveAt(@, i)]
           u     == UnlinkPage(d, left)
           freed == [left EXCEPT !.page_type = "FREE_PAGE",
                                 !.next = u.first_free_page, !.rows = <<>>]
           w     == PutPage(u, k, freed)
           e     == [w EXCEPT !.first_free_page = k]
           done  == deleteData(d, t, page, i, TRUE)
<1>1. k \in 2 .. n /\ page = d.file[k] /\ Listed(page, k, n)
  BY TidyPage
<1>2. /\ n \in Nat /\ t \in Handle /\ t.first_row_page = Top(n)
      /\ t.free_place \in RowPlaces(n) /\ d.first_free_page = 0
  BY TidyFields DEF Tidy
<1>3. Following(t, t, n)
  BY <1>2 DEF Following, SameTable
<1>4. RowFreed(t, page, i, s.tbl, left, k, n)
  <2> HIDE DEF n
  <2> QED
    BY <1>1, <1>2, <1>3, FreeRowListed
<1>5. left.rows = <<>>
  <2>1. page.rows \in Seq(Values)
    BY <1>1, OnwardFields DEF Listed
  <2>2. i \in 1 .. Len(page.rows) /\ Len(page.rows) \in Nat
    BY <2>1, LenProperties
  <2>3. /\ RemoveAt(page.rows, i) \in Seq(Values)
        /\ Len(RemoveAt(page.rows, i)) = Len(page.rows) - 1
    BY <2>1, <2>2, RemoveAtEffect
  <2>4. left.rows = RemoveAt(page.rows, i)
    BY <1>4 DEF RowFreed
  <2> DEFINE r == RemoveAt(page.rows, i)
  <2>5. r \in Seq(Values) /\ Len(r) = 0 /\ left.rows = r
    BY <2>3, <2>4
  <2> HIDE DEF left, r
  <2>6. r = <<>> <=> Len(r) = 0
    BY <2>5, EmptySeq
  <2> QED
    BY <2>5, <2>6
<1>6. Listed(left, k, n) /\ left \in Onward /\ left.page_number = k
  BY <1>4 DEF RowFreed, Listed
<1>7. done.db = e
  <2> DEFINE keeps == saveTable(PutPage(d, left.page_number, left), s.tbl, TRUE)
             gone  == freeRowPage(u, left, TRUE)
  <2>1. done = IF left.rows = <<>>
               THEN [db |-> gone, tbl |-> s.tbl, pg |-> NoPage]
               ELSE [db |-> keeps, tbl |-> s.tbl, pg |-> left]
    BY DEF deleteData
  <2>2. gone = [PutPage(u, left.page_number, freed)
                  EXCEPT !.first_free_page = left.page_number]
    BY DEF freeRowPage, WritePage
  <2> HIDE DEF done, left, u, freed, keeps, gone
  <2>3. done.db = gone
    BY <1>5, <2>1
  <2> QED
    BY <1>6, <2>2, <2>3
<1> HIDE DEF s, left, done
<1>8. /\ u \in Database /\ u.file \in Seq(Onward) /\ Len(u.file) = n
      /\ SameLists(d, u) /\ \A m \in 1 .. n : u.file[m] = d.file[m]
  <2>1. SameFile(d, u)
    BY <1>1, <1>6, UnlinkSame
  <2> HIDE DEF u
  <2> QED
    BY <2>1 DEF SameFile
<1> HIDE DEF u
<1>9. freed \in Onward /\ freed.next = 0 /\ freed.rows = <<>>
  <2>1. u.first_free_page = 0 /\ 0 \in Nat
    BY <1>2, <1>8 DEF SameLists
  <2>2. <<>> \in Seq(Values)
    OBVIOUS
  <2> QED
    BY <1>6, <2>1, <2>2 DEF Onward, Page, PageType
<1> HIDE DEF freed
<1>10. Replaced(u, w, k, freed)
  <2>1. k \in Nat
    BY <1>1, <1>2
  <2> QED
    BY <1>8, <1>9, <2>1, PageWritten
<1> HIDE DEF w
<1>11. e \in Database /\ e.file = w.file /\ e.first_table_page = w.first_table_page
  BY <1>1, <1>2, <1>10 DEF Replaced, Database
<1> HIDE DEF e
<1>12. PageFreed(d, e, k)
  BY <1>1, <1>8, <1>9, <1>10, <1>11 DEF PageFreed, Replaced, SameLists
<1> QED
  BY <1>7, <1>12 DEF done

(* The row list that is left ends at the page that was freed.              *)
LEMMA FreedRows ==
    ASSUME NEW d, NEW t, Tidy(d, t), NEW k \in 2 .. Len(d.file),
           NEW e, PageFreed(d, e, k)
    PROVE  LET n == Len(d.file)
           IN  RowsIn(e, e.file, n) =
                 RowsOf(d.file, TableList(d, d.file, n) \ ListFrom(d.file, n, k))
<1> DEFINE n == Len(d.file)
           f == d.file
           g == e.file
<1>1. /\ n \in Nat /\ k \in 1 .. n /\ k # 1 /\ 1 \in 1 .. n /\ k \in Nat /\ Top(n) = n
      /\ f \in Seq(Onward) /\ g \in Seq(Onward) /\ Len(f) = n /\ Len(g) = n
      /\ d.first_table_page = 1 /\ e.first_table_page = 1
  BY TidyFields DEF Tidy, PageFreed, Top
<1>2. f[1].next_free = n /\ g[1].next_free = n
  <2>1. Heading(f[1], n)
    BY <1>1 DEF Tidy, Chain
  <2>2. g[1] = f[1]
    BY <1>1 DEF PageFreed
  <2> QED
    BY <1>1, <2>1, <2>2 DEF Heading
<1>3. \A m \in 2 .. n : f[m].next = Top(m - 1)
  BY DEF Tidy, Chain, Link
<1>4. f[2].next = 0 /\ \A m \in 2 + 1 .. n : f[m].next = m - 1
  <2>1. 2 \in 2 .. n /\ Top(2 - 1) = 0
    BY <1>1 DEF Top
  <2>2. \A m \in 2 + 1 .. n : m \in 2 .. n /\ Top(m - 1) = m - 1
    BY <1>1 DEF Top
  <2> QED
    BY <1>3, <2>1, <2>2
<1>5. g[k].next = 0 /\ \A m \in k + 1 .. n : g[m].next = m - 1
  <2>1. \A m \in k + 1 .. n : m \in 2 + 1 .. n /\ m # k /\ m \in 1 .. n
    BY <1>1
  <2>2. \A m \in 1 .. n : m # k => g[m] = f[m]
    BY DEF PageFreed
  <2>3. g[k].next = 0
    BY DEF PageFreed
  <2> QED
    BY <1>4, <2>1, <2>2, <2>3
<1>6. ListFrom(f, n, n) = 2 .. n
  <2>1. 2 \in Nat /\ 2 # 0 /\ 2 <= n /\ n <= n
    BY <1>1
  <2> QED
    BY <1>1, <1>4, <2>1, ListedDown
<1>7. ListFrom(f, n, k) = 2 .. k
  <2>1. 2 \in Nat /\ 2 # 0 /\ 2 <= k /\ k <= n
    BY <1>1
  <2>2. \A m \in 2 + 1 .. k : f[m].next = m - 1
    BY <1>1, <1>4
  <2> QED
    BY <1>1, <1>4, <2>1, <2>2, ListedDown
<1>8. ListFrom(g, n, n) = k .. n
  <2>1. k # 0 /\ k <= n /\ n <= n
    BY <1>1
  <2> QED
    BY <1>1, <1>5, <2>1, ListedDown
<1>9. TableList(d, f, n) = 2 .. n /\ TableList(e, g, n) = k .. n
  BY <1>1, <1>2, <1>6, <1>8 DEF TableList
<1>10. TableList(d, f, n) \ ListFrom(f, n, k) = k + 1 .. n /\ k .. n = {k} \cup k + 1 .. n
  BY <1>1, <1>7, <1>9
<1> DEFINE rest == k + 1 .. n
<1>11. ASSUME NEW v PROVE Places(g, {k} \cup rest, v) = Places(f, rest, v)
  <2>1. \A m \in rest : m # k /\ m \in 1 .. n
    BY <1>1
  <2>2. \A m \in rest : g[m] = f[m]
    BY <2>1 DEF PageFreed
  <2>3. g[k].rows = <<>>
    BY DEF PageFreed
  <2> HIDE DEF rest, f, g, n
  <2>4. Places(g, {k}, v) = {}
    BY <2>3 DEF Places
  <2>5. Places(g, {k} \cup rest, v) = Places(g, {k}, v) \cup Places(g, rest, v)
    BY DEF Places
  <2>6. Places(g, rest, v) = Places(f, rest, v)
    BY <2>2 DEF Places
  <2> QED
    BY <2>4, <2>5, <2>6
<1> QED
  BY <1>9, <1>10, <1>11 DEF RowsIn, RowsOf

\* Stored is what is given as long as nothing has gone wrong.
LEMMA StoredIsGiven ==
    ASSUME Shapes, RowInv, KeptInv, harm = {}, pc = "open"
    PROVE  Stored = given
BY KeptIsKept DEF RowsKept

(* What DeleteTakesOneRow says of one deleteData.                          *)
LEMMA DeleteOne ==
    ASSUME Shapes, RowInv, KeptInv, RowsKept', NEW i \in 1 .. MaxInserts,
           DeleteData(i), harm = {}, harm' \subseteq {"emptied"}
    PROVE  Stored' = IF Len(pg.rows) = 1 THEN RowsAhead(pg.page_number)
                     ELSE [Stored EXCEPT ![pg.rows[i]] = @ - 1]
<1> DEFINE done == deleteData(db, tbl, pg, i, TRUE)
           row  == pg.rows[i]
           k    == pg.page_number
<1>1. /\ Deletable(i) /\ Write(done.db) /\ pc = "open" /\ pc' = "open"
      /\ harm' = harm \cup (If(done.pg = NoPage, "emptied") \cup If(Stale, "stale"))
      /\ Minus(row)
  BY DeletableHere DEF DeleteData, Harmed
<1>2. ~Stale
  BY <1>1 DEF If
<1>3. /\ pg \in Onward /\ pg # NoPage /\ i \in DOMAIN pg.rows /\ NextAtHome(db, pg)
      /\ AtHome /\ Writing
  BY <1>1, DeletableHere DEF Deletable
<1>4. Kept
  BY DEF KeptInv
<1>5. Tidy(db, tbl)
  BY <1>3, <1>4, KeptTidy
<1>6. k \in 1 .. Len(db.file) /\ readRowPage(db, k) = pg
  BY <1>2, <1>3, <1>4, KeptFields DEF AtHome, Stale
<1>7. pg.page_type = "ROW_PAGE"
  BY <1>3, <1>4 DEF Kept, KeptProgram
<1>8. ASSUME Len(pg.rows) = 1 PROVE Stored' = RowsAhead(k)
  <2> DEFINE n == Len(db.file)
             e == done.db
  <2>1. PageFreed(db, e, k)
    <3> HIDE DEF k
    <3> QED
      BY <1>3, <1>5, <1>6, <1>7, <1>8, DeleteFrees DEF k
  <2> HIDE DEF done, e
  <2>2. e \in Database /\ Len(e.file) = n /\ n \in Nat /\ eof = n
    BY <1>4, <2>1, KeptFields DEF PageFreed
  <2>3. db' = e /\ eof' = n
    <3>1. Len(db.file) <= Len(e.file) /\ Write(e)
      BY <1>1, <2>2 DEF e
    <3> QED
      BY <1>4, <2>2, <3>1, WrittenWhole
  <2>4. k \in 2 .. n
    BY <1>5, <1>6, <1>7, TidyPage
  <2>5. RowsIn(e, e.file, n) =
          RowsOf(db.file, TableList(db, db.file, n) \ ListFrom(db.file, n, k))
    BY <1>5, <2>1, <2>4, FreedRows
  <2>6. Stored' = RowsIn(db', (db').file, eof')
    BY <1>1 DEF Stored
  <2>7. RowsAhead(k) = RowsOf(db.file, TableList(db, db.file, n) \ ListFrom(db.file, n, k))
    BY <2>2 DEF RowsAhead
  <2> QED
    BY <2>3, <2>5, <2>6, <2>7
<1>9. ASSUME Len(pg.rows) # 1 PROVE Stored' = [Stored EXCEPT ![row] = @ - 1]
  <2>1. RowGone(db, tbl, pg, i, done)
    <3> HIDE DEF k
    <3> QED
      BY <1>3, <1>5, <1>6, <1>7, <1>9, DeleteTidy DEF k
  <2>2. harm' = {}
    BY <1>1, <1>2, <2>1 DEF RowGone, If
  <2>3. Stored = given
    BY <1>1, StoredIsGiven
  <2>4. Stored' = given'
    BY <1>1, <2>2 DEF RowsKept
  <2>5. row \in Values /\ given \in [Values -> Nat] /\ given[row] # 0
    <3>1. pg.rows \in Seq(Values)
      BY <1>3, OnwardFields
    <3>2. row \in Values /\ i \in Hits(pg.rows, row)
      BY <1>3, <3>1, ElementOfSeq, LenProperties DEF Hits
    <3>3. IsFiniteSet(Hits(pg.rows, row)) /\ Count(pg.rows, row) \in Nat
      BY <3>1, CountNat
    <3>4. Count(pg.rows, row) # 0
      <4> SUFFICES ASSUME Count(pg.rows, row) = 0 PROVE FALSE
        OBVIOUS
      <4>1. Hits(pg.rows, row) = {}
        BY <3>3, FS_EmptySet DEF Count
      <4> QED
        BY <3>2, <4>1
    <3>5. Count(pg.rows, row) <= given[row] /\ given \in [Values -> Nat]
      BY <1>3, <3>2 DEF RowInv, Clean, InMemory, Shapes, HistoryShape
    <3>6. given[row] \in Nat
      BY <3>2, <3>5
    <3> HIDE DEF row
    <3> QED
      BY <3>2, <3>3, <3>4, <3>5, <3>6
  <2>6. given' = [given EXCEPT ![row] = IF @ = 0 THEN 0 ELSE @ - 1]
    BY <1>1 DEF Minus
  <2> HIDE DEF row
  <2>7. given' = [given EXCEPT ![row] = @ - 1]
    BY <2>5, <2>6
  <2> QED
    BY <2>3, <2>4, <2>7
<1> HIDE DEF row, k
<1> QED
  BY <1>8, <1>9 DEF row, k

(* DeleteTakesOneRow: deleteData, on a page that is as the file has it,    *)
(* takes one row out of the row list, and with the last row of a page the  *)
(* rows of every page behind it, in a list of any length.                  *)
THEOREM StoreDeleteTakesOneRow == Spec => DeleteTakesOneRow
<1> DEFINE Inv == Shapes /\ RowInv /\ KeptInv
           Step == \A i \in 1 .. MaxInserts :
                     DeleteData(i) /\ harm = {} /\ harm' \subseteq {"emptied"} =>
                     Stored' = IF Len(pg.rows) = 1 THEN RowsAhead(pg.page_number)
                               ELSE [Stored EXCEPT ![pg.rows[i]] = @ - 1]
<1>1. Init => Inv
  BY InitShapes, InitRows, InitKept
<1>2. Inv /\ [Next]_vars => Inv'
  <2> SUFFICES ASSUME Shapes, RowInv, KeptInv, [Next]_vars
               PROVE  Shapes' /\ RowInv' /\ KeptInv'
    OBVIOUS
  <2> QED
    BY NextShapes, NextRows, NextKept
<1>3. Inv => RowsKept
  BY KeptIsKept
<1>4. Inv /\ RowsKept' /\ [Next]_vars => [Step]_vars
  <2> SUFFICES ASSUME Shapes, RowInv, KeptInv, RowsKept' PROVE Step
    OBVIOUS
  <2> QED
    BY DeleteOne
<1> QED
  BY <1>1, <1>2, <1>3, <1>4, PTL DEF Spec, DeleteTakesOneRow

=============================================================================
