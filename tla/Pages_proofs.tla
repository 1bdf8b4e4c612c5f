---------------------------- MODULE Pages_proofs ----------------------------
(***************************************************************************)
(* What the operators of module Pages return: types, and where the page    *)
(* numbers they put into pages, handles and the header come from.          *)
(***************************************************************************)
EXTENDS Pages, Counting_proofs

----------------------------------------------------------------------------
(* The word of free_space.  What follows never looks at the number 2^16    *)
(* again, only at what these lemmas say of it.                             *)
LEMMA WordSize == U16 \in Nat /\ U16 > 0
BY SMTT(60) DEF U16

(* uint16_t is the naturals below U16.                                     *)
LEMMA WordType == uint16_t \subseteq Nat /\ 0 \in uint16_t /\ \A x \in uint16_t : x < U16
BY WordSize DEF uint16_t

(* The room of a page is a uint16_t.                                       *)
LEMMA PageSpaceType ==
    /\ PageSpace \in uint16_t /\ PageSpace \in Nat /\ PageSpace < U16
    /\ RowSize \in Nat
BY SizeAssumption, WordType

(* An integer in the range of uint16_t is one.                             *)
LEMMA WordMember ==
    ASSUME NEW x \in Int, 0 <= x, x < U16
    PROVE  x \in uint16_t
BY WordSize DEF uint16_t

(* An assignment to a uint16_t wraps around,                               *)
LEMMA WrappedSums ==
    ASSUME NEW x \in Int PROVE x % U16 \in uint16_t
<1>1. x % U16 \in 0 .. U16 - 1
  BY WordSize
<1> QED
  BY <1>1 DEF uint16_t

(* unless it has room for the number;                                      *)
LEMMA Unwrapped ==
    ASSUME NEW x \in uint16_t PROVE x % U16 = x
BY WordSize, WordType

(* the sum of two of them has done so once at most.                        *)
LEMMA WrappedOnce ==
    ASSUME NEW x \in Nat, x < U16 + U16
    PROVE  x % U16 = IF x < U16 THEN x ELSE x - U16
BY WordSize

(* A uint16_t minus a length wraps around to a uint16_t.                   *)
LEMMA WrappedDifference ==
    ASSUME NEW x \in uint16_t, NEW n \in Nat
    PROVE  (x - n) % U16 \in uint16_t
<1>1. x - n \in Int
  BY WordType
<1> QED
  BY <1>1, WrappedSums

(* What a length takes from free_space it gives to the rows.               *)
LEMMA WrappedSum ==
    ASSUME NEW x \in Nat, NEW b \in Nat, NEW n \in Nat
    PROVE  (((x - n) % U16) + (b + n)) % U16 = (x + b) % U16
BY SMTT(60) DEF U16

----------------------------------------------------------------------------
(* calloc'ed bytes are a page: the header and body createPage writes.      *)
LEMMA ZeroPageType == ZeroPage \in Page
<1>1. <<>> \in Seq(Values)
  OBVIOUS
<1> QED
  BY <1>1, WordType DEF ZeroPage, Page, PageType

(* PutPage (fseek, fwrite) replaces one page of the file or none, and      *)
(* changes neither the header in memory nor the length of the file.        *)
LEMMA PutPageEffect ==
    ASSUME NEW db \in Database, NEW n \in Nat, NEW p \in Page
    PROVE  LET d == PutPage(db, n, p)
           IN  /\ d \in Database
               /\ d.number_of_pages = db.number_of_pages
               /\ d.first_free_page = db.first_free_page
               /\ d.first_table_page = db.first_table_page
               /\ Len(d.file) = Len(db.file)
               /\ \A m \in 1 .. Len(db.file) :
                    d.file[m] = IF m = n THEN p ELSE db.file[m]
<1>1. db.file \in Seq(Page)
  BY DEF Database
<1> DEFINE f == [db.file EXCEPT ![n] = p]
<1>2. /\ f \in Seq(Page)
      /\ Len(f) = Len(db.file)
      /\ \A m \in 1 .. Len(db.file) : f[m] = IF m = n THEN p ELSE db.file[m]
  <2>1. CASE n \in 1 .. Len(db.file)
    BY <1>1, <2>1, ExceptSeq
  <2>2. CASE n \notin 1 .. Len(db.file)
    <3>1. DOMAIN db.file = 1 .. Len(db.file)
      BY <1>1
    <3>2. f = db.file
      BY <2>2, <3>1, <1>1
    <3> QED
      BY <3>2, <2>2, <1>1
  <2> QED
    BY <2>1, <2>2
<1>3. PutPage(db, n, p) = [db EXCEPT !.file = f]
  BY DEF PutPage
<1> QED
  BY <1>2, <1>3 DEF Database

(* A write that may fail (WritePage) does what PutPage does, or nothing.   *)
LEMMA WritePageEffect ==
    ASSUME NEW db \in Database, NEW n \in Nat, NEW p \in Page, NEW ok \in BOOLEAN
    PROVE  LET d == WritePage(db, n, p, ok)
           IN  /\ d \in Database
               /\ d.number_of_pages = db.number_of_pages
               /\ d.first_free_page = db.first_free_page
               /\ d.first_table_page = db.first_table_page
               /\ Len(d.file) = Len(db.file)
               /\ \A m \in 1 .. Len(db.file) :
                    d.file[m] = IF ok /\ m = n THEN p ELSE db.file[m]
<1>1. CASE ok
  BY <1>1, PutPageEffect, SMTT(20) DEF WritePage
<1>2. CASE ~ok
  BY <1>2 DEF WritePage
<1> QED
  BY <1>1, <1>2

\* What a step may do to a file: all it keeps, grows by, and leaves linked.
Grown(db, d) ==
    /\ d \in Database
    /\ FileLinked(d)
    /\ d.number_of_pages >= db.number_of_pages

(* A page whose links lead into the file keeps the file linked (PutPage).  *)
LEMMA PutPageLinked ==
    ASSUME NEW db \in Database, NEW n \in Nat, NEW p \in Page,
           FileLinked(db), PageLinks(p) \subseteq PageNumbers(db)
    PROVE  Grown(db, PutPage(db, n, p))
<1> DEFINE d == PutPage(db, n, p)
<1>1. /\ d \in Database
      /\ d.number_of_pages = db.number_of_pages
      /\ d.first_free_page = db.first_free_page
      /\ d.first_table_page = db.first_table_page
      /\ Len(d.file) = Len(db.file)
      /\ \A m \in 1 .. Len(db.file) : d.file[m] = IF m = n THEN p ELSE db.file[m]
  BY PutPageEffect
<1>2. /\ db.file \in Seq(Page) /\ d.file \in Seq(Page)
      /\ db.number_of_pages \in Nat
  BY <1>1 DEF Database
<1>3. DOMAIN db.file = 1 .. Len(db.file) /\ DOMAIN d.file = 1 .. Len(db.file)
  BY <1>1, <1>2
<1> HIDE DEF d
<1>4. FileLinked(d)
  BY <1>1, <1>2, <1>3 DEF FileLinked, PageNumbers
<1> QED
  BY <1>1, <1>2, <1>4 DEF Grown, d

(* The same of a write that may fail (WritePage).                          *)
LEMMA WritePageLinked ==
    ASSUME NEW db \in Database, NEW n \in Nat, NEW p \in Page, NEW ok \in BOOLEAN,
           FileLinked(db), PageLinks(p) \subseteq PageNumbers(db)
    PROVE  Grown(db, WritePage(db, n, p, ok))
<1>1. CASE ok
  BY <1>1, PutPageLinked DEF WritePage
<1>2. CASE ~ok
  BY <1>2 DEF WritePage, Grown, Database
<1> QED
  BY <1>1, <1>2

(* getFreePage returns a page of the file: the top of the free stack, or a *)
(* zero page just added behind all others.                                 *)
LEMMA GetFreePageEffect ==
    ASSUME NEW db \in Database, FileLinked(db)
    PROVE  LET got == getFreePage(db)
           IN  /\ Grown(db, got.db)
               /\ got.page_number \in 1 .. got.db.number_of_pages
               /\ got.db.first_free_page = db.first_free_page
               /\ got.db.first_table_page = db.first_table_page
               /\ got.page_number = IF db.first_free_page # 0
                                    THEN db.first_free_page
                                    ELSE db.number_of_pages + 1
               /\ got.db.number_of_pages = IF db.first_free_page # 0
                                           THEN db.number_of_pages
                                           ELSE db.number_of_pages + 1
               /\ \A m \in 1 .. got.db.number_of_pages : got.db.file[m] =
                    IF m <= db.number_of_pages THEN db.file[m] ELSE ZeroPage
<1>1. /\ db.file \in Seq(Page) /\ db.number_of_pages \in Nat
      /\ db.first_free_page \in Nat /\ db.first_table_page \in Nat
      /\ Len(db.file) = db.number_of_pages
  BY DEF Database, FileLinked
<1>2. CASE db.first_free_page # 0
  <2>1. getFreePage(db) = [db |-> db, page_number |-> db.first_free_page]
    BY <1>2 DEF getFreePage
  <2>2. db.first_free_page \in 0 .. db.number_of_pages
    BY DEF FileLinked, PageNumbers
  <2> QED
    BY <2>1, <2>2, <1>1, <1>2 DEF Grown
<1>3. CASE db.first_free_page = 0
  <2> DEFINE d == createPage(db)
             f == Append(db.file, ZeroPage)
  <2>1. /\ f \in Seq(Page) /\ Len(f) = Len(db.file) + 1
        /\ \A m \in 1 .. Len(db.file) : f[m] = db.file[m]
        /\ f[Len(db.file) + 1] = ZeroPage
    BY <1>1, ZeroPageType, AppendProperties
  <2>2. d = [db EXCEPT !.number_of_pages = db.number_of_pages + 1, !.file = f]
    <3>1. db.number_of_pages + 1 \notin DOMAIN db.file
      BY <1>1
    <3> QED
      BY <3>1 DEF createPage
  <2> HIDE DEF f
  <2>3. /\ d \in Database
        /\ d.number_of_pages = db.number_of_pages + 1
        /\ d.first_free_page = db.first_free_page
        /\ d.first_table_page = db.first_table_page
        /\ d.file = f
    <3>1. d = [number_of_pages |-> db.number_of_pages + 1,
               first_free_page |-> db.first_free_page,
               first_table_page |-> db.first_table_page, file |-> f]
      BY <2>2 DEF Database
    <3> HIDE DEF d
    <3> QED
      BY <3>1, <2>1, <1>1 DEF Database
  <2> HIDE DEF d
  <2>4. \A m \in 1 .. d.number_of_pages :
            f[m] = IF m <= db.number_of_pages THEN db.file[m] ELSE ZeroPage
    BY <2>1, <2>3, <1>1
  <2>5. FileLinked(d)
    <3>1. DOMAIN d.file = 1 .. d.number_of_pages /\ DOMAIN db.file = 1 .. Len(db.file)
      BY <2>1, <2>3, <1>1
    <3>2. ASSUME NEW m \in DOMAIN d.file
          PROVE  PageLinks(d.file[m]) \subseteq PageNumbers(d)
      <4>1. CASE m <= db.number_of_pages
        <5>1. d.file[m] = db.file[m] /\ m \in DOMAIN db.file
          BY <4>1, <3>1, <2>3, <2>4, <1>1
        <5>2. PageLinks(db.file[m]) \subseteq PageNumbers(db)
          BY <5>1 DEF FileLinked
        <5> QED
          BY <5>1, <5>2, <2>3, <1>1 DEF PageNumbers
      <4>2. CASE ~(m <= db.number_of_pages)
        <5>1. d.file[m] = ZeroPage
          BY <4>2, <3>1, <2>3, <2>4, <1>1
        <5> QED
          BY <5>1, <2>3, <1>1 DEF PageLinks, PageNumbers, ZeroPage
      <4> QED
        BY <4>1, <4>2
    <3> QED
      BY <3>2, <2>1, <2>3, <1>1 DEF FileLinked, PageNumbers
  <2>6. getFreePage(db) = [db |-> d, page_number |-> d.number_of_pages]
    BY <1>3 DEF getFreePage, d
  <2> QED
    BY <2>3, <2>4, <2>5, <2>6, <1>1, <1>3 DEF Grown
<1> QED
  BY <1>2, <1>3

----------------------------------------------------------------------------
\* Pages that a statement can use as they are: each is numbered with its
\* place, only page 1 may bear a table name, and no prev link is ever set.
Numbered(db) == \A n \in 1 .. db.number_of_pages : db.file[n].page_number = n

OneName(db) == \A n \in 1 .. db.number_of_pages :
                    db.file[n].prev = 0 /\ (db.file[n].name # NoName => n = 1)

(* freeRowPage leaves the file linked and its pages numbered, and puts the *)
(* page it was given on top of the free stack.                             *)
LEMMA FreeRowPageEffect ==
    ASSUME NEW db \in Database, NEW pg \in Page, NEW ok \in BOOLEAN,
           FileLinked(db), PageLinks(pg) \subseteq PageNumbers(db)
    PROVE  LET d == freeRowPage(db, pg, ok)
           IN  /\ Grown(db, d)
               /\ d.number_of_pages = db.number_of_pages
               /\ d.first_free_page = pg.page_number
               /\ d.first_table_page = db.first_table_page
               /\ Numbered(db) => Numbered(d)
               /\ OneName(db) /\ pg.name = NoName /\ pg.prev = 0 => OneName(d)
<1> DEFINE freed == [pg EXCEPT !.page_type = "FREE_PAGE",
                               !.next = db.first_free_page, !.rows = <<>>]
           w == WritePage(db, pg.page_number, freed, ok)
           d == freeRowPage(db, pg, ok)
<1>1. /\ db.number_of_pages \in Nat /\ db.first_free_page \in Nat
      /\ db.first_free_page \in PageNumbers(db)
      /\ Len(db.file) = db.number_of_pages
      /\ pg.page_number \in Nat
  BY DEF Database, FileLinked, Page
<1>2. /\ freed \in Page
      /\ freed.page_number = pg.page_number /\ freed.prev = pg.prev
      /\ freed.name = pg.name /\ freed.next = db.first_free_page
      /\ freed.next_free = pg.next_free /\ freed.free_place = pg.free_place
  <2>1. <<>> \in Seq(Values)
    OBVIOUS
  <2> QED
    BY <1>1, <2>1 DEF Page, PageType
<1> HIDE DEF freed
<1>3. PageLinks(freed) \subseteq PageNumbers(db)
  BY <1>1, <1>2 DEF PageLinks
<1>4. Grown(db, w)
  BY <1>1, <1>2, <1>3, WritePageLinked
<1>5. /\ w \in Database
      /\ w.number_of_pages = db.number_of_pages
      /\ w.first_table_page = db.first_table_page
      /\ \A m \in 1 .. Len(db.file) :
           w.file[m] = IF ok /\ m = pg.page_number THEN freed ELSE db.file[m]
  <2>1. freed \in Page /\ pg.page_number \in Nat
    BY <1>1, <1>2
  <2> QED
    BY <2>1, WritePageEffect
<1>6. d = [w EXCEPT !.first_free_page = pg.page_number]
  BY DEF freeRowPage, freed
<1> HIDE DEF w
<1>7. /\ d \in Database
      /\ d.number_of_pages = db.number_of_pages
      /\ d.first_free_page = pg.page_number
      /\ d.first_table_page = db.first_table_page
      /\ d.file = w.file
  BY <1>1, <1>5, <1>6 DEF Database
<1> HIDE DEF d
<1>8. Grown(db, d)
  <2>1. pg.page_number \in PageNumbers(db)
    BY DEF PageLinks
  <2> QED
    BY <2>1, <1>1, <1>4, <1>5, <1>7 DEF Grown, FileLinked, PageNumbers
<1>9. Numbered(db) => Numbered(d)
  BY <1>1, <1>2, <1>5, <1>7 DEF Numbered
<1>10. OneName(db) /\ pg.name = NoName /\ pg.prev = 0 => OneName(d)
  BY <1>1, <1>2, <1>5, <1>7 DEF OneName
<1> QED
  BY <1>7, <1>8, <1>9, <1>10 DEF d

(* The struct readTable fills from a page has the links of that page.      *)
LEMMA ReadTableEffect ==
    ASSUME NEW db \in Database, FileLinked(db), NEW n \in 1 .. db.number_of_pages
    PROVE  LET t == readTable(db, n)
           IN  /\ t \in Handle /\ t.st = "live"
               /\ HandleLinks(t) \subseteq PageNumbers(db)
               /\ t.name = db.file[n].name
               /\ t.page_number = db.file[n].page_number
               /\ t.prev_table = db.file[n].prev
               /\ t.next_table = db.file[n].next
               /\ t.iterator = db.file[n].next_free
<1>1. db.file \in Seq(Page) /\ n \in 1 .. Len(db.file)
  BY DEF Database, FileLinked
<1>2. db.file[n] \in Page /\ n \in DOMAIN db.file
  BY <1>1, ElementOfSeq
<1>3. PageLinks(db.file[n]) \subseteq PageNumbers(db)
  BY <1>2 DEF FileLinked
<1>4. readTable(db, n) \in Handle
  BY <1>2 DEF readTable, Handle, Page
<1> QED
  BY <1>3, <1>4 DEF readTable, HandleLinks, PageLinks

(* The bytes saveTable writes are a page with the links of the struct.     *)
LEMMA TablePageEffect ==
    ASSUME NEW tbl \in Handle
    PROVE  /\ TablePage(tbl) \in Page
           /\ TablePage(tbl).page_number = tbl.page_number
           /\ TablePage(tbl).prev = tbl.prev_table
           /\ TablePage(tbl).name = tbl.name
           /\ PageLinks(TablePage(tbl)) \subseteq HandleLinks(tbl) \cup {0}
<1>1. <<>> \in Seq(Values)
  OBVIOUS
<1> QED
  BY <1>1, WordType DEF TablePage, Page, PageType, Handle, PageLinks, HandleLinks

(* createRowPage gives a fresh row page, numbered with its place.          *)
LEMMA CreateRowPageEffect ==
    ASSUME NEW db \in Database, FileLinked(db)
    PROVE  LET new == createRowPage(db)
           IN  /\ Grown(db, new.db)
               /\ new.db.first_free_page = db.first_free_page
               /\ new.db.first_table_page = db.first_table_page
               /\ new.pg \in Page
               /\ PageLinks(new.pg) \subseteq PageNumbers(new.db)
               /\ new.pg.page_number \in 1 .. new.db.number_of_pages
               /\ new.pg.prev = 0 /\ new.pg.name = NoName
               /\ Numbered(db) => Numbered(new.db)
               /\ OneName(db) => OneName(new.db)
<1> DEFINE got == getFreePage(db)
           n   == got.page_number
           pg  == RowPage(n)
           d   == PutPage(got.db, n, pg)
<1>1. /\ Grown(db, got.db)
      /\ n \in 1 .. got.db.number_of_pages
      /\ got.db.first_free_page = db.first_free_page
      /\ got.db.first_table_page = db.first_table_page
      /\ n = IF db.first_free_page # 0 THEN db.first_free_page
             ELSE db.number_of_pages + 1
      /\ got.db.number_of_pages = IF db.first_free_page # 0
                                  THEN db.number_of_pages
                                  ELSE db.number_of_pages + 1
      /\ \A m \in 1 .. got.db.number_of_pages : got.db.file[m] =
           IF m <= db.number_of_pages THEN db.file[m] ELSE ZeroPage
  BY GetFreePageEffect
<1>2. /\ db.number_of_pages \in Nat /\ db.first_free_page \in Nat
      /\ got.db \in Database /\ FileLinked(got.db)
      /\ got.db.number_of_pages \in Nat /\ n \in Nat
      /\ Len(got.db.file) = got.db.number_of_pages
  BY <1>1 DEF Database, Grown, FileLinked
<1>3. createRowPage(db) = [db |-> d, pg |-> pg]
  <2>1. pg.page_number = n
    BY DEF RowPage
  <2> QED
    BY <2>1 DEF createRowPage
<1> HIDE DEF got
<1>4. pg \in Page
  <2>1. <<>> \in Seq(Values)
    OBVIOUS
  <2> QED
    BY <2>1, <1>2, PageSpaceType DEF RowPage, Page, PageType
<1>5. PageLinks(pg) \subseteq PageNumbers(got.db)
  BY <1>1, <1>2 DEF RowPage, PageLinks, PageNumbers
<1>6. pg.page_number = n /\ pg.prev = 0 /\ pg.name = NoName
  BY DEF RowPage
<1> HIDE DEF pg, n
<1>7. Grown(got.db, d)
  BY <1>2, <1>4, <1>5, PutPageLinked
<1>8. /\ d \in Database
      /\ d.number_of_pages = got.db.number_of_pages
      /\ d.first_free_page = got.db.first_free_page
      /\ d.first_table_page = got.db.first_table_page
      /\ \A m \in 1 .. Len(got.db.file) :
           d.file[m] = IF m = n THEN pg ELSE got.db.file[m]
  <2> DEFINE g == got.db
  <2>1. g \in Database /\ n \in Nat /\ pg \in Page
    BY <1>2, <1>4
  <2> HIDE DEF g
  <2>2. /\ PutPage(g, n, pg) \in Database
        /\ PutPage(g, n, pg).number_of_pages = g.number_of_pages
        /\ PutPage(g, n, pg).first_free_page = g.first_free_page
        /\ PutPage(g, n, pg).first_table_page = g.first_table_page
        /\ \A m \in 1 .. Len(g.file) :
             PutPage(g, n, pg).file[m] = IF m = n THEN pg ELSE g.file[m]
    BY <2>1, PutPageEffect, SMTT(30)
  <2> QED
    BY <2>2 DEF g
<1> HIDE DEF d
<1>9. Numbered(db) => Numbered(d)
  BY <1>1, <1>2, <1>6, <1>8 DEF Numbered
<1>10. OneName(db) => OneName(d)
  <2>1. ZeroPage.prev = 0 /\ ZeroPage.name = NoName
    BY DEF ZeroPage
  <2> QED
    BY <2>1, <1>1, <1>2, <1>6, <1>8 DEF OneName
<1>11. Grown(db, d)
  BY <1>1, <1>2, <1>7, <1>8 DEF Grown
<1>12. PageLinks(pg) \subseteq PageNumbers(d)
  BY <1>5, <1>8 DEF PageNumbers
<1> QED
  BY <1>1, <1>3, <1>4, <1>6, <1>8, <1>9, <1>10, <1>11, <1>12

(* createTable links a numbered table page at the head of the list, with   *)
(* or without its write; when it succeeds with no table in the list, the   *)
(* page of the new table is the top of the free stack or a new last page.  *)
LEMMA CreateTableEffect ==
    ASSUME NEW db \in Database, FileLinked(db),
           NEW name \in Names, NEW ok \in BOOLEAN
    PROVE  LET d == createTable(db, name, ok)
               n == IF db.first_free_page # 0 THEN db.first_free_page
                    ELSE db.number_of_pages + 1
           IN  /\ Grown(db, d)
               /\ d.first_free_page = db.first_free_page
               /\ d.first_table_page = n
               /\ d.number_of_pages = IF db.first_free_page # 0
                                      THEN db.number_of_pages
                                      ELSE db.number_of_pages + 1
               /\ n \in 1 .. d.number_of_pages
               /\ \A m \in 1 .. d.number_of_pages :
                    \/ m <= db.number_of_pages /\ d.file[m] = db.file[m]
                    \/ /\ m = n
                       /\ d.file[m].page_number = n
                       /\ d.file[m].prev = db.first_table_page
                    \/ m = n /\ n > db.number_of_pages /\ d.file[m] = ZeroPage
<1> DEFINE got == getFreePage(db)
           n   == got.page_number
           tbl == [st |-> "live", name |-> name, page_number |-> n,
                   next_table |-> db.first_table_page,
                   prev_table |-> db.first_table_page,
                   first_row_page |-> 0, free_place |-> 0, iterator |-> 0]
           p   == TablePage(tbl)
           w   == WritePage(got.db, n, p, ok)
           d   == createTable(db, name, ok)
<1>1. /\ Grown(db, got.db)
      /\ n \in 1 .. got.db.number_of_pages
      /\ got.db.first_free_page = db.first_free_page
      /\ got.db.first_table_page = db.first_table_page
      /\ n = IF db.first_free_page # 0 THEN db.first_free_page
             ELSE db.number_of_pages + 1
      /\ got.db.number_of_pages = IF db.first_free_page # 0
                                  THEN db.number_of_pages
                                  ELSE db.number_of_pages + 1
      /\ \A m \in 1 .. got.db.number_of_pages : got.db.file[m] =
           IF m <= db.number_of_pages THEN db.file[m] ELSE ZeroPage
  BY GetFreePageEffect
<1>2. /\ db.number_of_pages \in Nat /\ db.first_free_page \in Nat
      /\ db.first_table_page \in PageNumbers(db)
      /\ got.db \in Database /\ FileLinked(got.db)
      /\ got.db.number_of_pages \in Nat /\ n \in Nat
      /\ Len(got.db.file) = got.db.number_of_pages
  BY <1>1 DEF Database, Grown, FileLinked
<1> HIDE DEF got
<1>4. d = [w EXCEPT !.first_table_page = n]
  <2>1. tbl.page_number = n
    OBVIOUS
  <2> QED
    BY <2>1 DEF createTable, saveTable, got
<1> HIDE DEF d
<1>5. /\ tbl \in Handle
      /\ HandleLinks(tbl) \cup {0} \subseteq PageNumbers(got.db)
      /\ tbl.page_number = n /\ tbl.prev_table = db.first_table_page
  BY <1>1, <1>2 DEF Handle, HandleLinks, PageNumbers, Database
<1> HIDE DEF tbl
<1>6. /\ p \in Page /\ p.page_number = n /\ p.prev = db.first_table_page
      /\ PageLinks(p) \subseteq PageNumbers(got.db)
  BY <1>5, TablePageEffect
<1> HIDE DEF p
<1>7. Grown(got.db, w)
  BY <1>2, <1>6, WritePageLinked
<1>8. /\ w \in Database
      /\ w.number_of_pages = got.db.number_of_pages
      /\ w.first_free_page = got.db.first_free_page
      /\ \A m \in 1 .. Len(got.db.file) :
           w.file[m] = IF ok /\ m = n THEN p ELSE got.db.file[m]
  BY <1>2, <1>6, WritePageEffect
<1> HIDE DEF w
<1>9. /\ d \in Database
      /\ d.number_of_pages = w.number_of_pages
      /\ d.first_free_page = w.first_free_page
      /\ d.first_table_page = n
      /\ d.file = w.file
  BY <1>2, <1>4, <1>8 DEF Database
<1>10. Grown(db, d)
  BY <1>1, <1>2, <1>7, <1>8, <1>9 DEF Grown, FileLinked, PageNumbers
<1>11. ASSUME NEW m \in 1 .. d.number_of_pages
       PROVE  \/ m <= db.number_of_pages /\ d.file[m] = db.file[m]
              \/ /\ m = n
                 /\ d.file[m].page_number = n
                 /\ d.file[m].prev = db.first_table_page
              \/ m = n /\ n > db.number_of_pages /\ d.file[m] = ZeroPage
  BY <1>1, <1>2, <1>6, <1>8, <1>9
<1> QED
  BY <1>1, <1>2, <1>8, <1>9, <1>10, <1>11 DEF d
----------------------------------------------------------------------------
(* A page read by readRowPage keeps the links of the page in the file, and *)
(* has no table name.                                                      *)
LEMMA ReadRowPageEffect ==
    ASSUME NEW db \in Database, FileLinked(db), NEW n \in 1 .. db.number_of_pages
    PROVE  LET pg == readRowPage(db, n)
           IN  /\ pg \in Page /\ pg.name = NoName
               /\ PageLinks(pg) \subseteq PageNumbers(db)
               /\ pg.page_number = db.file[n].page_number
               /\ pg.prev = db.file[n].prev /\ pg.next = db.file[n].next
<1>1. /\ db.file \in Seq(Page) /\ n \in 1 .. Len(db.file)
      /\ db.number_of_pages \in Nat
  BY DEF Database, FileLinked
<1>2. db.file[n] \in Page /\ n \in DOMAIN db.file
  BY <1>1, ElementOfSeq
<1>3. PageLinks(db.file[n]) \subseteq PageNumbers(db)
  BY <1>2 DEF FileLinked
<1> DEFINE p  == db.file[n]
           pg == readRowPage(db, n)
<1>4. pg = [p EXCEPT !.name = NoName, !.free_place = 0]
  BY DEF readRowPage
<1> HIDE DEF p, pg
<1>5. p \in Page /\ PageLinks(p) \subseteq PageNumbers(db)
  BY <1>2, <1>3 DEF p
<1>6. /\ pg \in Page /\ pg.name = NoName /\ pg.free_place = 0
      /\ pg.page_number = p.page_number /\ pg.prev = p.prev
      /\ pg.next = p.next /\ pg.next_free = p.next_free
  BY <1>4, <1>5 DEF Page
<1>7. PageLinks(pg) \subseteq PageNumbers(db)
  BY <1>1, <1>5, <1>6 DEF PageLinks, PageNumbers
<1> QED
  BY <1>6, <1>7 DEF p, pg

(* The row insertData appends changes nothing of a page but its rows and   *)
(* its free_space, which stays a uint16_t.                                 *)
LEMMA AddRowEffect ==
    ASSUME NEW pg \in Page, NEW v \in Values
    PROVE  LET q == AddRow(pg, v)
           IN  /\ q \in Page
               /\ PageLinks(q) = PageLinks(pg)
               /\ q.page_number = pg.page_number
               /\ q.next_free = pg.next_free
               /\ q.prev = pg.prev /\ q.name = pg.name
<1> DEFINE rows  == Append(pg.rows, v)
           space == (pg.free_space - (RowLen[v] + LenSize)) % U16
           q     == AddRow(pg, v)
<1>1. rows \in Seq(Values)
  BY AppendProperties DEF Page
<1>2. space \in uint16_t
  <2>1. pg.free_space \in uint16_t
    BY DEF Page
  <2>2. RowLen[v] + LenSize \in Nat
    BY RowLenAssumption DEF LenSize
  <2> QED
    BY <2>1, <2>2, WrappedDifference
<1>3. q = [pg EXCEPT !.rows = rows, !.free_space = space]
  BY DEF AddRow
<1> HIDE DEF rows, space, q
<1>4. /\ q \in Page
      /\ q.page_number = pg.page_number /\ q.prev = pg.prev
      /\ q.name = pg.name /\ q.next = pg.next
      /\ q.next_free = pg.next_free /\ q.free_place = pg.free_place
  BY <1>1, <1>2, <1>3 DEF Page
<1> QED
  BY <1>4 DEF PageLinks, q

\* What the operations on a table keep of its struct.
SameTable(tbl, t) ==
    /\ t.st = tbl.st /\ t.name = tbl.name /\ t.page_number = tbl.page_number
    /\ t.next_table = tbl.next_table /\ t.prev_table = tbl.prev_table

(* getTableFreePage gives a page of the file, read or just created.        *)
LEMMA TableFreePageEffect ==
    ASSUME NEW db \in Database, FileLinked(db),
           NEW tbl \in Handle, HandleLinks(tbl) \subseteq PageNumbers(db)
    PROVE  LET got == getTableFreePage(db, tbl)
           IN  /\ Grown(db, got.db)
               /\ got.db.first_free_page = db.first_free_page
               /\ got.db.first_table_page = db.first_table_page
               /\ got.tbl \in Handle /\ SameTable(tbl, got.tbl)
               /\ HandleLinks(got.tbl) \subseteq PageNumbers(got.db)
               /\ got.pg \in Page /\ got.pg.name = NoName
               /\ PageLinks(got.pg) \subseteq PageNumbers(got.db)
               /\ Numbered(db) => Numbered(got.db)
               /\ OneName(db) => OneName(got.db) /\ got.pg.prev = 0
<1>1. /\ db.number_of_pages \in Nat
      /\ tbl.free_place \in PageNumbers(db)
      /\ tbl.first_row_page \in PageNumbers(db)
  BY DEF Database, HandleLinks
<1>2. CASE tbl.free_place = 0
  <2> DEFINE new == createRowPage(db)
             n   == new.pg.page_number
             t   == [tbl EXCEPT !.first_row_page = n, !.free_place = n,
                                !.iterator = n]
             pg  == [new.pg EXCEPT !.next = tbl.first_row_page,
                                   !.next_free = tbl.free_place]
  <2>1. /\ Grown(db, new.db)
        /\ new.db.first_free_page = db.first_free_page
        /\ new.db.first_table_page = db.first_table_page
        /\ new.pg \in Page
        /\ PageLinks(new.pg) \subseteq PageNumbers(new.db)
        /\ n \in 1 .. new.db.number_of_pages
        /\ new.pg.prev = 0 /\ new.pg.name = NoName
        /\ Numbered(db) => Numbered(new.db)
        /\ OneName(db) => OneName(new.db)
    BY CreateRowPageEffect
  <2>2. getTableFreePage(db, tbl) = [db |-> new.db, tbl |-> t, pg |-> pg]
    BY <1>2 DEF getTableFreePage
  <2> HIDE DEF new
  <2>3. /\ new.db.number_of_pages \in Nat
        /\ PageNumbers(db) \subseteq PageNumbers(new.db)
        /\ n \in Nat /\ n \in PageNumbers(new.db)
    BY <2>1, <1>1 DEF Grown, Database, PageNumbers
  <2> HIDE DEF n
  <2>4. /\ t \in Handle /\ SameTable(tbl, t)
        /\ t.first_row_page = n /\ t.free_place = n /\ t.iterator = n
    BY <2>3 DEF Handle, SameTable
  <2>5. /\ pg \in Page /\ pg.name = NoName /\ pg.prev = 0
        /\ pg.page_number = new.pg.page_number
        /\ pg.next = tbl.first_row_page /\ pg.next_free = tbl.free_place
        /\ pg.free_place = new.pg.free_place
    BY <2>1 DEF Page, Handle
  <2> HIDE DEF t, pg
  <2>6. HandleLinks(t) \subseteq PageNumbers(new.db)
    BY <2>3, <2>4 DEF HandleLinks, SameTable
  <2>7. PageLinks(pg) \subseteq PageNumbers(new.db)
    BY <1>1, <2>1, <2>3, <2>5 DEF PageLinks
  <2> QED
    BY <2>1, <2>2, <2>4, <2>5, <2>6, <2>7
<1>3. CASE tbl.free_place # 0
  <2> DEFINE n  == tbl.free_place
             pg == readRowPage(db, n)
  <2>1. n \in 1 .. db.number_of_pages
    BY <1>1, <1>3 DEF PageNumbers
  <2>2. /\ pg \in Page /\ pg.name = NoName
        /\ PageLinks(pg) \subseteq PageNumbers(db)
        /\ pg.prev = db.file[n].prev
    BY <2>1, ReadRowPageEffect
  <2>3. getTableFreePage(db, tbl) = [db |-> db, tbl |-> tbl, pg |-> pg]
    BY <1>3 DEF getTableFreePage
  <2>4. OneName(db) => pg.prev = 0
    BY <2>1, <2>2 DEF OneName
  <2> HIDE DEF n, pg
  <2>5. Grown(db, db)
    BY <1>1 DEF Grown
  <2> QED
    BY <2>2, <2>3, <2>4, <2>5 DEF SameTable
<1> QED
  BY <1>2, <1>3

(* A page written under its own number keeps the file numbered; without a  *)
(* name and a prev link, or at page 1, it keeps OneName (WritePage).       *)
LEMMA WritePageHome ==
    ASSUME NEW db \in Database, FileLinked(db), NEW p \in Page, NEW ok \in BOOLEAN
    PROVE  LET d == WritePage(db, p.page_number, p, ok)
           IN  /\ Numbered(db) => Numbered(d)
               /\ /\ OneName(db) /\ p.prev = 0
                  /\ p.name = NoName \/ p.page_number = 1
                  => OneName(d)
<1> DEFINE n == p.page_number
           d == WritePage(db, n, p, ok)
<1>1. n \in Nat /\ Len(db.file) = db.number_of_pages
  BY DEF Page, FileLinked
<1>2. /\ d.number_of_pages = db.number_of_pages
      /\ \A m \in 1 .. Len(db.file) :
           d.file[m] = IF ok /\ m = n THEN p ELSE db.file[m]
  BY <1>1, WritePageEffect
<1> HIDE DEF d
<1>3. Numbered(db) => Numbered(d)
  BY <1>1, <1>2 DEF Numbered
<1>4. /\ OneName(db) /\ p.prev = 0
      /\ p.name = NoName \/ n = 1
      => OneName(d)
  BY <1>1, <1>2 DEF OneName
<1> QED
  BY <1>3, <1>4 DEF d

(* insertData, whichever of its two writes fails: the file stays linked    *)
(* and, for the table at page 1, numbered; the struct stays linked.        *)
LEMMA InsertDataEffect ==
    ASSUME NEW db \in Database, FileLinked(db),
           NEW tbl \in Handle, HandleLinks(tbl) \subseteq PageNumbers(db),
           NEW v \in Values, NEW wrote \in BOOLEAN, NEW saved \in BOOLEAN
    PROVE  LET res == insertData(db, tbl, v, wrote, saved)
           IN  /\ Grown(db, res.db)
               /\ res.db.first_free_page = db.first_free_page
               /\ res.db.first_table_page = db.first_table_page
               /\ res.tbl \in Handle /\ SameTable(tbl, res.tbl)
               /\ HandleLinks(res.tbl) \subseteq PageNumbers(res.db)
               /\ Numbered(db) => Numbered(res.db)
               /\ OneName(db) /\ tbl.page_number = 1 /\ tbl.prev_table = 0
                    => OneName(res.db)
<1> DEFINE got  == getTableFreePage(db, tbl)
           pg   == AddRow(got.pg, v)
           full == pg.free_space < RowSize
           pg2  == IF full THEN [pg EXCEPT !.next_free = 0] ELSE pg
           tbl2 == IF full THEN [got.tbl EXCEPT !.free_place = pg.next_free]
                           ELSE got.tbl
           d    == WritePage(got.db, pg2.page_number, pg2, wrote)
           ok   == wrote /\ saved
           e    == WritePage(d, tbl2.page_number, TablePage(tbl2), ok)
<1>1. /\ Grown(db, got.db)
      /\ got.db.first_free_page = db.first_free_page
      /\ got.db.first_table_page = db.first_table_page
      /\ got.tbl \in Handle /\ SameTable(tbl, got.tbl)
      /\ HandleLinks(got.tbl) \subseteq PageNumbers(got.db)
      /\ got.pg \in Page /\ got.pg.name = NoName
      /\ PageLinks(got.pg) \subseteq PageNumbers(got.db)
      /\ Numbered(db) => Numbered(got.db)
      /\ OneName(db) => OneName(got.db) /\ got.pg.prev = 0
  BY TableFreePageEffect
<1>2. insertData(db, tbl, v, wrote, saved) = [db |-> e, tbl |-> tbl2]
  BY DEF insertData, saveTable
<1> HIDE DEF got
<1>3. /\ pg \in Page
      /\ PageLinks(pg) \subseteq PageNumbers(got.db)
      /\ pg.name = NoName
      /\ OneName(db) => pg.prev = 0
  BY <1>1, AddRowEffect
<1>4. /\ got.db \in Database /\ FileLinked(got.db)
      /\ got.db.number_of_pages \in Nat
      /\ got.db.number_of_pages >= db.number_of_pages
  BY <1>1 DEF Grown, Database
<1>5. pg.next_free \in PageNumbers(got.db) /\ pg.next_free \in Nat
  BY <1>3 DEF PageLinks, Page
<1> HIDE DEF pg, full
<1>6. /\ pg2 \in Page
      /\ PageLinks(pg2) \subseteq PageNumbers(got.db)
      /\ pg2.name = NoName
      /\ OneName(db) => pg2.prev = 0
  <2>1. 0 \in PageNumbers(got.db)
    BY <1>4 DEF PageNumbers
  <2>2. CASE full
    BY <1>3, <2>1, <2>2 DEF PageLinks, Page
  <2> QED
    BY <1>3, <2>2
<1>7. /\ tbl2 \in Handle /\ SameTable(tbl, tbl2)
      /\ HandleLinks(tbl2) \subseteq PageNumbers(got.db)
  BY <1>1, <1>5 DEF Handle, SameTable, HandleLinks
<1> HIDE DEF pg2, tbl2
<1>8. /\ Grown(got.db, d)
      /\ d.number_of_pages = got.db.number_of_pages
      /\ d.first_free_page = got.db.first_free_page
      /\ d.first_table_page = got.db.first_table_page
      /\ Numbered(got.db) => Numbered(d)
      /\ OneName(got.db) /\ pg2.prev = 0 => OneName(d)
  <2>1. pg2.page_number \in Nat
    BY <1>6 DEF Page
  <2> QED
    BY <2>1, <1>4, <1>6, WritePageEffect, WritePageLinked, WritePageHome
<1> HIDE DEF d
<1>9. /\ TablePage(tbl2) \in Page
      /\ TablePage(tbl2).page_number = tbl2.page_number
      /\ TablePage(tbl2).prev = tbl2.prev_table
      /\ PageLinks(TablePage(tbl2)) \subseteq PageNumbers(d)
  <2>1. 0 \in PageNumbers(d) /\ PageNumbers(d) = PageNumbers(got.db)
    BY <1>4, <1>8 DEF PageNumbers
  <2> QED
    BY <2>1, <1>7, TablePageEffect
<1>10. ok \in BOOLEAN /\ d \in Database /\ FileLinked(d) /\ tbl2.page_number \in Nat
  BY <1>7, <1>8 DEF Grown, Handle
<1> HIDE DEF ok
<1>11. /\ Grown(d, e)
       /\ e.number_of_pages = d.number_of_pages
       /\ e.first_free_page = d.first_free_page
       /\ e.first_table_page = d.first_table_page
  BY <1>9, <1>10, WritePageEffect, WritePageLinked
<1>12. /\ Numbered(d) => Numbered(e)
       /\ OneName(d) /\ tbl2.prev_table = 0 /\ tbl2.page_number = 1 => OneName(e)
  BY <1>9, <1>10, WritePageHome
<1> HIDE DEF e
<1>13. Grown(db, e) /\ HandleLinks(tbl2) \subseteq PageNumbers(e)
  BY <1>4, <1>7, <1>8, <1>11 DEF Grown, PageNumbers
<1> QED
  BY <1>1, <1>2, <1>6, <1>7, <1>8, <1>11, <1>12, <1>13 DEF SameTable

(* The end of dropTable gives page tbl->page_number to the free stack and  *)
(* makes the table's prev link the head of the table list.                 *)
LEMMA FreeTablePageEffect ==
    ASSUME NEW db \in Database, FileLinked(db),
           NEW tbl \in Handle, HandleLinks(tbl) \subseteq PageNumbers(db),
           NEW ok \in BOOLEAN
    PROVE  LET d == freeTablePage(db, tbl, ok)
           IN  /\ Grown(db, d)
               /\ d.number_of_pages = db.number_of_pages
               /\ d.first_free_page = tbl.page_number
               /\ d.first_table_page = tbl.prev_table
               /\ Numbered(db) => Numbered(d)
               /\ OneName(db) => OneName(d)
<1> DEFINE c == [db EXCEPT !.first_table_page = tbl.prev_table]
           p == [ZeroPage EXCEPT !.page_number = tbl.page_number]
<1>1. /\ tbl.prev_table \in PageNumbers(db) /\ tbl.page_number \in PageNumbers(db)
      /\ tbl.prev_table \in Nat /\ tbl.page_number \in Nat
      /\ db.number_of_pages \in Nat
  BY DEF HandleLinks, Handle, Database
<1>2. /\ c \in Database
      /\ c.number_of_pages = db.number_of_pages /\ c.file = db.file
      /\ c.first_table_page = tbl.prev_table
  BY <1>1 DEF Database
<1>3. FileLinked(c)
  BY <1>1, <1>2 DEF FileLinked, PageNumbers, Database
<1>4. /\ p \in Page /\ p.page_number = tbl.page_number
      /\ p.prev = 0 /\ p.name = NoName
      /\ p.next = 0 /\ p.next_free = 0 /\ p.free_place = 0
  <2>1. /\ ZeroPage.prev = 0 /\ ZeroPage.name = NoName
        /\ ZeroPage.next = 0 /\ ZeroPage.next_free = 0 /\ ZeroPage.free_place = 0
    BY DEF ZeroPage
  <2> QED
    BY <1>1, <2>1, ZeroPageType DEF Page
<1>5. freeTablePage(db, tbl, ok) = freeRowPage(c, p, ok)
  BY DEF freeTablePage
<1> HIDE DEF c, p
<1>6. PageLinks(p) \subseteq PageNumbers(c)
  BY <1>1, <1>2, <1>4 DEF PageLinks, PageNumbers
<1>7. /\ Numbered(c) <=> Numbered(db)
      /\ OneName(c) <=> OneName(db)
  BY <1>2 DEF Numbered, OneName
<1> QED
  BY <1>2, <1>3, <1>4, <1>5, <1>6, <1>7, FreeRowPageEffect DEF Grown

----------------------------------------------------------------------------
(* Where the rows of a page end: the entries of row_lens come first, then  *)
(* each row begins where the one before it ends (writeRowPage).            *)
LEMMA RowEndRecursion ==
    ASSUME NEW rows \in Seq(Values)
    PROVE  /\ RowEnd(rows, 0) = LenSize * Len(rows)
           /\ \A k \in 1 .. Len(rows) :
                RowEnd(rows, k) = RowEnd(rows, k - 1) + RowLen[rows[k]]
           /\ \A k \in 0 .. Len(rows) : RowEnd(rows, k) \in Nat
<1> DEFINE n == Len(rows)
           Poff(f) == f = [k \in 0 .. n |-> IF k = 0 THEN LenSize * n
                                             ELSE f[k - 1] + RowLen[rows[k]]]
           g == [k \in 1 .. n |-> RowLen[rows[k]]]
           poff == CHOOSE f : Poff(f)
<1>1. n \in Nat /\ LenSize * n \in Nat
  BY LenProperties DEF LenSize
<1>2. g \in [1 .. n -> Nat]
  BY RowLenAssumption, ElementOfSeq
<1>3. PICK f \in [0 .. n -> Nat] :
        f[0] = LenSize * n /\ \A k \in 1 .. n : f[k] = f[k - 1] + g[k]
  <2> HIDE DEF g, n
  <2> QED
    BY <1>1, <1>2, PartialSums
<1>4. Poff(f)
  <2> HIDE DEF n
  <2> QED
    BY <1>1, <1>3
<1>5. Poff(poff)
  <2> HIDE DEF Poff
  <2> QED
    BY <1>4
<1>6. \A i : RowEnd(rows, i) = poff[i]
  BY DEF RowEnd
<1> HIDE DEF poff
<1>7. \A k \in 0 .. n : poff[k] = IF k = 0 THEN LenSize * n
                                 ELSE poff[k - 1] + RowLen[rows[k]]
  BY <1>5
<1>8. poff \in [0 .. n -> Nat]
  <2> DEFINE S == {k \in Nat : k <= n => poff[k] \in Nat}
  <2>1. 0 \in S
    BY <1>1, <1>7
  <2>2. ASSUME NEW k \in Nat, k \in S PROVE k + 1 \in S
    <3> SUFFICES ASSUME k + 1 <= n PROVE poff[k + 1] \in Nat
      OBVIOUS
    <3>1. k + 1 \in 1 .. n /\ poff[k] \in Nat
      BY <1>1, <2>2
    <3>2. RowLen[rows[k + 1]] \in Nat
      BY <1>2, <3>1
    <3> QED
      BY <1>1, <1>7, <3>1, <3>2
  <2>3. Nat \subseteq S
    <3> HIDE DEF S
    <3> QED
      BY <2>1, <2>2, NatSetInduction
  <2>4. \A k \in 0 .. n : poff[k] \in Nat
    BY <1>1, <2>3
  <2> QED
    BY <1>5, <2>4
<1>9. RowEnd(rows, 0) = LenSize * n
  BY <1>1, <1>6, <1>7
<1>10. \A k \in 1 .. n : RowEnd(rows, k) = RowEnd(rows, k - 1) + RowLen[rows[k]]
  <2> SUFFICES ASSUME NEW k \in 1 .. n
               PROVE  poff[k] = poff[k - 1] + RowLen[rows[k]]
    BY <1>6
  <2> HIDE DEF n
  <2>1. k \in 0 .. n /\ k # 0
    BY <1>1
  <2> QED
    BY <1>7, <2>1
<1>11. \A k \in 0 .. n : RowEnd(rows, k) \in Nat
  BY <1>6, <1>8
<1> QED
  BY <1>9, <1>10, <1>11

(* Two pages that begin with the same rows: these end as far apart as the  *)
(* pages' entries of row_lens do.                                          *)
LEMMA SameRowEnds ==
    ASSUME NEW s \in Seq(Values), NEW t \in Seq(Values), NEW n \in Nat,
           n <= Len(s), n <= Len(t), \A k \in 1 .. n : s[k] = t[k]
    PROVE  \A k \in 0 .. n :
              RowEnd(t, k) = RowEnd(s, k) + LenSize * Len(t) - LenSize * Len(s)
<1> DEFINE d == LenSize * Len(t) - LenSize * Len(s)
           S == {k \in Nat : k <= n => RowEnd(t, k) = RowEnd(s, k) + d}
<1>1. /\ d \in Int /\ Len(s) \in Nat /\ Len(t) \in Nat
      /\ LenSize * Len(t) \in Nat /\ LenSize * Len(s) \in Nat
  BY LenProperties DEF LenSize
<1>2. 0 \in S
  BY <1>1, RowEndRecursion
<1>3. ASSUME NEW k \in Nat, k \in S PROVE k + 1 \in S
  <2>1. ASSUME k + 1 <= n PROVE RowEnd(t, k + 1) = RowEnd(s, k + 1) + d
    <3>1. /\ k + 1 \in 1 .. n /\ k + 1 \in 1 .. Len(s) /\ k + 1 \in 1 .. Len(t)
          /\ k \in 0 .. Len(s) /\ (k + 1) - 1 = k
      BY <1>1, <2>1
    <3>2. /\ RowEnd(s, k + 1) = RowEnd(s, k) + RowLen[s[k + 1]]
          /\ RowEnd(t, k + 1) = RowEnd(t, k) + RowLen[t[k + 1]]
      <4>1. /\ RowEnd(s, k + 1) = RowEnd(s, (k + 1) - 1) + RowLen[s[k + 1]]
            /\ RowEnd(t, k + 1) = RowEnd(t, (k + 1) - 1) + RowLen[t[k + 1]]
        BY <3>1, RowEndRecursion
      <4> QED
        BY <3>1, <4>1
    <3>3. s[k + 1] = t[k + 1] /\ RowLen[s[k + 1]] \in Nat /\ RowEnd(s, k) \in Nat
      <4>1. s[k + 1] \in Values
        BY <3>1, ElementOfSeq
      <4> QED
        BY <3>1, <4>1, RowEndRecursion, RowLenAssumption
    <3>4. RowEnd(t, k) = RowEnd(s, k) + d
      BY <1>3, <2>1, <1>1
    <3> HIDE DEF d
    <3> QED
      BY <1>1, <3>2, <3>3, <3>4
  <2> HIDE DEF d
  <2> QED
    BY <2>1
<1>4. Nat \subseteq S
  <2> HIDE DEF S
  <2> QED
    BY <1>2, <1>3, NatSetInduction
<1>5. \A k \in 0 .. n : RowEnd(t, k) = RowEnd(s, k) + d
  BY <1>4
<1> QED
  BY <1>1, <1>5, RowEndRecursion

(* A row ends where the rows after it, if any, begin: before the page's    *)
(* last byte in use.                                                       *)
LEMMA RowEndsInPage ==
    ASSUME NEW rows \in Seq(Values)
    PROVE  /\ PageBytes(rows) \in Nat
           /\ LenSize * Len(rows) <= PageBytes(rows)
           /\ \A i \in 1 .. Len(rows) : RowEnd(rows, i) <= PageBytes(rows)
<1> DEFINE n == Len(rows)
           S == {m \in Nat : m <= n =>
                   \A i \in 0 .. m : RowEnd(rows, i) <= RowEnd(rows, m)}
<1>1. n \in Nat
  BY LenProperties
<1>2. 0 \in S
  BY RowEndRecursion
<1>3. ASSUME NEW m \in Nat, m \in S PROVE m + 1 \in S
  <2>1. ASSUME m + 1 <= n, NEW i \in 0 .. m + 1
        PROVE  RowEnd(rows, i) <= RowEnd(rows, m + 1)
    <3>1. m + 1 \in 1 .. n /\ m \in 0 .. n /\ i \in 0 .. n /\ (m + 1) - 1 = m
      BY <1>1, <2>1
    <3>2. RowEnd(rows, m + 1) = RowEnd(rows, m) + RowLen[rows[m + 1]]
      <4>1. RowEnd(rows, m + 1) = RowEnd(rows, (m + 1) - 1) + RowLen[rows[m + 1]]
        BY <3>1, RowEndRecursion
      <4> QED
        BY <3>1, <4>1
    <3>3. /\ RowLen[rows[m + 1]] \in Nat /\ RowEnd(rows, m) \in Nat
          /\ RowEnd(rows, i) \in Nat
      <4>1. rows[m + 1] \in Values
        BY <3>1, ElementOfSeq
      <4> QED
        BY <3>1, <4>1, RowEndRecursion, RowLenAssumption
    <3>4. i <= m => RowEnd(rows, i) <= RowEnd(rows, m)
      BY <1>1, <1>3, <2>1
    <3> QED
      BY <2>1, <3>2, <3>3, <3>4
  <2> QED
    BY <2>1
<1>4. Nat \subseteq S
  <2> HIDE DEF S
  <2> QED
    BY <1>2, <1>3, NatSetInduction
<1>5. \A i \in 0 .. n : RowEnd(rows, i) <= RowEnd(rows, n)
  BY <1>1, <1>4
<1>6. RowEnd(rows, 0) = LenSize * n /\ RowEnd(rows, n) \in Nat
  BY <1>1, RowEndRecursion
<1> QED
  BY <1>1, <1>5, <1>6 DEF PageBytes

(* An empty page uses no byte; a row added to a page uses its own length   *)
(* and an entry of row_lens, by which the rows before it move up.          *)
LEMMA PageBytesOfNone == PageBytes(<<>>) = 0
<1>1. <<>> \in Seq(Values) /\ Len(<<>>) = 0
  OBVIOUS
<1>2. RowEnd(<<>>, 0) = LenSize * Len(<<>>)
  BY <1>1, RowEndRecursion
<1> QED
  BY <1>1, <1>2 DEF PageBytes, LenSize

(* A row appended to a page takes its own bytes and those of its length.   *)
LEMMA PageBytesOfAppended ==
    ASSUME NEW rows \in Seq(Values), NEW v \in Values
    PROVE  PageBytes(Append(rows, v)) = PageBytes(rows) + RowLen[v] + LenSize
<1> DEFINE n == Len(rows)
           t == Append(rows, v)
<1>1. /\ t \in Seq(Values) /\ n \in Nat /\ Len(t) = n + 1
      /\ t[n + 1] = v /\ \A k \in 1 .. n : t[k] = rows[k]
  BY AppendProperties, LenProperties
<1> HIDE DEF t
<1>2. RowEnd(t, n) = RowEnd(rows, n) + LenSize
  <2>1. RowEnd(t, n) = RowEnd(rows, n) + LenSize * Len(t) - LenSize * Len(rows)
    BY <1>1, SameRowEnds
  <2>2. RowEnd(rows, n) \in Nat
    BY <1>1, RowEndRecursion
  <2> QED
    BY <1>1, <2>1, <2>2 DEF LenSize
<1>3. RowEnd(t, n + 1) = RowEnd(t, n) + RowLen[v]
  <2>1. RowEnd(t, n + 1) = RowEnd(t, (n + 1) - 1) + RowLen[t[n + 1]]
    BY <1>1, RowEndRecursion
  <2>2. (n + 1) - 1 = n
    BY <1>1
  <2> QED
    BY <1>1, <2>1, <2>2
<1>4. RowEnd(rows, n) \in Nat /\ RowLen[v] \in Nat
  BY <1>1, RowEndRecursion, RowLenAssumption
<1> QED
  BY <1>1, <1>2, <1>3, <1>4 DEF PageBytes, LenSize, t

(* Pages that end with the same rows: from where these begin to their end  *)
(* it is as far in the one as in the other.                                *)
LEMMA SameTails ==
    ASSUME NEW s \in Seq(Values), NEW t \in Seq(Values), NEW a \in 0 .. Len(s),
           NEW b \in 0 .. Len(t), Len(s) - a = Len(t) - b,
           \A k \in 1 .. Len(s) - a : s[a + k] = t[b + k]
    PROVE  PageBytes(t) - RowEnd(t, b) = PageBytes(s) - RowEnd(s, a)
<1> DEFINE n == Len(s) - a
           S == {m \in Nat : m <= n =>
                   RowEnd(t, b + m) - RowEnd(t, b) = RowEnd(s, a + m) - RowEnd(s, a)}
<1>1. /\ Len(s) \in Nat /\ Len(t) \in Nat /\ n \in Nat
      /\ a + n = Len(s) /\ b + n = Len(t)
  BY LenProperties
<1>2. 0 \in S
  <2>1. RowEnd(t, b) \in Nat /\ RowEnd(s, a) \in Nat
    BY RowEndRecursion
  <2> QED
    BY <2>1
<1>3. ASSUME NEW m \in Nat, m \in S PROVE m + 1 \in S
  <2>1. ASSUME m + 1 <= n
        PROVE  RowEnd(t, b + (m + 1)) - RowEnd(t, b) = RowEnd(s, a + (m + 1)) - RowEnd(s, a)
    <3> DEFINE j == a + (m + 1)
               l == b + (m + 1)
    <3>1. j \in 1 .. Len(s) /\ l \in 1 .. Len(t)
      BY <1>1, <2>1
    <3>2. m + 1 \in 1 .. Len(s) - a
      BY <1>1, <2>1
    <3>3. s[j] = t[l]
      BY <3>2
    <3>4. j - 1 = a + m /\ l - 1 = b + m
      BY <1>1
    <3>5. a + m \in 0 .. Len(s) /\ b + m \in 0 .. Len(t)
      BY <1>1, <2>1
    <3>6. RowEnd(t, b + m) - RowEnd(t, b) = RowEnd(s, a + m) - RowEnd(s, a)
      BY <1>1, <1>3, <2>1
    <3> HIDE DEF j, l
    <3>7. /\ RowEnd(s, j) = RowEnd(s, j - 1) + RowLen[s[j]]
          /\ RowEnd(t, l) = RowEnd(t, l - 1) + RowLen[t[l]]
      BY <3>1, RowEndRecursion
    <3>8. s[j] \in Values /\ RowLen[s[j]] \in Nat
      <4>1. s[j] \in Values
        BY <3>1, ElementOfSeq
      <4> QED
        BY <4>1, RowLenAssumption
    <3>9. /\ RowEnd(s, a + m) \in Nat /\ RowEnd(t, b + m) \in Nat
          /\ RowEnd(s, a) \in Nat /\ RowEnd(t, b) \in Nat
      BY <3>5, RowEndRecursion
    <3>10. RowEnd(t, l) - RowEnd(t, b) = RowEnd(s, j) - RowEnd(s, a)
      <4>1. RowEnd(s, j) = RowEnd(s, a + m) + RowLen[s[j]]
        BY <3>4, <3>7
      <4>2. RowEnd(t, l) = RowEnd(t, b + m) + RowLen[s[j]]
        BY <3>3, <3>4, <3>7
      <4>3. RowEnd(t, b + m) = RowEnd(t, b) + RowEnd(s, a + m) - RowEnd(s, a)
        BY <3>6, <3>9
      <4>4. RowEnd(t, l) = RowEnd(t, b) + RowEnd(s, j) - RowEnd(s, a)
        BY <3>8, <3>9, <4>1, <4>2, <4>3
      <4>5. RowEnd(s, j) \in Nat
        BY <3>8, <3>9, <4>1
      <4> QED
        BY <3>9, <4>4, <4>5
    <3> QED
      BY <3>10 DEF j, l
  <2> QED
    BY <2>1
<1>4. n \in S
  <2> HIDE DEF S
  <2> QED
    BY <1>1, <1>2, <1>3, NatSetInduction
<1> QED
  BY <1>1, <1>4 DEF PageBytes

(* A row taken out of a page gives back what it took when it was added; a  *)
(* row put in the place of another, the difference of their lengths.       *)
LEMMA RemoveAtEffect ==
    ASSUME NEW S, NEW s \in Seq(S), NEW i \in 1 .. Len(s)
    PROVE  LET t == RemoveAt(s, i)
           IN  /\ t \in Seq(S) /\ Len(t) = Len(s) - 1
               /\ \A k \in 1 .. Len(s) - 1 : t[k] = IF k < i THEN s[k] ELSE s[k + 1]
<1> DEFINE n == Len(s)
           u == SubSeq(s, 1, i - 1)
           w == SubSeq(s, i + 1, n)
<1>1. n \in Nat /\ i \in 1 .. n
  BY LenProperties
<1>2. \A k \in 1 .. n : s[k] \in S
  BY ElementOfSeq
<1>3. /\ u \in Seq(S) /\ Len(u) = i - 1
      /\ \A k \in 1 .. i - 1 : u[k] = s[k]
  <2>1. /\ u \in Seq(S)
        /\ Len(u) = IF 1 <= i - 1 THEN (i - 1) - 1 + 1 ELSE 0
        /\ \A k \in 1 .. (i - 1) - 1 + 1 : u[k] = s[1 + k - 1]
    BY <1>1, <1>2, SubSeqProperties
  <2> HIDE DEF u
  <2> QED
    BY <1>1, <2>1
<1>4. /\ w \in Seq(S) /\ Len(w) = n - i
      /\ \A k \in 1 .. n - i : w[k] = s[i + k]
  <2>1. /\ w \in Seq(S)
        /\ Len(w) = IF i + 1 <= n THEN n - (i + 1) + 1 ELSE 0
        /\ \A k \in 1 .. n - (i + 1) + 1 : w[k] = s[(i + 1) + k - 1]
    BY <1>1, <1>2, SubSeqProperties
  <2> HIDE DEF w
  <2>2. n - (i + 1) + 1 = n - i
    BY <1>1
  <2>3. Len(w) = n - i
    <3>1. CASE i + 1 <= n
      BY <2>1, <2>2, <3>1
    <3>2. CASE ~(i + 1 <= n)
      BY <1>1, <2>1, <3>2
    <3> QED
      BY <3>1, <3>2
  <2>4. ASSUME NEW k \in 1 .. n - i PROVE w[k] = s[i + k]
    <3>1. (i + 1) + k - 1 = i + k /\ k \in 1 .. n - (i + 1) + 1
      BY <1>1, <2>2
    <3>2. w[k] = s[(i + 1) + k - 1]
      BY <2>1, <3>1
    <3> QED
      BY <3>1, <3>2
  <2> QED
    BY <2>1, <2>3, <2>4
<1>5. RemoveAt(s, i) = u \o w
  BY DEF RemoveAt
<1> HIDE DEF u, w
<1>6. /\ u \o w \in Seq(S) /\ Len(u \o w) = n - 1
      /\ \A k \in 1 .. n - 1 : (u \o w)[k] = IF k <= i - 1 THEN u[k] ELSE w[k - (i - 1)]
  <2>1. Len(u) + Len(w) = n - 1
    BY <1>1, <1>3, <1>4
  <2>2. /\ u \o w \in Seq(S) /\ Len(u \o w) = Len(u) + Len(w)
        /\ \A k \in 1 .. Len(u) + Len(w) :
              (u \o w)[k] = IF k <= Len(u) THEN u[k] ELSE w[k - Len(u)]
    BY <1>3, <1>4, ConcatProperties
  <2> QED
    BY <1>3, <2>1, <2>2
<1>7. ASSUME NEW k \in 1 .. n - 1
      PROVE  (u \o w)[k] = IF k < i THEN s[k] ELSE s[k + 1]
  <2>1. CASE k < i
    BY <1>1, <1>3, <1>6, <1>7, <2>1
  <2>2. CASE ~(k < i)
    <3>1. k - (i - 1) \in 1 .. n - i /\ i + (k - (i - 1)) = k + 1 /\ ~(k <= i - 1)
      BY <1>1, <1>7, <2>2
    <3>2. w[k - (i - 1)] = s[i + (k - (i - 1))]
      BY <1>4, <3>1
    <3> QED
      BY <1>6, <1>7, <2>2, <3>1, <3>2
  <2> QED
    BY <2>1, <2>2
<1> QED
  BY <1>5, <1>6, <1>7

(* A row removed gives them back.                                          *)
LEMMA PageBytesOfRemoved ==
    ASSUME NEW rows \in Seq(Values), NEW i \in 1 .. Len(rows)
    PROVE  PageBytes(RemoveAt(rows, i)) + RowLen[rows[i]] + LenSize = PageBytes(rows)
<1> DEFINE t == RemoveAt(rows, i)
           n == Len(rows)
<1>1. /\ t \in Seq(Values) /\ Len(t) = n - 1 /\ n \in Nat
      /\ \A k \in 1 .. n - 1 : t[k] = IF k < i THEN rows[k] ELSE rows[k + 1]
  BY RemoveAtEffect, LenProperties
<1> HIDE DEF t
<1>2. \A k \in 0 .. i - 1 :
         RowEnd(t, k) = RowEnd(rows, k) + LenSize * Len(t) - LenSize * Len(rows)
  <2>1. i - 1 \in Nat /\ i - 1 <= Len(rows) /\ i - 1 <= Len(t)
    BY <1>1
  <2>2. \A k \in 1 .. i - 1 : rows[k] = t[k]
    BY <1>1
  <2> QED
    BY <1>1, <2>1, <2>2, SameRowEnds
<1>3. RowEnd(t, i - 1) = RowEnd(rows, i - 1) - LenSize
  <2>1. RowEnd(t, i - 1) = RowEnd(rows, i - 1) + LenSize * (n - 1) - LenSize * n
    BY <1>1, <1>2, i - 1 \in 0 .. i - 1
  <2>2. RowEnd(rows, i - 1) \in Nat
    BY <1>1, i - 1 \in 0 .. n, RowEndRecursion
  <2> QED
    BY <1>1, <2>1, <2>2 DEF LenSize
<1>4. RowEnd(rows, i) = RowEnd(rows, i - 1) + RowLen[rows[i]]
  BY RowEndRecursion
<1>5. PageBytes(t) - RowEnd(t, i - 1) = PageBytes(rows) - RowEnd(rows, i)
  <2>1. i \in 0 .. Len(rows) /\ i - 1 \in 0 .. Len(t) /\ Len(rows) - i = Len(t) - (i - 1)
    BY <1>1
  <2>2. ASSUME NEW k \in 1 .. Len(rows) - i PROVE rows[i + k] = t[(i - 1) + k]
    <3>1. (i - 1) + k \in 1 .. n - 1 /\ ~((i - 1) + k < i) /\ ((i - 1) + k) + 1 = i + k
      BY <1>1, <2>2
    <3> QED
      BY <1>1, <3>1
  <2> QED
    BY <1>1, <2>1, <2>2, SameTails
<1>6. /\ PageBytes(t) \in Nat /\ PageBytes(rows) \in Nat /\ RowLen[rows[i]] \in Nat
      /\ RowEnd(rows, i - 1) \in Nat
  <2>1. rows[i] \in Values
    BY ElementOfSeq
  <2> QED
    BY <1>1, <2>1, i - 1 \in 0 .. n, RowEndRecursion, RowEndsInPage, RowLenAssumption
<1> QED
  BY <1>3, <1>4, <1>5, <1>6 DEF LenSize, t

(* A row replaced changes the length of a page as it changes the length    *)
(* of the row.                                                             *)
LEMMA PageBytesOfReplaced ==
    ASSUME NEW rows \in Seq(Values), NEW i \in 1 .. Len(rows), NEW v \in Values
    PROVE  PageBytes([rows EXCEPT ![i] = v]) + RowLen[rows[i]] = PageBytes(rows) + RowLen[v]
<1> DEFINE t == [rows EXCEPT ![i] = v]
           n == Len(rows)
<1>1. /\ t \in Seq(Values) /\ Len(t) = n /\ n \in Nat
      /\ \A k \in 1 .. n : t[k] = IF k = i THEN v ELSE rows[k]
  BY ExceptSeq, LenProperties
<1> HIDE DEF t
<1>2. RowEnd(t, i - 1) = RowEnd(rows, i - 1)
  <2>1. i - 1 \in Nat /\ i - 1 <= Len(rows) /\ i - 1 <= Len(t) /\ i - 1 \in 0 .. i - 1
    BY <1>1
  <2>2. \A k \in 1 .. i - 1 : rows[k] = t[k]
    BY <1>1
  <2>3. RowEnd(t, i - 1) = RowEnd(rows, i - 1) + LenSize * Len(t) - LenSize * Len(rows)
    BY <1>1, <2>1, <2>2, SameRowEnds
  <2>4. RowEnd(rows, i - 1) \in Nat
    BY <1>1, i - 1 \in 0 .. n, RowEndRecursion
  <2> QED
    BY <1>1, <2>3, <2>4 DEF LenSize
<1>3. /\ RowEnd(rows, i) = RowEnd(rows, i - 1) + RowLen[rows[i]]
      /\ RowEnd(t, i) = RowEnd(t, i - 1) + RowLen[v]
  BY <1>1, RowEndRecursion
<1>4. PageBytes(t) - RowEnd(t, i) = PageBytes(rows) - RowEnd(rows, i)
  <2>1. i \in 0 .. Len(rows) /\ i \in 0 .. Len(t) /\ Len(rows) - i = Len(t) - i
    BY <1>1
  <2>2. \A k \in 1 .. Len(rows) - i : rows[i + k] = t[i + k]
    BY <1>1
  <2> QED
    BY <1>1, <2>1, <2>2, SameTails
<1>5. /\ PageBytes(t) \in Nat /\ PageBytes(rows) \in Nat
      /\ RowLen[rows[i]] \in Nat /\ RowLen[v] \in Nat /\ RowEnd(rows, i - 1) \in Nat
  <2>1. rows[i] \in Values
    BY ElementOfSeq
  <2> QED
    BY <1>1, <2>1, i - 1 \in 0 .. n, RowEndRecursion, RowEndsInPage, RowLenAssumption
<1>6. PageBytes(t) + RowLen[rows[i]] = PageBytes(rows) + RowLen[v]
  <2>1. RowEnd(t, i) = RowEnd(rows, i - 1) + RowLen[v]
    BY <1>2, <1>3
  <2>2. RowEnd(rows, i) \in Nat /\ RowEnd(t, i) \in Nat
    BY <1>3, <1>5, <2>1
  <2>3. PageBytes(t) = PageBytes(rows) - RowEnd(rows, i) + RowEnd(t, i)
    BY <1>4, <1>5, <2>2
  <2> QED
    BY <1>3, <1>5, <2>1, <2>3
<1> QED
  BY <1>6 DEF t
=============================================================================
