------------------------------- MODULE Pages -------------------------------
(***************************************************************************)
(* The page file of src/lab1: database.c and table.c as operators on a     *)
(* database value                                                          *)
(*                                                                         *)
(*   db = [number_of_pages, first_free_page, first_table_page, file]       *)
(*                                                                         *)
(* where file[n] is the content of page n (page 0, the header, is only     *)
(* written when the database is closed and is not a member of file).       *)
(*                                                                         *)
(* page_header and table_header lie over the same first bytes of a page,   *)
(* and the code does read one as the other, so a page is ONE record:       *)
(*                                                                         *)
(*   page_type, page_number   the same word in both structs                *)
(*   next                     next_page  | next_table                      *)
(*   prev                     prev_page  | prev_table                      *)
(*   next_free                next_free  | first_row_page                  *)
(*   free_space, rows         free_space and the rows_amount rows of the   *)
(*                            page | number_of_pages, which is 0 in every  *)
(*                            table page that is ever written              *)
(*   name, free_place         body of a table page (absent from a row page)*)
(***************************************************************************)
EXTENDS Integers, Sequences, FiniteSets, FiniteSetsExt, SequencesExt

CONSTANTS
    Names,      \* table names
    NoName,     \* the name field of a page that is not a table page: ""
    Values,     \* the rows a client can insert, up to their content
    RowLen,     \* RowLen[v]: serialized length of row v
    RowSize,    \* table_header.row_size: the longest row the columns declare
    PageSpace   \* page_size - sizeof(page_header)

U16 == 65536      \* free_space is a uint16_t
uint16_t == 0 .. U16 - 1
LenSize == 2      \* sizeof(uint16_t): one entry of row_lens

ASSUME NamesAssumption == NoName \notin Names
ASSUME RowLenAssumption == RowLen \in [Values -> Nat]
ASSUME SizeAssumption == RowSize \in Nat /\ PageSpace \in uint16_t

PageType == {"DATABASE_MAIN", "TABLE_PAGE", "ROW_PAGE", "FREE_PAGE"}

Page == [page_type : PageType, page_number : Nat, next : Nat, prev : Nat,
         next_free : Nat, free_space : uint16_t, rows : Seq(Values),
         name : Names \cup {NoName}, free_place : Nat]

\* calloc'ed bytes: what createPage writes, and what every fresh header is.
ZeroPage == [page_type |-> "DATABASE_MAIN", page_number |-> 0, next |-> 0,
             prev |-> 0, next_free |-> 0, free_space |-> 0, rows |-> <<>>,
             name |-> NoName, free_place |-> 0]

Database == [number_of_pages : Nat, first_free_page : Nat,
             first_table_page : Nat, file : Seq(Page)]

createDatabase == [number_of_pages |-> 0, first_free_page |-> 0,
                   first_table_page |-> 0, file |-> <<>>]

(***************************************************************************)
(* Serialized rows.  row_lens comes first, the rows follow it, so row i    *)
(* ends RowEnd(rows, i) bytes into the space of the page.                  *)
(***************************************************************************)
RowEnd(rows, i) ==
    LET poff[k \in 0 .. Len(rows)] ==
            IF k = 0 THEN LenSize * Len(rows) ELSE poff[k - 1] + RowLen[rows[k]]
    IN  poff[i]

PageBytes(rows) == RowEnd(rows, Len(rows))

\* Row i was written whole; the bytes of a row past the page are cut off.
Intact(rows, i) == RowEnd(rows, i) <= PageSpace

Overflows(rows) == PageBytes(rows) > PageSpace

Overlong(rows, i) == RowLen[rows[i]] > RowSize

(***************************************************************************)
(* What readRowPage can return for page pg: the page, NULL, or a crash.    *)
(* A row longer than row_size overruns bin_row and then fails the roff     *)
(* check; on that path deallocateRowPage looks at the pg->rows nobody has  *)
(* set.  A page whose rows run past its end is read from beyond bin_pg,    *)
(* and the bytes found there may pass the check or fail it.                *)
(***************************************************************************)
ReadOutcomes(pg) ==
    IF \E i \in DOMAIN pg.rows : Overlong(pg.rows, i) /\ Intact(pg.rows, i)
    THEN {"null", "crash"}
    ELSE IF Overflows(pg.rows) THEN {"page", "null", "crash"}
    ELSE {"page"}

\* The header and rows of page n as readRowPage leaves them in memory.
readRowPage(db, n) == [db.file[n] EXCEPT !.name = NoName, !.free_place = 0]

\* fseek to page n and fwrite p; an fwrite that fails (ok = FALSE) changes
\* nothing.
PutPage(db, n, p) == [db EXCEPT !.file = [@ EXCEPT ![n] = p]]

WritePage(db, n, p, ok) == IF ok THEN PutPage(db, n, p) ELSE db

----------------------------------------------------------------------------
(***************************************************************************)
(* Allocation: database.c                                                  *)
(***************************************************************************)
MCreatePageUncounted(db) == [db EXCEPT !.file = Append(@, ZeroPage)]

\* The page behind the last one the header counts.  A file closed by an
\* earlier process is longer than its header says when the process was killed
\* after adding pages: then the page is one that may be in use.
createPage(db) ==
    LET n == db.number_of_pages + 1
    IN  [db EXCEPT !.number_of_pages = n,
                   !.file = IF n \in DOMAIN @ THEN [@ EXCEPT ![n] = ZeroPage]
                            ELSE Append(@, ZeroPage)]

MGetFreePageIgnoresStack(db) ==
    LET d == createPage(db)
    IN  [db |-> d, page_number |-> d.number_of_pages]

\* The top of the free stack, left where it is, or a new page at the end.
getFreePage(db) ==
    IF db.first_free_page # 0
    THEN [db |-> db, page_number |-> db.first_free_page]
    ELSE LET d == createPage(db)
         IN  [db |-> d, page_number |-> d.number_of_pages]

RowPage(n) == [page_type |-> "ROW_PAGE", page_number |-> n, next |-> 0,
               prev |-> 0, next_free |-> 0, free_space |-> PageSpace,
               rows |-> <<>>, name |-> NoName, free_place |-> 0]

MCreateRowPageUnnumbered(db) ==
    LET got == getFreePage(db)
    IN  [db |-> PutPage(got.db, got.page_number, RowPage(0)), pg |-> RowPage(0)]

\* Its write succeeds; when it fails, no caller survives the NULL returned.
createRowPage(db) ==
    LET got == getFreePage(db)
        pg  == RowPage(got.page_number)
    IN  [db |-> PutPage(got.db, pg.page_number, pg), pg |-> pg]

\* Pushes pg on the free stack; the result of its write is not looked at.
freeRowPage(db, pg, ok) ==
    LET freed == [pg EXCEPT !.page_type = "FREE_PAGE",
                            !.next = db.first_free_page, !.rows = <<>>]
    IN  [WritePage(db, pg.page_number, freed, ok)
            EXCEPT !.first_free_page = pg.page_number]

----------------------------------------------------------------------------
(***************************************************************************)
(* Tables: a handle is the table struct in memory.  st tells what the      *)
(* table* of the code is: NULL, a live object, or memory already freed.    *)
(***************************************************************************)
Handle == [st : {"null", "live", "freed"}, name : Names \cup {NoName},
           page_number : Nat, next_table : Nat, prev_table : Nat,
           first_row_page : Nat, free_place : Nat, iterator : Nat]

NullHandle == [st |-> "null", name |-> NoName, page_number |-> 0,
               next_table |-> 0, prev_table |-> 0, first_row_page |-> 0,
               free_place |-> 0, iterator |-> 0]

readTable(db, n) ==
    LET p == db.file[n]
    IN  [st |-> "live", name |-> p.name, page_number |-> p.page_number,
         next_table |-> p.next, prev_table |-> p.prev,
         first_row_page |-> p.next_free, free_place |-> p.free_place,
         iterator |-> p.next_free]

TablePage(tbl) ==
    [page_type |-> "TABLE_PAGE", page_number |-> tbl.page_number,
     next |-> tbl.next_table, prev |-> tbl.prev_table,
     next_free |-> tbl.first_row_page, free_space |-> 0, rows |-> <<>>,
     name |-> tbl.name, free_place |-> tbl.free_place]

saveTable(db, tbl, ok) == WritePage(db, tbl.page_number, TablePage(tbl), ok)

\* first_table_page moves to the new table even when its page is not written.
createTable(db, name, ok) ==
    LET got == getFreePage(db)
        tbl == [st |-> "live", name |-> name, page_number |-> got.page_number,
                next_table |-> db.first_table_page,
                prev_table |-> db.first_table_page,
                first_row_page |-> 0, free_place |-> 0, iterator |-> 0]
    IN  [saveTable(got.db, tbl, ok) EXCEPT !.first_table_page = got.page_number]

\* The end of dropTable, once its row pages are freed.
freeTablePage(db, tbl, ok) ==
    freeRowPage([db EXCEPT !.first_table_page = tbl.prev_table],
                [ZeroPage EXCEPT !.page_number = tbl.page_number], ok)

----------------------------------------------------------------------------
(***************************************************************************)
(* Inserting a row                                                         *)
(***************************************************************************)
MGetTableFreePageSwapped(db, tbl) ==
    LET new == createRowPage(db)
        n   == new.pg.page_number
    IN  IF tbl.free_place # 0
        THEN [db |-> db, tbl |-> tbl, pg |-> readRowPage(db, tbl.free_place)]
        ELSE [db  |-> new.db,
              tbl |-> [tbl EXCEPT !.first_row_page = n, !.free_place = n,
                                  !.iterator = n],
              pg  |-> [new.pg EXCEPT !.next = n]]

\* The page at free_place, or a new first page of the row list.
getTableFreePage(db, tbl) ==
    IF tbl.free_place = 0
    THEN LET new == createRowPage(db)
             n   == new.pg.page_number
         IN  [db  |-> new.db,
              tbl |-> [tbl EXCEPT !.first_row_page = n, !.free_place = n,
                                  !.iterator = n],
              pg  |-> [new.pg EXCEPT !.next = tbl.first_row_page,
                                     !.next_free = tbl.free_place]]
    ELSE [db |-> db, tbl |-> tbl, pg |-> readRowPage(db, tbl.free_place)]

MAddRowForgetsLen(pg, v) == [pg EXCEPT !.rows = Append(@, v),
                                       !.free_space = (@ - RowLen[v]) % U16]
MAddRowWithoutWrap(pg, v) == [pg EXCEPT !.rows = Append(@, v),
                                        !.free_space = @ - (RowLen[v] + LenSize)]
MAddRowOverwrites(pg, v) == [pg EXCEPT !.rows = <<v>>,
                                       !.free_space = (@ - (RowLen[v] + LenSize)) % U16]

\* The page after the row is appended to it, before it is written.
AddRow(pg, v) == [pg EXCEPT !.rows = Append(@, v),
                            !.free_space = (@ - (RowLen[v] + LenSize)) % U16]

MInsertDataTableUnsaved(db, tbl, v, wrote, saved) ==
    LET got == getTableFreePage(db, tbl)
        pg  == AddRow(got.pg, v)
    IN  [db |-> WritePage(got.db, pg.page_number, pg, wrote), tbl |-> got.tbl]

\* wrote, saved: the results of writeRowPage and of saveTable.
insertData(db, tbl, v, wrote, saved) ==
    LET got  == getTableFreePage(db, tbl)
        pg   == AddRow(got.pg, v)
        full == pg.free_space < RowSize
        pg2  == IF full THEN [pg EXCEPT !.next_free = 0] ELSE pg
        tbl2 == IF full THEN [got.tbl EXCEPT !.free_place = pg.next_free]
                        ELSE got.tbl
        d    == WritePage(got.db, pg2.page_number, pg2, wrote)
    IN  [db |-> saveTable(d, tbl2, wrote /\ saved), tbl |-> tbl2]

----------------------------------------------------------------------------
(***************************************************************************)
(* A file whose page numbers all lead into it.                             *)
(***************************************************************************)
PageNumbers(db) == 0 .. db.number_of_pages

PageLinks(p) == {p.page_number, p.next, p.prev, p.next_free, p.free_place}

HandleLinks(tbl) == {tbl.page_number, tbl.next_table, tbl.prev_table,
                     tbl.first_row_page, tbl.free_place, tbl.iterator}

FileLinked(db) ==
    /\ Len(db.file) = db.number_of_pages
    /\ {db.first_free_page, db.first_table_page} \subseteq PageNumbers(db)
    /\ \A n \in DOMAIN db.file : PageLinks(db.file[n]) \subseteq PageNumbers(db)
=============================================================================
