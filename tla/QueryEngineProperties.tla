----------------------- MODULE QueryEngineProperties -----------------------
(***************************************************************************)
(* What is checked of module QueryEngine: invariants, action properties,   *)
(* the abstract specification it implements, liveness, and the statements  *)
(* of comments and answers of the code that do not hold.                   *)
(***************************************************************************)
EXTENDS QueryEngine

\* No DROP has freed a page since the file was created.
NothingDropped == db.first_free_page = 0

(* Every page number kept in the header, in a page or in the table struct  *)
(* of the running statement is 0 or a page the file has, whatever happened *)
(* to writes and to deallocated tables: no fseek passes the end of the     *)
(* file and no fread comes back short (database.c, table.c).               *)
LinksInFile ==
    /\ FileLinked(db)
    /\ cursor \in PageNumbers(db)
    /\ HandleLinks(tbl) \subseteq PageNumbers(db)

(* All writes go to hdr->page_number of what was read, never to where it   *)
(* was read: they land where they should, and never on the header page 0,  *)
(* because each page carries its own number.  The exception is a table     *)
(* page whose first write failed, and no statement ever writes to that.    *)
WritesAtHome ==
    /\ \A n \in DOMAIN db.file :
         \/ db.file[n].page_number = n
         \/ db.file[n] = ZeroPage /\ n = db.first_table_page
    /\ tbl.st = "live" => tbl.page_number = db.first_table_page
    /\ tbl.st = "live" /\ tbl.iterator # 0 =>
            db.file[tbl.iterator].page_number = tbl.iterator

(* executeQuery can never have two tables: the one table is always at page *)
(* 1, and between statements the free stack is empty or has page 1 on top, *)
(* however many tables were created and dropped (findTable, createTable,   *)
(* dropTable).                                                             *)
SingleTable ==
    /\ db.first_table_page \in {0, 1}
    /\ pc = "idle" => db.first_free_page \in {0, 1}
    /\ \A n \in DOMAIN db.file : db.file[n].name # NoName => n = 1

\* Every page bears its own number, unless it is the table page 1 that never
\* reached the file; no prev link is set and only page 1 can bear a name.
PagesAtHome(d) ==
    \A n \in DOMAIN d.file :
        /\ d.file[n].prev = 0
        /\ d.file[n].name # NoName => n = 1
        /\ \/ d.file[n].page_number = n
           \/ d.file[n] = ZeroPage /\ n = 1 /\ d.first_table_page = 1

(* The life of the one table, which SingleTable and WritesAtHome rest on:  *)
(* getFreePage gives createTable page 1 both times it can be reached (the  *)
(* file is empty, or DROP has put page 1 on the stack), prev_table is set  *)
(* to a first_table_page that is 0, and a statement holds a live struct    *)
(* only while page 1 is the first table.                                   *)
TableAtPageOne ==
    /\ db.first_table_page \in {0, 1}
    /\ db.first_free_page = 0 /\ db.first_table_page = 0 => db.number_of_pages = 0
    /\ db.first_free_page \in {0, 1} \/ Running("DROP", "live") \/ pc = "crashed"
    /\ PagesAtHome(db)
    /\ pc = "find" => /\ tbl.st = "null" => cursor = db.first_table_page
                      /\ cursor # 0 => db.first_table_page = 1
    /\ pc = "run" /\ tbl.st = "null" => db.first_table_page = 0
    /\ tbl.st = "live" => /\ pc = "run" /\ db.first_table_page = 1
                          /\ tbl.page_number = 1 /\ tbl.prev_table = 0
                          /\ db.file[1].page_number = 1

(* Until a DROP, the row pages form a list that strictly descends in page  *)
(* numbers, whatever writes failed: a scan of it ends, and insertData      *)
(* cannot put a page in it twice (getTableFreePage).                       *)
RowListDescends ==
    NothingDropped =>
        /\ \A n \in DOMAIN db.file :
             db.file[n].page_type = "ROW_PAGE" => db.file[n].next < n
        /\ tbl.st = "live" /\ tbl.iterator # 0 =>
             db.file[tbl.iterator].page_type = "ROW_PAGE"

(* free_space and the rows of a page never drift apart: modulo 2^16 they   *)
(* add up to the space of the page, even once the subtraction in           *)
(* insertData has wrapped around.                                          *)
FreeSpaceAccounted ==
    NothingDropped =>
        \A n \in DOMAIN db.file :
            db.file[n].page_type = "ROW_PAGE" =>
                (db.file[n].free_space + PageBytes(db.file[n].rows)) % U16
                    = PageSpace

\* The pages of the row list that starts at page n, while it descends.
ListFrom(d, n) ==
    LET pages[k \in 0 .. Len(d.file)] ==
            IF k = 0 THEN {}
            ELSE IF d.file[k].next < k THEN {k} \cup pages[d.file[k].next]
            ELSE {k}
    IN  pages[n]

\* The places, page and index, where that list holds v in a whole row.
Places(d, n, v) ==
    UNION {{m} \X {i \in DOMAIN d.file[m].rows :
                      d.file[m].rows[i] = v /\ Intact(d.file[m].rows, i)}
              : m \in ListFrom(d, n)}

\* The rows stored in the row list of the table, per value.
StoredIn(d) ==
    IF d.first_table_page = 0 THEN NoRows
    ELSE [v \in Values |->
            Cardinality(Places(d, d.file[d.first_table_page].next_free, v))]

Stored == StoredIn(db)

\* No stored row is longer than declared, or cut off by the end of a page.
Sound == \A n \in DOMAIN db.file :
            LET rows == db.file[n].rows
            IN  ~Overflows(rows) /\ \A i \in DOMAIN rows : ~Overlong(rows, i)

Answered(op) == pc = "idle" /\ stmt.op = op /\ reply.status = "OK"

(* A SELECT that is answered OK returns each row stored in the table that  *)
(* satisfies its condition exactly as often as it is stored, over all the  *)
(* pages of the list, full or not; unless a table was dropped before or a  *)
(* row was longer than declared or did not fit its page (executeSelect).   *)
SelectExact ==
    Answered("SELECT") /\ NothingDropped /\ Sound =>
        reply.rows = [v \in Values |->
                        IF v \in stmt.where.match THEN Stored[v] ELSE 0]

(* Behind its pages the engine is a bag of rows that empties itself at the *)
(* first DROP: module BagTable, with the table read off the table list (or *)
(* the struct of the running statement) and the bag off the row list.      *)
Bag == INSTANCE BagTable WITH
    table   <- IF tbl.st = "live" THEN tbl.name
               ELSE IF db.first_table_page = 0 THEN NoName
               ELSE db.file[db.first_table_page].name,
    bag     <- IF NothingDropped THEN Stored ELSE NoRows,
    lossy   <- ~NothingDropped,
    busy    <- pc \in {"find", "run"},
    down    <- pc = "crashed",
    request <- stmt,
    pending <- todo,
    answer  <- [status |-> reply.status, rows |-> reply.rows]

ImplementsBag == Bag!Spec

(* Until a DROP a stored row stays where it is: a step that rewrites a row *)
(* page only appends to it, a failed write loses nothing that was there,   *)
(* and DELETE and UPDATE leave every page alone.                           *)
RowsOnlyAppended ==
    [][/\ NothingDropped' /\ pc' # "crashed" /\ pc # "crashed"
       => /\ Len(db.file) <= Len(db'.file)
          /\ \A n \in DOMAIN db.file : IsPrefix(db.file[n].rows, db'.file[n].rows)
          /\ stmt.op # "INSERT" => \A n \in DOMAIN db.file :
                                     db'.file[n].rows = db.file[n].rows]_vars

(* Once a DROP has been carried out the file never grows and only page 1   *)
(* is written again: every other page freed is lost to the database for as *)
(* long as it is open (getFreePage, freeRowPage).                          *)
OnlyPageOneAfterDrop ==
    [][db.first_free_page = 1 /\ pc # "crashed" =>
          /\ db'.first_free_page = 1
          /\ db'.number_of_pages = db.number_of_pages
          /\ \A n \in 2 .. Len(db.file) : db'.file[n] = db.file[n]]_vars

----------------------------------------------------------------------------
(***************************************************************************)
(* What the comments and the answers of the code say, and is not so        *)
(***************************************************************************)
(* An INSERT answered "Data inserted" has its rows stored in the table: in *)
(* the row list that a SELECT scans (executeInsert).                       *)
InsertedIsStored ==
    Answered("INSERT") =>
        \A v \in Values :
            Stored[v] >= Cardinality({i \in DOMAIN stmt.rows : stmt.rows[i] = v})

(* An INSERT, SELECT or DELETE on a table that does not exist is refused,  *)
(* "Table not found" (the if (!tbl) of executeInsert, executeSelect and    *)
(* executeDelete, which a pointer to the last table visited passes).       *)
MissingTableRefused ==
    (/\ pc = "crashed" \/ (pc = "idle" /\ reply # NoReply)
     /\ stmt.op \in {"INSERT", "SELECT", "DELETE"}
     /\ \A n \in DOMAIN db.file : db.file[n].name # stmt.name)
    => reply.status = "BAD_REQUEST"

----------------------------------------------------------------------------
(* Every statement is answered, or ends the process, except in the three   *)
(* loops of the code that do not advance: DELETE on a page whose first row *)
(* does not satisfy the condition, DROP on a page that cannot be read, and *)
(* findTable on a list that a failed write tied into a ring.               *)
Looping ==
    \/ FirstRow(FALSE)
    \/ Running("DROP", "live") /\ Reads("null")
    \/ pc = "find" /\ cursor # 0 /\ db.file[cursor].next = cursor

AnsweredOrLooping ==
    pc \in {"find", "run"} ~> pc \in {"idle", "crashed"} \/ Looping

=============================================================================
