----------------------------- MODULE TableStore -----------------------------
(***************************************************************************)
(* The storage library of src/lab1 under a program of its own, such as     *)
(* lab1_llp.c: what executeQuery never reaches.                            *)
(*                                                                         *)
(* The program has one table.  It keeps the table struct and one page of   *)
(* rows in memory from call to call, deletes and updates rows of that      *)
(* page, closes the database and opens it again.  It may be killed at any  *)
(* moment, in the middle of insertData, of deleteData and of               *)
(* closeDatabase too, and a server may be started on its file.  A write    *)
(* that has returned is in the file: stdio hands blocks of a page's size   *)
(* to the system as they are.                                              *)
(***************************************************************************)
EXTENDS Pages

CONSTANTS
    Garbage,     \* what closeDatabase finds in pages_offset, which is not set
    UINT32,      \* 2^32, scaled down: page numbers wrap around at it
    MaxInserts,  \* bound: rows inserted into one file
    MaxPages,    \* bound: pages the header counts when a row is inserted
    MaxUpdates,  \* bound: calls of updateData
    MaxOpens     \* bound: calls of openDatabase on a file

ASSUME GarbageAssumption == UINT32 \in Nat \ {0} /\ Garbage \subseteq 0 .. UINT32 - 1
ASSUME StoreBounds == {MaxInserts, MaxPages, MaxUpdates, MaxOpens} \subseteq Nat

VARIABLES
    pc,      \* "off": no process; "open"; in closeDatabase: "copying" pages,
             \* "copied" (the new file is complete), "removed" (the old one is)
    db,      \* the header in memory, and the pages of the file
    saved,   \* the header in the file
    eof,     \* how many pages the file has; those of db.file past it are holes
    tbl,     \* the table struct of the program
    pg,      \* the page of rows it has in memory, or NoPage
    copy,    \* new_file.bin: its pages
    at,      \* closeDatabase: page_num_old
    offset,  \* closeDatabase: pages_offset
    buf,     \* closeDatabase: bin_pg, the page read last
    given,   \* history: rows handed to the library and not deleted, per value
    harm,    \* history: what has happened that may lose rows
    count    \* history: rows inserted, updates and openings of this file

file == <<db, saved, eof>>
closing == <<copy, at, offset, buf>>
history == <<given, harm, count>>
vars == <<pc, file, tbl, pg, closing, history>>

Header(d) == [number_of_pages |-> d.number_of_pages,
              first_free_page |-> d.first_free_page,
              first_table_page |-> d.first_table_page]

EmptyHeader == Header(createDatabase)

\* The name of the database leads to no file.
NoHeader == [number_of_pages |-> -1]

NoPage == [page_type |-> "none"]

NoRows == [v \in Values |-> 0]
NoCount == [inserts |-> 0, updates |-> 0, opens |-> 0]

Counted(what) == count' = [count EXCEPT ![what] = @ + 1]
Harmed(what) == harm' = harm \cup what
Plus(v) == given' = [given EXCEPT ![v] = @ + 1]
Minus(v) == given' = [given EXCEPT ![v] = IF @ = 0 THEN 0 ELSE @ - 1]

----------------------------------------------------------------------------
(***************************************************************************)
(* deleteData and updateData on a page pg in memory; row i of the model is *)
(* row_number i - 1.                                                       *)
(***************************************************************************)
MFreeRowDeclaredSize(tbl_, page, len) ==
    [tbl |-> tbl_, pg |-> [page EXCEPT !.free_space = (@ + RowSize) % U16]]

\* A page that was full and now has more than row_size bytes goes to the
\* head of the pages with free space; one that is still full leaves it.
FreeRow(tbl_, page, len) ==
    LET space  == (page.free_space + len) % U16
        linked == page.free_space < RowSize /\ space > RowSize
        place  == IF linked THEN page.page_number ELSE tbl_.free_place
        next   == IF linked THEN tbl_.free_place ELSE page.next_free
        full   == space < RowSize
    IN  [tbl |-> [tbl_ EXCEPT !.free_place = IF full THEN next ELSE place],
         pg  |-> [page EXCEPT !.free_space = space,
                              !.next_free = IF full THEN 0 ELSE next]]

\* The neighbours of a page that is freed: the page before it gets the wrong
\* link, next_free, and is not found anyway, as no page knows its prev_page.
UnlinkPage(d, page) ==
    LET before == readRowPage(d, page.prev)
        d1 == IF page.prev = 0 THEN d
              ELSE PutPage(d, before.page_number, [before EXCEPT !.next_free = page.next])
        after == readRowPage(d1, page.next)
    IN  IF page.next = 0 THEN d1
        ELSE PutPage(d1, after.page_number, [after EXCEPT !.prev = page.prev])

MDeleteDataKeepsLast(d, tbl_, page, i, saves) ==
    LET s    == FreeRow(tbl_, page, RowLen[page.rows[i]])
        left == [s.pg EXCEPT !.rows = SubSeq(@, 1, Len(@) - 1)]
        d1   == PutPage(d, left.page_number, left)
    IN  IF left.rows = <<>>
        THEN [db |-> freeRowPage(UnlinkPage(d, left), left, TRUE),
              tbl |-> s.tbl, pg |-> NoPage]
        ELSE [db |-> saveTable(d1, s.tbl, saves), tbl |-> s.tbl, pg |-> left]

MDeleteDataUnwritten(d, tbl_, page, i, saves) ==
    LET s    == FreeRow(tbl_, page, RowLen[page.rows[i]])
        left == [s.pg EXCEPT !.rows = RemoveAt(@, i)]
    IN  [db |-> saveTable(d, s.tbl, saves), tbl |-> s.tbl, pg |-> left]

\* saves: FALSE when the process is killed before saveTable.  The table is
\* not saved when its page is freed.
deleteData(d, tbl_, page, i, saves) ==
    LET s    == FreeRow(tbl_, page, RowLen[page.rows[i]])
        left == [s.pg EXCEPT !.rows = RemoveAt(@, i)]
        d1   == PutPage(d, left.page_number, left)
    IN  IF left.rows = <<>>
        THEN [db |-> freeRowPage(UnlinkPage(d, left), left, TRUE),
              tbl |-> s.tbl, pg |-> NoPage]
        ELSE [db |-> saveTable(d1, s.tbl, saves), tbl |-> s.tbl, pg |-> left]

MMovesSwapped(page, i, v) == page.free_space < RowLen[page.rows[i]] - RowLen[v]

\* The row does not fit any more: free_space < row_len_new - row_len_old, a
\* comparison of ints.
Moves(page, i, v) == page.free_space < RowLen[v] - RowLen[page.rows[i]]

MUpdateInPlaceWithoutWrap(tbl_, page, i, v) ==
    LET space == page.free_space + RowLen[v] - RowLen[page.rows[i]]
    IN  [tbl |-> tbl_,
         pg  |-> [page EXCEPT !.rows[i] = v, !.free_space = space]]

\* The row is changed in memory; nothing is written, and free_space grows by
\* what it should shrink by.
UpdateInPlace(tbl_, page, i, v) ==
    LET space == (page.free_space + RowLen[v] - RowLen[page.rows[i]]) % U16
    IN  [tbl |-> IF space < RowSize
                 THEN [tbl_ EXCEPT !.free_place = page.next_free] ELSE tbl_,
         pg  |-> [page EXCEPT !.rows[i] = v, !.free_space = space]]

----------------------------------------------------------------------------
(***************************************************************************)
(* What a call finds in the file                                           *)
(***************************************************************************)
\* readRowPage returns page n.  Past the end of the file it returns NULL; a
\* page whose rows run past its end is not read in this model.
Readable(d, e, n) == n \in 1 .. e /\ ~Overflows(d.file[n].rows)

\* Every page bears the number of its place.  Where they do not, after a close
\* with garbage in pages_offset, the program of this model only reads.
AtHome ==
    /\ \A n \in 1 .. eof : db.file[n] = ZeroPage \/ db.file[n].page_number = n
    /\ tbl.page_number \in DOMAIN db.file
    /\ pg # NoPage => pg.page_number \in DOMAIN db.file

\* The page insertData would add a row to can be read, or is yet to be made.
PlaceReadable(d, e, tbl_) ==
    IF tbl_.free_place = 0 THEN d.number_of_pages < MaxPages
    ELSE Readable(d, e, tbl_.free_place)

\* insertData takes from free_space more than there is.
Wraps(d, tbl_, v) ==
    LET space == IF tbl_.free_place = 0 THEN PageSpace
                 ELSE d.file[tbl_.free_place].free_space
    IN  space < RowLen[v] + LenSize

\* The page in memory is not what the file has in its place.
Stale == readRowPage(db, pg.page_number) # pg

\* How far the file reaches once the pages that differ in d are written.
Reach(d) == Max({eof} \cup {n \in DOMAIN d.file :
                                n \notin DOMAIN db.file \/ d.file[n] # db.file[n]})

Write(d) == db' = d /\ eof' = Reach(d) /\ UNCHANGED saved

\* The process ends, killed or in undefined behaviour.
Gone ==
    /\ pc' = "off" /\ tbl' = NullHandle /\ pg' = NoPage
    /\ at' = 0 /\ offset' = 0 /\ buf' = ZeroPage /\ UNCHANGED copy

Program == pc = "open" /\ UNCHANGED <<pc, closing>>
Writing == pc = "open" /\ tbl.st = "live" /\ AtHome

If(c, what) == IF c THEN {what} ELSE {}

----------------------------------------------------------------------------
(***************************************************************************)
(* Opening, the table, and its pages                                       *)
(***************************************************************************)
Init ==
    /\ pc = "off" /\ db = createDatabase /\ saved = NoHeader /\ eof = 0
    /\ tbl = NullHandle /\ pg = NoPage
    /\ copy = <<>> /\ at = 0 /\ offset = 0 /\ buf = ZeroPage
    /\ given = NoRows /\ harm = {} /\ count = NoCount

\* createDatabase truncates the file, or makes one.
CreateDatabase ==
    /\ pc = "off"
    /\ pc' = "open" /\ db' = createDatabase /\ saved' = EmptyHeader /\ eof' = 0
    /\ copy' = <<>>
    /\ given' = NoRows /\ harm' = {} /\ count' = NoCount
    /\ UNCHANGED <<tbl, pg, at, offset, buf>>

\* Pages the header or a link names are part of db.file, beyond eof as holes.
Named(h, pages) ==
    {h.number_of_pages, h.first_free_page, h.first_table_page}
        \cup UNION {{p.next, p.prev, p.next_free, p.free_place} : p \in ToSet(pages)}

OpenDatabase ==
    /\ pc = "off" /\ saved # NoHeader /\ count.opens < MaxOpens
    /\ LET pages  == SubSeq(db.file, 1, eof)
           length == Max({eof} \cup Named(saved, pages))
       IN  db' = [number_of_pages |-> saved.number_of_pages,
                  first_free_page |-> saved.first_free_page,
                  first_table_page |-> saved.first_table_page,
                  file |-> [n \in 1 .. length |->
                                IF n <= eof THEN db.file[n] ELSE ZeroPage]]
    /\ pc' = "open" /\ copy' = <<>>
    /\ Counted("opens")
    /\ UNCHANGED <<saved, eof, tbl, pg, at, offset, buf, given, harm>>

CreateTable ==
    /\ Program /\ db.first_table_page = 0 /\ db.number_of_pages < MaxPages
    /\ \E name \in Names :
         LET d == createTable(db, name, TRUE)
         IN  Write(d) /\ tbl' = readTable(d, d.first_table_page)
    /\ UNCHANGED <<pg, history>>

\* readTable returns NULL past the end of the file, which findTable looks
\* into; for a page that is no table it returns a struct it has freed.
FindTable ==
    /\ pc = "open"
    /\ LET n == db.first_table_page
       IN  IF n = 0 \/ (n <= eof /\ db.file[n].name # NoName)
           THEN /\ tbl' = IF n = 0 THEN NullHandle ELSE readTable(db, n)
                /\ UNCHANGED <<pc, pg, closing>>
           ELSE Gone
    /\ UNCHANGED <<file, history>>

\* The first page of the table, or the one after the page in memory.
ReadPage ==
    /\ Program /\ tbl.st = "live"
    /\ \E n \in {tbl.first_row_page} \cup {p.next : p \in {pg} \ {NoPage}} :
         /\ n # 0
         /\ \/ Readable(db, eof, n) /\ pg' = readRowPage(db, n)
            \/ n > eof /\ pg' = NoPage
    /\ UNCHANGED <<file, tbl, history>>

InsertData(v) ==
    /\ Writing /\ count.inserts < MaxInserts /\ PlaceReadable(db, eof, tbl)
    /\ LET done == insertData(db, tbl, v, TRUE, TRUE)
       IN  Write(done.db) /\ tbl' = done.tbl
    /\ Plus(v) /\ Counted("inserts") /\ Harmed(If(Wraps(db, tbl, v), "wrapped"))
    /\ UNCHANGED <<pc, pg, closing>>

\* Killed after the row page is written or before, and before the table is.
KilledInserting(v) ==
    /\ Writing /\ count.inserts < MaxInserts /\ PlaceReadable(db, eof, tbl)
    /\ \E wrote \in BOOLEAN : Write(insertData(db, tbl, v, wrote, FALSE).db)
    /\ Gone
    /\ Plus(v) /\ Counted("inserts")
    /\ Harmed({"killed"} \cup If(Wraps(db, tbl, v), "wrapped"))

\* The page at free_place is past the end of the file: NULL is dereferenced.
InsertNull ==
    /\ Writing /\ tbl.free_place > eof
    /\ Gone /\ UNCHANGED <<file, history>>

\* Row i of the page in memory can be taken out of the file.  A hole of the
\* file as next page, which would be written over page 0, is left out.
Deletable(i) ==
    /\ Writing /\ pg # NoPage /\ i \in DOMAIN pg.rows
    /\ Len(pg.rows) = 1 /\ pg.next # 0 =>
         Readable(db, eof, pg.next) /\ db.file[pg.next] # ZeroPage

DeleteData(i) ==
    /\ Deletable(i)
    /\ LET done == deleteData(db, tbl, pg, i, TRUE)
       IN  /\ Write(done.db) /\ tbl' = done.tbl /\ pg' = done.pg
           /\ Harmed(If(done.pg = NoPage, "emptied") \cup If(Stale, "stale"))
    /\ Minus(pg.rows[i])
    /\ UNCHANGED <<pc, closing, count>>

\* Killed before the table is saved, or before the page is freed.
KilledDeleting(i) ==
    /\ Deletable(i)
    /\ Write(IF Len(pg.rows) = 1 THEN UnlinkPage(db, pg)
             ELSE deleteData(db, tbl, pg, i, FALSE).db)
    /\ Gone
    /\ Harmed({"killed"})
    /\ UNCHANGED <<given, count>>

\* The page after the one that is emptied is past the end of the file.
DeleteNull ==
    /\ Writing /\ pg # NoPage /\ Len(pg.rows) = 1 /\ pg.next > eof
    /\ Gone /\ UNCHANGED <<file, history>>

UpdateInMemory(i, v) ==
    /\ Writing /\ pg # NoPage /\ i \in DOMAIN pg.rows /\ ~Moves(pg, i, v)
    /\ count.updates < MaxUpdates
    /\ LET done == UpdateInPlace(tbl, pg, i, v)
       IN  tbl' = done.tbl /\ pg' = done.pg
    /\ Plus(v) /\ Counted("updates")
    /\ Harmed({"updated"} \cup If(RowLen[v] # RowLen[pg.rows[i]], "resized"))
    /\ UNCHANGED <<pc, file, closing>>

\* deleteData, then insertData, of which pg in memory sees only the first.
UpdateMoves(i, v) ==
    /\ Deletable(i) /\ Moves(pg, i, v) /\ count.updates < MaxUpdates
    /\ LET cut  == deleteData(db, tbl, pg, i, TRUE)
           done == insertData(cut.db, cut.tbl, v, TRUE, TRUE)
       IN  /\ PlaceReadable(cut.db, eof, cut.tbl)
           /\ Write(done.db) /\ tbl' = done.tbl /\ pg' = cut.pg
           /\ Harmed(If(cut.pg = NoPage, "emptied") \cup If(Stale, "stale")
                        \cup If(Wraps(cut.db, cut.tbl, v), "wrapped"))
    /\ given' = [w \in Values |->
                    given[w] + (IF w = v THEN 1 ELSE 0)
                             - (IF w = pg.rows[i] /\ given[w] > 0 THEN 1 ELSE 0)]
    /\ Counted("updates")
    /\ UNCHANGED <<pc, closing>>

----------------------------------------------------------------------------
(***************************************************************************)
(* closeDatabase, and what happens to the file meanwhile                   *)
(***************************************************************************)
\* The new file is begun; page 0, which is copied first, is written again by
\* saveDatabase.
CloseDatabase ==
    /\ pc = "open"
    /\ pc' = "copying" /\ copy' = <<>> /\ at' = 1 /\ buf' = ZeroPage
    /\ offset' \in Garbage
    /\ Harmed(If(offset' # 0, "garbage"))
    /\ tbl' = NullHandle /\ pg' = NoPage
    /\ UNCHANGED <<file, given, count>>

MCopyPageOffsetStays ==
    /\ pc = "copying" /\ at <= db.number_of_pages
    /\ LET page  == IF at <= eof THEN db.file[at] ELSE buf
           moved == [page EXCEPT !.page_number = (@ - offset) % UINT32]
       IN  IF page.page_type = "FREE_PAGE"
           THEN /\ db' = [db EXCEPT !.number_of_pages = @ - 1]
                /\ buf' = page
                /\ UNCHANGED <<copy, offset>>
           ELSE /\ copy' = Append(copy, moved) /\ buf' = moved
                /\ UNCHANGED <<db, offset>>
    /\ at' = at + 1
    /\ Harmed(If(at > eof, "past end"))
    /\ UNCHANGED <<pc, saved, eof, tbl, pg, given, count>>

\* A turn of the loop.  Past the end of the file fread leaves in bin_pg the
\* page it had read before.
CopyPage ==
    /\ pc = "copying" /\ at <= db.number_of_pages
    /\ LET page  == IF at <= eof THEN db.file[at] ELSE buf
           moved == [page EXCEPT !.page_number = (@ - offset) % UINT32]
       IN  IF page.page_type = "FREE_PAGE"
           THEN /\ db' = [db EXCEPT !.number_of_pages = @ - 1]
                /\ offset' = (offset + 1) % UINT32 /\ buf' = page
                /\ UNCHANGED copy
           ELSE /\ copy' = Append(copy, moved) /\ buf' = moved
                /\ UNCHANGED <<db, offset>>
    /\ at' = at + 1
    /\ Harmed(If(at > eof, "past end"))
    /\ UNCHANGED <<pc, saved, eof, tbl, pg, given, count>>

MSaveDatabaseLastPageLeft ==
    /\ pc = "copying" /\ at >= db.number_of_pages
    /\ pc' = "copied"
    /\ UNCHANGED <<file, tbl, pg, closing, history>>

\* The loop ends: the header is saved to the new file, both files are closed.
SaveDatabase ==
    /\ pc = "copying" /\ at > db.number_of_pages
    /\ pc' = "copied"
    /\ UNCHANGED <<file, tbl, pg, closing, history>>

RemoveOld ==
    /\ pc = "copied"
    /\ pc' = "removed" /\ saved' = NoHeader
    /\ UNCHANGED <<db, eof, tbl, pg, closing, history>>

RenameNew ==
    /\ pc = "removed"
    /\ Gone
    /\ saved' = Header(db) /\ db' = [createDatabase EXCEPT !.file = copy]
    /\ eof' = Len(copy)
    /\ UNCHANGED history

Killed ==
    /\ pc # "off"
    /\ Gone
    /\ Harmed({"killed"})
    /\ UNCHANGED <<file, given, count>>

\* A server started on the file: createDatabase, then its port is taken and
\* it ends.  Once the file has been removed it makes another, which rename
\* replaces.
SecondServer ==
    /\ pc \in {"open", "copying", "copied"} /\ "truncated" \notin harm
    /\ saved' = EmptyHeader /\ eof' = 0
    /\ db' = [db EXCEPT !.file = [n \in DOMAIN @ |-> ZeroPage]]
    /\ Harmed({"truncated"})
    /\ UNCHANGED <<pc, tbl, pg, closing, given, count>>

Next ==
    \/ CreateDatabase \/ OpenDatabase \/ CreateTable \/ FindTable \/ ReadPage
    \/ \E v \in Values : InsertData(v) \/ KilledInserting(v)
    \/ InsertNull
    \/ \E i \in 1 .. MaxInserts : DeleteData(i) \/ KilledDeleting(i)
    \/ DeleteNull
    \/ \E i \in 1 .. MaxInserts, v \in Values : UpdateInMemory(i, v) \/ UpdateMoves(i, v)
    \/ CloseDatabase \/ CopyPage \/ SaveDatabase \/ RemoveOld \/ RenameNew
    \/ Killed \/ SecondServer

Spec == Init /\ [][Next]_vars
=============================================================================
