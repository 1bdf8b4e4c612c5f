------------------------ MODULE TableStoreProperties ------------------------
(***************************************************************************)
(* What is checked of module TableStore.                                   *)
(***************************************************************************)
EXTENDS TableStore

\* The pages of the row list that begins at page n of a file of e pages.
ListFrom(pages, e, n) ==
    LET visited[k \in 0 .. Len(pages)] ==
            IF k = 0 THEN n
            ELSE LET m == visited[k - 1]
                 IN  IF m \in 1 .. e THEN pages[m].next ELSE 0
    IN  {visited[k] : k \in 0 .. Len(pages)} \cap 1 .. e

\* Where row v is: pages of the list, and places in them.
Places(pages, list, v) ==
    UNION {{n} \X {i \in DOMAIN pages[n].rows : pages[n].rows[i] = v} : n \in list}

RowsOf(pages, list) == [v \in Values |-> Cardinality(Places(pages, list, v))]

\* The row list of the table that header h leads to.
TableList(h, pages, e) ==
    LET first == h.first_table_page
    IN  IF first \in 1 .. e THEN ListFrom(pages, e, pages[first].next_free) ELSE {}

RowsIn(h, pages, e) == RowsOf(pages, TableList(h, pages, e))

\* The rows of the table as the process that has the file open finds them, or
\* the next one that opens it.
Stored == IF pc # "off" THEN RowsIn(db, db.file, eof)
          ELSE IF saved # NoHeader THEN RowsIn(saved, db.file, eof)
          ELSE NoRows

\* The pages in use and the page in memory.
RowPages == {db.file[n] : n \in 1 .. eof} \cup ({pg} \ {NoPage})

TypeOK ==
    /\ pc \in {"off", "open", "copying", "copied", "removed"}
    /\ db.number_of_pages \in Nat
    /\ \A n \in DOMAIN db.file : db.file[n] \in Page
    /\ eof \in 0 .. Len(db.file)
    /\ tbl \in Handle /\ pg \in Page \cup {NoPage}
    /\ copy \in Seq(Page) /\ at \in Nat /\ offset \in 0 .. UINT32 - 1
    /\ given \in [Values -> Nat]

(* The library may lose rows, but it never makes one up: whatever page is  *)
(* emptied, freed twice or handed out twice, wherever the process is       *)
(* killed, whatever closeDatabase cuts off and whoever truncates the file, *)
(* the row list holds no row more often than a caller has given it and not *)
(* deleted it (insertData, deleteData, updateData, closeDatabase).  The    *)
(* exception is a close that reads past the end of a file cut off before:  *)
(* the loop then copies the page it had read last once more.               *)
NoRowMadeUp == "past end" \notin harm => \A v \in Values : Stored[v] <= given[v]

(* And it loses none but for a cause that is known: a page was emptied, a  *)
(* page in memory was written over newer rows, a row was updated in place, *)
(* free_space wrapped around, the process was killed, pages_offset held    *)
(* garbage, or a server was started on the file.  Until then the table     *)
(* holds exactly the rows given, over every close and open.                *)
RowsKept ==
    harm = {} => CASE pc = "off" /\ saved = NoHeader -> given = NoRows
                   [] pc = "removed" -> RowsIn(db, copy, Len(copy)) = given
                   [] OTHER -> Stored = given

(* deleteData gives back the bytes of a row and keeps those of its entry   *)
(* in row_lens: free_space may fall behind what is free, and never exceeds *)
(* it, so that no insert runs past a page, until it wraps around or an     *)
(* update has added to it what it should have subtracted.                  *)
SpaceNotOverstated ==
    harm \cap {"wrapped", "resized"} = {} =>
        \A p \in RowPages : p.page_type = "ROW_PAGE" =>
            p.free_space + PageBytes(p.rows) <= PageSpace

(* The comparison that decides whether updateData changes the row where it *)
(* is holds for shorter rows as well as for longer ones: the first update  *)
(* leaves a page in memory that still fits.                                *)
UpdatedRowFits ==
    count.updates <= 1 /\ "wrapped" \notin harm /\ pg # NoPage => ~Overflows(pg.rows)

(* closeDatabase counts the free pages it leaves out, so that each page it *)
(* writes to the new file bears the number of its new place, although no   *)
(* link is changed, unless pages_offset began as garbage or the file was   *)
(* read past its end.  Holes, pages never written, are copied as well and  *)
(* bear no number.                                                         *)
CopyNumbered ==
    /\ pc \in {"copying", "copied", "removed"}
    /\ harm \cap {"garbage", "past end"} = {}
    => \A n \in DOMAIN copy : \/ copy[n].page_type = "DATABASE_MAIN"
                             \/ copy[n].page_number = n

(* Between remove and rename no name leads to the database, and a kill     *)
(* there leaves only new_file.bin: by then it holds the rows of every page *)
(* of the old file that closeDatabase visited and that is not free.        *)
CopyHasThePages ==
    pc \in {"copied", "removed"} /\ "truncated" \notin harm =>
        \A n \in 1 .. Min({eof, db.number_of_pages}) :
            db.file[n].page_type = "FREE_PAGE"
            \/ \E m \in DOMAIN copy : copy[m].rows = db.file[n].rows

\* The rows of the pages ahead of page n in the row list.
RowsAhead(n) ==
    LET list == TableList(db, db.file, eof)
    IN  RowsOf(db.file, list \ ListFrom(db.file, eof, n))

(* deleteData on a page as the file has it takes one row, except that with *)
(* the last row of its page it takes every page behind that one in the     *)
(* list: nothing knows the page before it, whose link would have to be     *)
(* changed.                                                                *)
DeleteTakesOneRow ==
    [][\A i \in 1 .. MaxInserts :
         DeleteData(i) /\ harm = {} /\ harm' \subseteq {"emptied"} =>
         Stored' = IF Len(pg.rows) = 1 THEN RowsAhead(pg.page_number)
                   ELSE [Stored EXCEPT ![pg.rows[i]] = @ - 1]]_vars

----------------------------------------------------------------------------
(* lab1_llp.c, after closeDatabase, opens the file again, looks its table  *)
(* up and prints its rows: the new file has the rows of the old one        *)
(* (closeDatabase, with pages_offset found to be 0).                       *)
ReopenedAsClosed ==
    pc = "removed" /\ harm \cap {"garbage", "truncated"} = {} =>
        RowsIn(db, copy, Len(copy)) = RowsIn(db, db.file, eof)
=============================================================================
