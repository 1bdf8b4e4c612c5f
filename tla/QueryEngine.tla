---------------------------- MODULE QueryEngine ----------------------------
(***************************************************************************)
(* executeQuery of src/lab1/queries.c on the page file of module Pages.    *)
(*                                                                         *)
(* One statement is executed at a time (the server is single-threaded).    *)
(* A step is one iteration of the loops of the code: one table visited by  *)
(* findTable, one row inserted, one page freed by dropTable, one page      *)
(* scanned by SELECT or DELETE.  Where the code leaves the defined part of *)
(* C the step has every outcome the build shows, "crashed" being one; a    *)
(* restarted server begins with an empty file (createDatabase truncates).  *)
(***************************************************************************)
EXTENDS Pages

CONSTANTS
    Batches,    \* the row lists of INSERT statements
    Wheres,     \* the conditions of SELECT and DELETE statements
    MaxFaults,  \* bound: writes to the file that fail before it is recreated
    MaxRows,    \* bound: rows in the file after an INSERT that is accepted
    MaxPages    \* bound: pages in the file after an INSERT that is accepted

ASSUME BatchesAssumption == Batches \subseteq Seq(Values) \ {<<>>}
ASSUME BoundAssumption == {MaxFaults, MaxRows, MaxPages} \subseteq Nat

(***************************************************************************)
(* A condition, up to what it makes of each row: match, the rows for which *)
(* checkCompoundCondition returns true, and bad, those for which it meets  *)
(* a column the table lacks and sets *err.  given is FALSE without WHERE.  *)
(***************************************************************************)
NoWhere == [given |-> FALSE, match |-> Values, bad |-> {}]
Where == [given : BOOLEAN, match : SUBSET Values, bad : SUBSET Values]
ASSUME WheresAssumption == Wheres \subseteq Where /\ NoWhere \in Wheres

Statement == [op : {"CREATE", "DROP", "INSERT", "SELECT", "UPDATE", "DELETE"},
              name : Names, rows : Batches \cup {<<>>},
              where : Wheres, join : BOOLEAN]

\* The statements a client can send: each sets the parts its op reads.
Requests ==
    {s \in Statement : /\ (s.op = "INSERT") <=> (s.rows # <<>>)
                       /\ s.op \notin {"SELECT", "DELETE"} => s.where = NoWhere
                       /\ s.join => s.op = "SELECT" /\ s.where = NoWhere}

Counts == [Values -> Nat]
NoRows == [v \in Values |-> 0]

Reply == [status : {"none", "OK", "BAD_REQUEST", "INTERNAL_ERROR", "garbage"},
          rows : Counts, junk : BOOLEAN]
NoReply == [status |-> "none", rows |-> NoRows, junk |-> FALSE]

VARIABLES
    db,      \* the database: header in memory and pages of the file
    faults,  \* how many writes to the file have failed
    pc,      \* "idle", "find" (in findTable), "run" (past it), "crashed"
    stmt,    \* the statement being executed or, when idle, the last one
    tbl,     \* the table* returned, or being returned, by findTable
    cursor,  \* findTable: the page to visit next
    todo,    \* executeInsert: the rows still to insert
    found,   \* executeSelect: the rows selected so far, per value
    junk,    \* executeSelect: a row cut off by the end of its page was read
    reply    \* the query_result of the last statement

disk == <<db, faults>>
vars == <<db, faults, pc, stmt, tbl, cursor, todo, found, junk, reply>>
locals == <<tbl, cursor, todo, found, junk>>

TypeOK ==
    /\ db \in Database
    /\ faults \in 0 .. MaxFaults
    /\ pc \in {"idle", "find", "run", "crashed"}
    /\ stmt \in Statement
    /\ tbl \in Handle
    /\ cursor \in Nat
    /\ todo \in Seq(Values)
    /\ found \in Counts
    /\ junk \in BOOLEAN
    /\ reply \in Reply

Init ==
    /\ db = createDatabase /\ faults = 0
    /\ pc = "idle"
    /\ stmt \in {s \in Requests : s.op = "CREATE"}
    /\ tbl = NullHandle /\ cursor = 0 /\ todo = <<>>
    /\ found = NoRows /\ junk = FALSE
    /\ reply = NoReply

----------------------------------------------------------------------------
ClearLocals ==
    /\ tbl' = NullHandle /\ cursor' = 0 /\ todo' = <<>>
    /\ found' = NoRows /\ junk' = FALSE

\* set_result (its text aside), and the return of executeQuery.
Return(r) == pc' = "idle" /\ reply' = r /\ ClearLocals /\ UNCHANGED stmt

set_result(status) ==
    Return([status |-> status, rows |-> NoRows, junk |-> FALSE])

\* The process ends; nothing it held in memory or in the file is used again.
Crash ==
    /\ pc' = "crashed" /\ reply' = NoReply /\ ClearLocals
    /\ UNCHANGED <<disk, stmt>>

\* The result of a write to the file.
Writes(ok) ==
    /\ ok \/ faults < MaxFaults
    /\ faults' = IF ok THEN faults ELSE faults + 1

Running(op, st) == pc = "run" /\ stmt.op = op /\ tbl.st = st

RowsInFile == FoldLeft(LAMBDA n, p : n + Len(p.rows), 0, db.file)

\* executeQuery is called: every operation begins with findTable.
Request(s) ==
    /\ pc = "idle"
    /\ s.op = "INSERT" => /\ RowsInFile + Len(s.rows) <= MaxRows
                          /\ db.number_of_pages + Len(s.rows) <= MaxPages
    /\ pc' = "find"
    /\ stmt' = s
    /\ cursor' = db.first_table_page
    /\ tbl' = NullHandle
    /\ todo' = s.rows
    /\ reply' = NoReply
    /\ UNCHANGED <<disk, found, junk>>

----------------------------------------------------------------------------
(***************************************************************************)
(* findTable.  A table whose name differs is deallocated, and its pointer  *)
(* is what the loop returns when the list ends.                            *)
(***************************************************************************)
FindVisit ==
    /\ pc = "find" /\ cursor # 0
    /\ LET t == readTable(db, cursor)
       IN  IF t.name = stmt.name
           THEN tbl' = t /\ pc' = "run" /\ cursor' = 0
           ELSE /\ tbl' = [t EXCEPT !.st = "freed"]
                /\ cursor' = t.next_table
                /\ UNCHANGED pc
    /\ UNCHANGED <<disk, stmt, todo, found, junk, reply>>

FindEnd ==
    /\ pc = "find" /\ cursor = 0
    /\ pc' = "run"
    /\ UNCHANGED <<disk, stmt, tbl, cursor, todo, found, junk, reply>>

\* The page is not a table page: bytes of rows are read as the number of
\* columns, or the page never reached the file.
FindCrash ==
    /\ pc = "find" /\ cursor # 0
    /\ db.file[cursor].rows # <<>> \/ db.file[cursor] = ZeroPage
    /\ Crash

----------------------------------------------------------------------------
(***************************************************************************)
(* The answers that need only the pointer findTable returned.              *)
(***************************************************************************)
TableNotFound ==
    /\ \E op \in {"DROP", "INSERT", "SELECT", "DELETE"} : Running(op, "null")
    /\ set_result("BAD_REQUEST")
    /\ UNCHANGED disk

\* CREATE, and UPDATE for which it is a mistake, refuse any pointer but NULL;
\* with one that was freed the answer is reached when free lets it pass.
TableAlreadyExists ==
    /\ \E op \in {"CREATE", "UPDATE"}, st \in {"live", "freed"} : Running(op, st)
    /\ set_result("BAD_REQUEST")
    /\ UNCHANGED disk

\* iterateTable(db, NULL).
UpdateNull == Running("UPDATE", "null") /\ Crash

\* A pointer to a deallocated table is freed again, or its header is read.
FreedTableCrash ==
    /\ \E op \in {"CREATE", "UPDATE", "DROP", "INSERT"} : Running(op, "freed")
    /\ Crash

\* tbl->iterator outlives the free; a page is looked for only if it is not 0.
FreedTableScan ==
    /\ \E op \in {"SELECT", "DELETE"} : Running(op, "freed")
    /\ ~stmt.join
    /\ \/ tbl.iterator = 0 /\ set_result("OK") /\ UNCHANGED disk
       \/ tbl.iterator # 0 /\ Crash

\* joinSelect ends without a return: its caller gets whatever is there.
JoinSelect ==
    /\ stmt.join
    /\ \E st \in {"live", "freed"} : Running("SELECT", st)
    /\ \/ set_result("garbage") /\ UNCHANGED disk
       \/ Crash

----------------------------------------------------------------------------
(***************************************************************************)
(* CREATE and DROP                                                         *)
(***************************************************************************)
CreateTable ==
    /\ Running("CREATE", "null")
    /\ \E saved \in BOOLEAN :
         /\ Writes(saved)
         /\ db' = createTable(db, stmt.name, saved)
         /\ IF saved THEN set_result("OK")
                     ELSE set_result("INTERNAL_ERROR")

\* What readRowPage makes of the page under tbl->iterator.
Reads(outcome) ==
    /\ tbl.iterator # 0
    /\ outcome \in ReadOutcomes(db.file[tbl.iterator])

MDropRowPageStays ==
    /\ Running("DROP", "live") /\ Reads("page")
    /\ LET pg == readRowPage(db, tbl.iterator)
       IN  \E ok \in BOOLEAN : Writes(ok) /\ db' = freeRowPage(db, pg, ok)
    /\ UNCHANGED <<pc, stmt, tbl, cursor, todo, found, junk, reply>>

DropRowPage ==
    /\ Running("DROP", "live") /\ Reads("page")
    /\ LET pg == readRowPage(db, tbl.iterator)
       IN  /\ \E ok \in BOOLEAN : Writes(ok) /\ db' = freeRowPage(db, pg, ok)
           /\ tbl' = [tbl EXCEPT !.iterator = pg.next]
    /\ UNCHANGED <<pc, stmt, cursor, todo, found, junk, reply>>

\* iterateTable returns NULL without moving on, and the loop tries again.
DropSpin ==
    /\ Running("DROP", "live") /\ Reads("null")
    /\ UNCHANGED vars

DropTablePage ==
    /\ Running("DROP", "live") /\ tbl.iterator = 0
    /\ \E ok \in BOOLEAN : Writes(ok) /\ db' = freeTablePage(db, tbl, ok)
    /\ set_result("OK")

----------------------------------------------------------------------------
(***************************************************************************)
(* INSERT                                                                  *)
(***************************************************************************)
\* The page the row goes to can be read, or is new.
PlaceReads(outcome) ==
    IF tbl.free_place = 0 THEN outcome = "page"
    ELSE outcome \in ReadOutcomes(db.file[tbl.free_place])

InsertRow ==
    /\ Running("INSERT", "live") /\ todo # <<>> /\ PlaceReads("page")
    /\ \E wrote, saved \in BOOLEAN :
         LET res == insertData(db, tbl, Head(todo), wrote, saved)
         IN  /\ saved => wrote
             /\ Writes(saved)
             /\ db' = res.db
             /\ IF saved
                THEN /\ tbl' = res.tbl
                     /\ todo' = Tail(todo)
                     /\ UNCHANGED <<pc, stmt, cursor, found, junk, reply>>
                ELSE set_result("INTERNAL_ERROR")

\* pg is NULL (unreadable, or createRowPage failed), or the row is written
\* past the end of bin_pg.
InsertCrash ==
    /\ Running("INSERT", "live") /\ todo # <<>>
    /\ \/ PlaceReads("null") \/ PlaceReads("crash")
       \/ faults < MaxFaults /\ tbl.free_place = 0
       \/ Overflows(Append(getTableFreePage(db, tbl).pg.rows, Head(todo)))
    /\ Crash

InsertDone ==
    /\ Running("INSERT", "live") /\ todo = <<>>
    /\ set_result("OK")
    /\ UNCHANGED disk

----------------------------------------------------------------------------
(***************************************************************************)
(* SELECT and DELETE: iterateTable until it returns NULL                   *)
(***************************************************************************)
Scanning(op) == Running(op, "live") /\ ~stmt.join
AtPage(op) == Scanning(op) /\ Reads("page")

MNextPageNextFree ==
    tbl' = [tbl EXCEPT !.iterator = db.file[tbl.iterator].next_free]

NextPage == tbl' = [tbl EXCEPT !.iterator = db.file[tbl.iterator].next]

MSelectedUnfiltered(rows, match) ==
    [v \in Values |-> Cardinality({i \in DOMAIN rows : rows[i] = v})]

\* The whole rows of a page that satisfy the condition, per value.
Selected(rows, match) ==
    [v \in Values |->
        IF v \in match
        THEN Cardinality({i \in DOMAIN rows : rows[i] = v /\ Intact(rows, i)})
        ELSE 0]

SelectPage ==
    /\ AtPage("SELECT")
    /\ LET rows == db.file[tbl.iterator].rows
           more == Selected(rows, stmt.where.match)
       IN  /\ found' = [v \in Values |-> found[v] + more[v]]
           /\ junk' = (junk \/ Overflows(rows))
    /\ NextPage
    /\ UNCHANGED <<disk, pc, stmt, cursor, todo, reply>>

ScanEnds(op) == Scanning(op) /\ (tbl.iterator = 0 \/ Reads("null"))

SelectEnd ==
    /\ ScanEnds("SELECT")
    /\ Return([status |-> "OK", rows |-> found, junk |-> junk])
    /\ UNCHANGED disk

DeleteEnd ==
    /\ ScanEnds("DELETE")
    /\ set_result("OK")
    /\ UNCHANGED disk

ScanCrash ==
    /\ \E op \in {"SELECT", "DELETE", "DROP"} : Running(op, "live")
    /\ ~stmt.join /\ Reads("crash")
    /\ Crash

DeleteEmptyPage ==
    /\ AtPage("DELETE") /\ db.file[tbl.iterator].rows = <<>>
    /\ NextPage
    /\ UNCHANGED <<disk, pc, stmt, cursor, todo, found, junk, reply>>

\* iterateRowPage returns the first row for ever; it satisfies the condition
\* or not, and a row cut off by the end of the page may do either.
FirstRow(matches) ==
    /\ AtPage("DELETE") /\ db.file[tbl.iterator].rows # <<>>
    /\ LET rows == db.file[tbl.iterator].rows
       IN  Intact(rows, 1) => matches = (rows[1] \in stmt.where.match)

\* deleteData is asked for row 65535, which no page has; *err was never set
\* unless the evaluation met an unknown column.
DeleteFirstRow ==
    /\ FirstRow(TRUE)
    /\ \E err \in BOOLEAN :
         /\ db.file[tbl.iterator].rows[1] \in stmt.where.bad => err
         /\ IF stmt.where.given /\ err
            THEN set_result("BAD_REQUEST")
            ELSE set_result("INTERNAL_ERROR")
    /\ UNCHANGED disk

DeleteSpin == FirstRow(FALSE) /\ UNCHANGED vars

----------------------------------------------------------------------------
\* server.c starts with createDatabase, which truncates the file.
Restart ==
    /\ pc = "crashed"
    /\ db' = createDatabase /\ faults' = 0
    /\ pc' = "idle"
    /\ UNCHANGED <<stmt, reply, locals>>

Step ==
    \/ FindVisit \/ FindEnd \/ FindCrash
    \/ TableNotFound \/ TableAlreadyExists \/ UpdateNull
    \/ FreedTableCrash \/ FreedTableScan \/ JoinSelect
    \/ CreateTable
    \/ DropRowPage \/ DropSpin \/ DropTablePage
    \/ InsertRow \/ InsertCrash \/ InsertDone
    \/ SelectPage \/ SelectEnd \/ ScanCrash
    \/ DeleteEmptyPage \/ DeleteFirstRow \/ DeleteSpin \/ DeleteEnd

Next == (\E s \in Requests : Request(s)) \/ Step \/ Restart

Spec == Init /\ [][Next]_vars

\* A running process goes on; clients, and whoever restarts it, may stop.
FairSpec == Spec /\ WF_vars(Step)

=============================================================================
