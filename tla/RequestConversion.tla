------------------------- MODULE RequestConversion -------------------------
(***************************************************************************)
(* request_processor.c in full: what process_client_request makes of the   *)
(* objects it is given, and queries.c as far as a statement's data matter: *)
(* the evaluation of conditions, and what executeQuery answers.            *)
(*                                                                         *)
(* There is one table at most (module BagTable).  The operators are given  *)
(* its columns, <<>> without a table; of its rows it matters which there   *)
(* are, not how often.                                                     *)
(***************************************************************************)
EXTENDS Bindings, Text, FiniteSetsExt

\* What a request comes to, before executeQuery.
Refuse == [does |-> "refuse"]
Crash == [does |-> "crash"]
Query(q) == [does |-> "query", query |-> q]

\* The member of the union Cell that the type of a value selects.
Member == <<"integer", "dbl", "str", "bl">>
cell(val) == val.has.cell.has[Member[val.has.type + 1]]

\* The first column of that name, 0 if there is none.
getColumnNumber(columns, name) ==
    LET at == {i \in DOMAIN columns : columns[i].column_name = name}
    IN  IF at = {} THEN 0 ELSE Min(at)

----------------------------------------------------------------------------
MCheckSchemeNoType(columns, colVals) ==
    /\ columns # <<>> /\ Len(colVals) = Len(columns)
    /\ \A i \in DOMAIN colVals : columns[i].column_name = colVals[i].has.col

checkScheme(columns, colVals) ==
    /\ columns # <<>> /\ Len(colVals) = Len(columns)
    /\ \A i \in DOMAIN colVals :
         /\ columns[i].column_name = colVals[i].has.col
         /\ columns[i].data_type = colVals[i].has.val.has.type

\* there is FALSE for the NULL that is returned for a column that is not there,
\* or is of another type.
getCond(columns, cond_) ==
    LET val    == cond_.has.value
        name   == cond_.has.column.has.col_name
        column == getColumnNumber(columns, name)
    IN  [there |-> column # 0 /\ columns[column].data_type = val.has.type,
         column_name |-> name, comp_type |-> cond_.has.comp_type, value |-> cell(val)]

\* The list that starts with an object and goes on while right is set.
getCompCond(columns, c_cond_) ==
    LET part[k \in Nat] == IF k = 0 THEN c_cond_ ELSE part[k - 1].has.right[1]
        last[k \in Nat] == IF "right" \in part[k].isset THEN last[k + 1] ELSE k
    IN  [k \in 1 .. last[0] + 1 |->
            [cond |-> getCond(columns, part[k - 1].has.left), op |-> part[k - 1].has.op]]

\* strdup of a string that has been read as NULL
CondCrashes(c_cond) ==
    \E k \in DOMAIN c_cond : c_cond[k].cond.there /\ c_cond[k].cond.value = NULL

RowCrashes(row) == \E i \in DOMAIN row : row[i] = NULL

----------------------------------------------------------------------------
createQuery(cr) ==
    Query([type |-> "CREATE",
           columns |-> [i \in DOMAIN cr.has.cols |-> cr.has.cols[i].has]])

insertQuery(ins, columns) ==
    LET rows == [i \in DOMAIN ins.has.rows |->
                    [y \in DOMAIN ins.has.rows[i] |-> cell(ins.has.rows[i][y].has.val)]]
    IN  IF \E i \in DOMAIN ins.has.rows : ~checkScheme(columns, ins.has.rows[i])
        THEN Refuse
        ELSE IF \E i \in DOMAIN rows : RowCrashes(rows[i]) THEN Crash
        ELSE Query([type |-> "INSERT", new_rows |-> {rows[i] : i \in DOMAIN rows}])

deleteQuery(dl, columns) ==
    IF "cond" \notin dl.isset THEN Query([type |-> "DELETE", where_conditions |-> <<>>])
    ELSE IF columns = <<>> THEN Refuse
    ELSE LET c_cond == getCompCond(columns, dl.has.cond)
         IN  IF CondCrashes(c_cond) THEN Crash
             ELSE Query([type |-> "DELETE", where_conditions |-> c_cond])

\* An UPDATE of a table that exists reaches executeQuery with no type set, and
\* a SELECT is never received.
process_client_request(stmt, columns) ==
    LET s == stmt.has.stmt.has
    IN  CASE stmt.has.st_type = CREATE_STMT -> createQuery(s.create_tbl)
          [] stmt.has.st_type = DROP_STMT -> Query([type |-> "DROP"])
          [] stmt.has.st_type = INSERT_STMT -> insertQuery(s.insert, columns)
          [] stmt.has.st_type = DELETE_STMT -> deleteQuery(s.dl, columns)
          [] stmt.has.st_type = UPDATE_STMT -> IF columns = <<>> THEN Refuse ELSE Crash
          [] stmt.has.st_type = SELECT_STMT -> Crash

----------------------------------------------------------------------------
\* compareInt and compareDouble; LIKE is false.
compareInt(c_type, val1, val2) ==
    CASE c_type = EQUALS_COMP -> val1 = val2
      [] c_type = NOT_EQUALS_COMP -> val1 # val2
      [] c_type = GREATER_COMP -> val1 > val2
      [] c_type = GREATER_EQUALS_COMP -> val1 >= val2
      [] c_type = LESS_COMP -> val1 < val2
      [] c_type = LESS_EQUALS_COMP -> val1 <= val2
      [] OTHER -> FALSE

compareBool(c_type, val1, val2) ==
    CASE c_type = EQUALS_COMP -> val1 = val2
      [] c_type = NOT_EQUALS_COMP -> val1 # val2
      [] OTHER -> FALSE

compareStr(c_type, str1, str2) ==
    IF c_type = LIKE_COMP THEN strstr(str1, str2)
    ELSE compareInt(c_type, strcmp(str1, str2), 0)

Yes == "yes"
No == "no"
Crashes == "crashes"

checkCondition(columns, cond, rw) ==
    IF ~cond.there THEN Crashes
    ELSE LET n     == getColumnNumber(columns, cond.column_name)
             type  == columns[n].data_type
             holds == CASE type \in {INT_TYPE, FLOAT_TYPE} ->
                             compareInt(cond.comp_type, rw[n], cond.value)
                        [] type = BOOL_TYPE -> compareBool(cond.comp_type, rw[n], cond.value)
                        [] type = STRING_TYPE -> compareStr(cond.comp_type, rw[n], cond.value)
         IN  IF holds THEN Yes ELSE No

\* From the first part on, until one settles it: yes before an OR, no before an
\* AND, whatever it is at the end.
checkCompoundCondition(columns, c_cond, rw) ==
    LET check(k)   == checkCondition(columns, c_cond[k].cond, rw)
        settles(k) == \/ k = Len(c_cond)
                      \/ check(k) \in {Crashes, IF c_cond[k].op = OR_OP THEN Yes ELSE No}
    IN  check(Min({k \in DOMAIN c_cond : settles(k)}))

----------------------------------------------------------------------------
(***************************************************************************)
(* executeQuery: the outcomes there can be, [ends, status, store].  A      *)
(* DELETE looks at one of the rows only.  It does not delete it: deleteData *)
(* is given a row number out of range, and *err was never set.             *)
(***************************************************************************)
Answers(status, store) == [ends |-> "answer", status |-> status, store |-> store]
Ends(how, store) == [ends |-> how, status |-> INTERNAL_ERROR, store |-> store]

Finds(c, store) ==
    CASE c = Yes -> {Answers(INTERNAL_ERROR, store), Answers(BAD_REQUEST, store)}
      [] c = No -> {Ends("loop", store)}
      [] c = Crashes -> {Ends("crash", store)}

executeDelete(q, store) ==
    IF store.rows = {} THEN {Answers(OK, store)}
    ELSE IF q.where_conditions = <<>> THEN {Answers(INTERNAL_ERROR, store)}
    ELSE UNION {Finds(c, store) :
                   c \in {checkCompoundCondition(store.columns, q.where_conditions, rw) :
                              rw \in store.rows}}

executeQuery(q, store) ==
    IF (q.type = "CREATE") # (store.columns = <<>>) THEN {Answers(BAD_REQUEST, store)}
    ELSE CASE q.type = "CREATE" -> {Answers(OK, [store EXCEPT !.columns = q.columns])}
           [] q.type = "DROP" ->
                {Answers(OK, [columns |-> <<>>, rows |-> {}, lossy |-> TRUE])}
           [] q.type = "INSERT" ->
                {Answers(OK, IF store.lossy THEN store
                             ELSE [store EXCEPT !.rows = @ \cup q.new_rows])}
           [] q.type = "DELETE" -> executeDelete(q, store)
=============================================================================
