-------------------------------- MODULE Linq --------------------------------
(***************************************************************************)
(* From a typed line to the tree of its statement: the grammar actions of  *)
(* parserLINQ.y and the functions of data.c they call.                     *)
(*                                                                         *)
(* A line is a record that holds what the tokens hold; a linked list is a  *)
(* sequence.  A literal is [int |-> n], [float |-> x], [bool |-> b] or     *)
(* [str |-> s].  The conditions of a WHERE are a sequence of               *)
(* [row, column, comp, value, then]: row is NULL outside a SELECT, and then *)
(* is the operator that follows.                                           *)
(***************************************************************************)
EXTENDS Enums, Sequences, SequencesExt

CONSTANTS
    Names,    \* what the token NAME can hold
    Strings,  \* STRING
    Floats,   \* FLOAT
    UINT32    \* 2^32, scaled down

ASSUME UINT32Assumption == UINT32 \in Nat \ {0}
ASSUME NullAssumption == NULL \notin Names \cup Strings \cup Floats \cup Int \cup BOOLEAN

UINT16 == 65536
CellSize == 8   \* sizeof(Cell)

----------------------------------------------------------------------------
(***************************************************************************)
(* data.c                                                                  *)
(***************************************************************************)
createColumn(col_name, type) ==
    [column_name |-> col_name, data_type |-> type, size |-> CellSize]

MCreateStringColumnAsCell(col_name, str_len) ==
    [column_name |-> col_name, data_type |-> STRING_TYPE, size |-> CellSize]

createStringColumn(col_name, str_len) ==
    [column_name |-> col_name, data_type |-> STRING_TYPE, size |-> str_len % UINT16]

createCreateStatement(table_name, colList) ==
    [st_type |-> CREATE_STMT, tblName |-> table_name, cols |-> colList]

createDropStatement(tbl_name) == [st_type |-> DROP_STMT, tblName |-> tbl_name]

createColumnValue(col_name, val) == [col |-> col_name, val |-> val]

createInsertStatement(tbl_name, rows) ==
    [st_type |-> INSERT_STMT, tblName |-> tbl_name, rows |-> rows]

Val(type, cell) == [type |-> type, cell |-> cell]

\* The parameter is a uint32_t, the cell an int64_t.
createIntValue(intValue) == Val(INT_TYPE, intValue % UINT32)
createBoolValue(bl) == Val(BOOL_TYPE, bl)
createString(str) == Val(STRING_TYPE, str)
createFloatValue(dbl) == Val(FLOAT_TYPE, dbl)

createTableColumn(row_name, col_name) == [row_name |-> row_name, col_name |-> col_name]

createCondition(col_name, type, val) ==
    [column |-> col_name, comp_type |-> type, value |-> val]

\* Its right part is the rest of the sequence it is in.
createCompoundCondition(left, op) == [left |-> left, op |-> op]

createProjection(new_col, src) == [new_col |-> new_col, src |-> src]
createSelectList(rowName, projList) == [rowName |-> rowName, projList |-> projList]
createJoin(rowName, tblName, left_col, right_col) ==
    [rowName |-> rowName, tblName |-> tblName,
     left_col |-> left_col, right_col |-> right_col]

createSelectStatement(rowName, tblName, join, where, select) ==
    [st_type |-> SELECT_STMT, rowName |-> rowName, tblName |-> tblName,
     join |-> join, where |-> where, select |-> select]

createUpdateStatement(tblName, colVals, cond) ==
    [st_type |-> UPDATE_STMT, tblName |-> tblName, colVals |-> colVals, cond |-> cond]

createDeleteStatement(tblName, cond) ==
    [st_type |-> DELETE_STMT, tblName |-> tblName, cond |-> cond]

----------------------------------------------------------------------------
(***************************************************************************)
(* The tokens of lexerLINQ.l that carry a number of an enumeration         *)
(***************************************************************************)
CompType ==
    [comp \in {"=", "!=", ">", "<", ">=", "<=", "LIKE"} |->
        CASE comp = "=" -> EQUALS_COMP          [] comp = "!=" -> NOT_EQUALS_COMP
          [] comp = ">" -> GREATER_COMP         [] comp = "<" -> LESS_COMP
          [] comp = ">=" -> GREATER_EQUALS_COMP [] comp = "<=" -> LESS_EQUALS_COMP
          [] comp = "LIKE" -> LIKE_COMP]
LogicOp == [AND |-> AND_OP, OR |-> OR_OP]
ValType == [INT |-> INT_TYPE, FLOAT |-> FLOAT_TYPE, BOOL |-> BOOL_TYPE]

----------------------------------------------------------------------------
(***************************************************************************)
(* The lines that the grammar accepts.  Every list but a WHERE has a       *)
(* member.                                                                 *)
(***************************************************************************)
ListOf(S) == Seq(S) \ {<<>>}

Literals == [int : Int] \cup [float : Floats] \cup [bool : BOOLEAN] \cup [str : Strings]
ColumnDefinitions ==
    [name : Names, type : DOMAIN ValType]
      \cup [name : Names, type : {"VARCHAR"}, size : Nat \ {0}]
ColumnValues == [column : Names, value : Literals]
FullNames == [row : Names, column : Names]

\* CONTAINS takes a STRING, the other comparisons any literal.
WhereParts(rows) ==
    LET Part(comps, values) == [row : rows, column : Names, comp : comps, value : values,
                                then : {"AND", "OR", "none"}]
    IN  Part(DOMAIN CompType \ {"LIKE"}, Literals) \cup Part({"LIKE"}, [str : Strings])

Wheres(rows) ==
    {w \in Seq(WhereParts(rows)) : \A i \in DOMAIN w : w[i].then = "none" <=> i = Len(w)}

Joins == [row : Names, table : Names, left : FullNames, right : FullNames]
SelectLists ==
    [row : Names] \cup [projections : ListOf([new : Names, src : FullNames])]

Grammar ==
    [op : {"CREATE"}, table : Names, columns : ListOf(ColumnDefinitions)]
      \cup [op : {"DROP"}, table : Names]
      \cup [op : {"ADD"}, table : Names, rows : ListOf(ListOf(ColumnValues))]
      \cup [op : {"REMOVE"}, table : Names, where : Wheres({NULL})]
      \cup [op : {"UPDATE"}, table : Names, row : ListOf(ColumnValues), where : Wheres({NULL})]
      \cup [op : {"SELECT"}, table : Names, row : Names, join : Joins \cup {NULL},
            where : Wheres(Names), select : SelectLists]

----------------------------------------------------------------------------
(***************************************************************************)
(* parserLINQ.y                                                            *)
(***************************************************************************)
columnDefinition(d) ==
    IF d.type = "VARCHAR" THEN createStringColumn(d.name, d.size)
    ELSE createColumn(d.name, ValType[d.type])

value(lit) ==
    CASE "int" \in DOMAIN lit -> createIntValue(lit.int)
      [] "float" \in DOMAIN lit -> createFloatValue(lit.float)
      [] "bool" \in DOMAIN lit -> createBoolValue(lit.bool)
      [] "str" \in DOMAIN lit -> createString(lit.str)

columnValueList(row) ==
    [i \in DOMAIN row |-> createColumnValue(row[i].column, value(row[i].value))]

insertList(rows) == [i \in DOMAIN rows |-> columnValueList(rows[i])]

condition(c) ==
    createCondition(createTableColumn(c.row, c.column), CompType[c.comp], value(c.value))

MCompoundConditionFirstOp(where) ==
    [i \in DOMAIN where |->
        createCompoundCondition(condition(where[i]),
            IF i = Len(where) THEN OR_OP ELSE LogicOp[where[1].then])]

\* The rule is right recursive, whatever the operators; the last part has
\* OR_OP.  Without a WHERE the condition is NULL, which is <<>>.
compound_condition(where) ==
    [i \in DOMAIN where |->
        createCompoundCondition(condition(where[i]),
            IF i = Len(where) THEN OR_OP ELSE LogicOp[where[i].then])]

fullColumnName(c) == createTableColumn(c.row, c.column)

joinStatement(j) ==
    IF j = NULL THEN NULL
    ELSE createJoin(j.row, j.table, fullColumnName(j.left), fullColumnName(j.right))

selectList(s) ==
    IF "projections" \in DOMAIN s
    THEN createSelectList(NULL, [i \in DOMAIN s.projections |->
             createProjection(s.projections[i].new, fullColumnName(s.projections[i].src))])
    ELSE createSelectList(s.row, NULL)

\* yyparse of a line with a statement in it.  createSelectStatement is called
\* with the table in the place of the row and the row in that of the table.
parse_statement(line) ==
    CASE line.op = "CREATE" ->
           createCreateStatement(line.table,
               [i \in DOMAIN line.columns |-> columnDefinition(line.columns[i])])
      [] line.op = "DROP" -> createDropStatement(line.table)
      [] line.op = "ADD" -> createInsertStatement(line.table, insertList(line.rows))
      [] line.op = "REMOVE" ->
           createDeleteStatement(line.table, compound_condition(line.where))
      [] line.op = "UPDATE" ->
           createUpdateStatement(line.table, columnValueList(line.row),
                                 compound_condition(line.where))
      [] line.op = "SELECT" ->
           createSelectStatement(line.table, line.row, joinStatement(line.join),
                                 compound_condition(line.where),
                                 selectList(line.select))
=============================================================================
