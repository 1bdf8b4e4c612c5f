----------------------------- MODULE Serializer -----------------------------
(***************************************************************************)
(* serializer.c: from the tree of a statement to the objects that Thrift   *)
(* sends, one operator per function.                                       *)
(***************************************************************************)
EXTENDS Linq, Wire

Set2(o, m1, v1, m2, v2) == Set(Set(o, m1, v1), m2, v2)

serialize_column(col) ==
    Set(Set2(New("Column_"), "column_name", col.column_name, "data_type", col.data_type),
        "size", col.size)

serialize_cr(cr) ==
    Set2(New("CreateStmt_"), "tblName", cr.tblName,
         "cols", [i \in DOMAIN cr.cols |-> serialize_column(cr.cols[i])])

serialize_dr(dr) == Set(New("DropStmt_"), "tblName", dr.tblName)

serialize_cell(val) ==
    Set(New("Cell_"), CASE val.type = INT_TYPE -> "integer"
                        [] val.type = BOOL_TYPE -> "bl"
                        [] val.type = FLOAT_TYPE -> "dbl"
                        [] val.type = STRING_TYPE -> "str", val.cell)

serialize_val(val) == Set2(New("Val_"), "cell", serialize_cell(val), "type", val.type)

serialize_row(row) ==
    [i \in DOMAIN row |-> Set2(New("ColVal_"), "col", row[i].col,
                                               "val", serialize_val(row[i].val))]

serialize_ins(ins) ==
    Set2(New("InsertStmt_"), "tblName", ins.tblName,
         "rows", [i \in DOMAIN ins.rows |-> serialize_row(ins.rows[i])])

serialize_cond(c) ==
    LET name == Set(New("FullColumnName_"), "col_name", c.column.col_name)
        fcn  == IF c.column.row_name = NULL THEN name
                ELSE Set(name, "row_name", c.column.row_name)
    IN  Set(Set2(New("Condition_"), "column", fcn, "comp_type", c.comp_type),
            "value", serialize_val(c.value))

MSerializeCCondRightUnset(c_cond) ==
    LET part[i \in DOMAIN c_cond] ==
            LET c == Set2(New("CompoundCondition_"), "op", c_cond[i].op,
                          "left", serialize_cond(c_cond[i].left))
            IN  IF i = Len(c_cond) THEN c
                ELSE [c EXCEPT !.has.right = <<part[i + 1]>>]
    IN  part[1]

\* right is a list of at most one; it is appended to and its flag set by hand.
serialize_c_cond(c_cond) ==
    LET part[i \in DOMAIN c_cond] ==
            LET c == Set2(New("CompoundCondition_"), "op", c_cond[i].op,
                          "left", serialize_cond(c_cond[i].left))
            IN  IF i = Len(c_cond) THEN c
                ELSE [c EXCEPT !.has.right = Append(@, part[i + 1]),
                               !.isset = @ \cup {"right"}]
    IN  part[1]

serialize_sel(sel) == NoObject

serialize_del(del) ==
    LET dl == Set(New("DeleteStmt_"), "tblName", del.tblName)
    IN  IF del.cond = <<>> THEN dl ELSE Set(dl, "cond", serialize_c_cond(del.cond))

\* The new row is built and never set.
serialize_upd(upd) ==
    Set2(New("UpdateStmt_"), "tblName", upd.tblName, "cond", serialize_c_cond(upd.cond))

\* The member of the union that is set goes by the type.
serialize_stmt(stmt) ==
    LET ser_stmt == New("Stmt_")
    IN  CASE stmt.st_type = CREATE_STMT -> Set(ser_stmt, "create_tbl", serialize_cr(stmt))
          [] stmt.st_type = DROP_STMT -> Set(ser_stmt, "drop_tbl", serialize_dr(stmt))
          [] stmt.st_type = INSERT_STMT -> Set(ser_stmt, "insert", serialize_ins(stmt))
          [] stmt.st_type = DELETE_STMT -> Set(ser_stmt, "dl", serialize_del(stmt))
          [] stmt.st_type = SELECT_STMT -> Set(ser_stmt, "select", serialize_sel(stmt))
          [] stmt.st_type = UPDATE_STMT -> Set(ser_stmt, "update", serialize_upd(stmt))

serialize(stmt) ==
    Set2(New("Statement_"), "st_type", stmt.st_type, "stmt", serialize_stmt(stmt))
=============================================================================
