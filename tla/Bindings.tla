------------------------------- MODULE Bindings -------------------------------
(***************************************************************************)
(* The structs of nt_structs.thrift as src/gen-c_glib/nt_structs_types.c   *)
(* has them.  Each has three functions that matter here: what a new object *)
(* holds, which fields it writes, and which fields it reads.  They are     *)
(* three tables per struct, since nothing but their agreement makes the    *)
(* two ends of a connection understand each other.                         *)
(*                                                                         *)
(* An object is [type, has, isset]: its struct, the values of its members, *)
(* and the members whose __isset_ flag is TRUE.                            *)
(***************************************************************************)
EXTENDS Enums, Sequences

I16 == [wire |-> "T_I16"]
I32 == [wire |-> "T_I32"]
I64 == [wire |-> "T_I64"]
Bool == [wire |-> "T_BOOL"]
Double == [wire |-> "T_DOUBLE"]
Str == [wire |-> "T_STRING"]
Struct(n) == [wire |-> "T_STRUCT", of |-> n]
List(t) == [wire |-> "T_LIST", of |-> t]

\* A member as a case of the switch of _read finds it; the index is its fid.
M(name, type) == [name |-> name, type |-> type]

\* A member as _write treats it: written always, or only if its flag is set.
Always(fid, name, type) == [fid |-> fid, name |-> name, type |-> type, ifset |-> FALSE]
IfSet(fid, name, type) == [fid |-> fid, name |-> name, type |-> type, ifset |-> TRUE]

\* g_object_new: every flag is FALSE.  What instance_init leaves out is zero.
Object(type, has) == [type |-> type, has |-> has, isset |-> {}]

\* The pointer to an object that is NULL.
NoObject == Object("NULL", <<>>)

----------------------------------------------------------------------------
cell__instance_init ==
    Object("Cell_", [integer |-> 0, dbl |-> 0, bl |-> FALSE, str |-> NULL])
cell__write == <<IfSet(1, "integer", I64), IfSet(2, "dbl", Double),
                 IfSet(3, "bl", Bool), IfSet(4, "str", Str)>>
cell__read == <<M("integer", I64), M("dbl", Double), M("bl", Bool), M("str", Str)>>

column__instance_init ==
    Object("Column_", [column_name |-> NULL, data_type |-> 0, size |-> 0])
column__write == <<Always(1, "column_name", Str), Always(2, "data_type", I32),
                   Always(3, "size", I16)>>
column__read == <<M("column_name", Str), M("data_type", I32), M("size", I16)>>

create_stmt__instance_init ==
    Object("CreateStmt_", [cols |-> <<>>, tblName |-> NULL])
create_stmt__write == <<Always(1, "cols", List(Struct("Column_"))),
                        Always(2, "tblName", Str)>>
create_stmt__read == <<M("cols", List(Struct("Column_"))), M("tblName", Str)>>

val__instance_init == Object("Val_", [cell |-> cell__instance_init, type |-> 0])
val__write == <<Always(1, "cell", Struct("Cell_")), Always(2, "type", I32)>>
val__read == <<M("cell", Struct("Cell_")), M("type", I32)>>

col_val__instance_init ==
    Object("ColVal_", [col |-> NULL, val |-> val__instance_init])
col_val__write == <<Always(1, "col", Str), Always(2, "val", Struct("Val_"))>>
col_val__read == <<M("col", Str), M("val", Struct("Val_"))>>

insert_stmt__instance_init ==
    Object("InsertStmt_", [tblName |-> NULL, rows |-> <<>>])
insert_stmt__write == <<Always(1, "tblName", Str),
                        Always(2, "rows", List(List(Struct("ColVal_"))))>>
insert_stmt__read == <<M("tblName", Str), M("rows", List(List(Struct("ColVal_"))))>>

drop_stmt__instance_init == Object("DropStmt_", [tblName |-> NULL])
drop_stmt__write == <<Always(1, "tblName", Str)>>
drop_stmt__read == <<M("tblName", Str)>>

full_column_name__instance_init ==
    Object("FullColumnName_", [row_name |-> NULL, col_name |-> NULL])
full_column_name__write == <<Always(1, "row_name", Str), Always(2, "col_name", Str)>>
full_column_name__read == <<M("row_name", Str), M("col_name", Str)>>

condition__instance_init ==
    Object("Condition_", [column |-> full_column_name__instance_init,
                          comp_type |-> 0, value |-> val__instance_init])
condition__write == <<Always(1, "column", Struct("FullColumnName_")),
                      Always(2, "comp_type", I32), Always(3, "value", Struct("Val_"))>>
condition__read == <<M("column", Struct("FullColumnName_")), M("comp_type", I32),
                     M("value", Struct("Val_"))>>

compound_condition__instance_init ==
    Object("CompoundCondition_",
           [left |-> condition__instance_init, op |-> 0, right |-> <<>>])
compound_condition__write ==
    <<Always(1, "left", Struct("Condition_")), Always(2, "op", I32),
      IfSet(3, "right", List(Struct("CompoundCondition_")))>>
compound_condition__read ==
    <<M("left", Struct("Condition_")), M("op", I32),
      M("right", List(Struct("CompoundCondition_")))>>

projection__instance_init ==
    Object("Projection_", [new_col |-> NULL, src |-> full_column_name__instance_init])
projection__write ==
    <<Always(1, "new_col", Str), Always(2, "src", Struct("FullColumnName_"))>>
projection__read == <<M("new_col", Str), M("src", Struct("FullColumnName_"))>>

select_list__instance_init ==
    Object("SelectList_", [rowName |-> NULL, projs |-> <<>>])
select_list__write ==
    <<IfSet(1, "rowName", Str), IfSet(2, "projs", List(Struct("Projection_")))>>
select_list__read == <<M("rowName", Str), M("projs", List(Struct("Projection_")))>>

join__instance_init ==
    Object("Join_", [rowName |-> NULL, tblName |-> NULL,
                     left_col |-> full_column_name__instance_init,
                     right_col |-> full_column_name__instance_init])
join__write ==
    <<Always(1, "rowName", Str), Always(2, "tblName", Str),
      Always(3, "left_col", Struct("FullColumnName_")),
      Always(4, "right_col", Struct("FullColumnName_"))>>
join__read ==
    <<M("rowName", Str), M("tblName", Str), M("left_col", Struct("FullColumnName_")),
      M("right_col", Struct("FullColumnName_"))>>

select_stmt__instance_init ==
    Object("SelectStmt_", [rowName |-> NULL, tblName |-> NULL,
                           join |-> join__instance_init,
                           where |-> compound_condition__instance_init,
                           select |-> select_list__instance_init])
select_stmt__write ==
    <<Always(1, "rowName", Str), Always(2, "tblName", Str),
      IfSet(3, "join", Struct("Join_")),
      Always(4, "where", Struct("CompoundCondition_")),
      Always(5, "select", Struct("SelectList_"))>>
select_stmt__read ==
    <<M("rowName", Str), M("tblName", Str), M("join", Struct("Join_")),
      M("where", Struct("CompoundCondition_")), M("select", Struct("SelectList_"))>>

update_stmt__instance_init ==
    Object("UpdateStmt_", [tblName |-> NULL, new_row |-> <<>>,
                           cond |-> compound_condition__instance_init])
update_stmt__write ==
    <<Always(1, "tblName", Str), Always(2, "new_row", List(Struct("ColVal_"))),
      Always(3, "cond", Struct("CompoundCondition_"))>>
update_stmt__read ==
    <<M("tblName", Str), M("new_row", List(Struct("ColVal_"))),
      M("cond", Struct("CompoundCondition_"))>>

delete_stmt__instance_init ==
    Object("DeleteStmt_", [tblName |-> NULL,
                           cond |-> compound_condition__instance_init])
delete_stmt__write ==
    <<Always(1, "tblName", Str), IfSet(2, "cond", Struct("CompoundCondition_"))>>
delete_stmt__read == <<M("tblName", Str), M("cond", Struct("CompoundCondition_"))>>

stmt__instance_init ==
    Object("Stmt_", [create_tbl |-> create_stmt__instance_init,
                     drop_tbl |-> drop_stmt__instance_init,
                     insert |-> insert_stmt__instance_init,
                     select |-> select_stmt__instance_init,
                     update |-> update_stmt__instance_init,
                     dl |-> delete_stmt__instance_init])
stmt__write ==
    <<IfSet(1, "create_tbl", Struct("CreateStmt_")),
      IfSet(2, "drop_tbl", Struct("DropStmt_")),
      IfSet(3, "insert", Struct("InsertStmt_")),
      IfSet(4, "select", Struct("SelectStmt_")),
      IfSet(5, "update", Struct("UpdateStmt_")),
      IfSet(6, "dl", Struct("DeleteStmt_"))>>
MStmtReadSwapped ==
    <<M("create_tbl", Struct("CreateStmt_")), M("dl", Struct("DeleteStmt_")),
      M("insert", Struct("InsertStmt_")), M("select", Struct("SelectStmt_")),
      M("update", Struct("UpdateStmt_")), M("drop_tbl", Struct("DropStmt_"))>>

stmt__read ==
    <<M("create_tbl", Struct("CreateStmt_")), M("drop_tbl", Struct("DropStmt_")),
      M("insert", Struct("InsertStmt_")), M("select", Struct("SelectStmt_")),
      M("update", Struct("UpdateStmt_")), M("dl", Struct("DeleteStmt_"))>>

statement__instance_init ==
    Object("Statement_", [st_type |-> 0, stmt |-> stmt__instance_init])
statement__write == <<Always(1, "st_type", I32), Always(2, "stmt", Struct("Stmt_"))>>
statement__read == <<M("st_type", I32), M("stmt", Struct("Stmt_"))>>

server_response_instance_init ==
    Object("ServerResponse", [info |-> NULL, rows |-> <<>>, status |-> 0])
server_response_write ==
    <<Always(1, "info", Str), Always(2, "rows", List(List(Struct("ColVal_")))),
      Always(3, "status", I32)>>
server_response_read ==
    <<M("info", Str), M("rows", List(List(Struct("ColVal_")))), M("status", I32)>>

execute_stmt_args_instance_init ==
    Object("ExecuteStmtArgs", [statement |-> statement__instance_init])
execute_stmt_args_read == <<M("statement", Struct("Statement_"))>>

execute_stmt_result_instance_init ==
    Object("ExecuteStmtResult", [success |-> server_response_instance_init])
execute_stmt_result_write == <<IfSet(0, "success", Struct("ServerResponse"))>>

\* What send_execute_stmt and recv_execute_stmt of the client have in line.
send_execute_stmt == <<Always(1, "statement", Struct("Statement_"))>>
recv_execute_stmt == [fid \in {0} |-> M("success", Struct("ServerResponse"))]

----------------------------------------------------------------------------
(***************************************************************************)
(* The numbers that class_init lets a property have.  GLib refuses another *)
(* one with a warning, and the member stays as it was.                     *)
(***************************************************************************)
column__class_init == [data_type |-> 0 .. 3, size |-> -32768 .. 32767]
val__class_init == [type |-> 0 .. 3]
condition__class_init == [comp_type |-> 0 .. 6]
compound_condition__class_init == [op |-> 0 .. 1]
statement__class_init == [st_type |-> 0 .. 5]
server_response_class_init == [status |-> 0 .. 3]

ClassInit ==
    [Column_ |-> column__class_init, Val_ |-> val__class_init,
     Condition_ |-> condition__class_init,
     CompoundCondition_ |-> compound_condition__class_init,
     Statement_ |-> statement__class_init,
     ServerResponse |-> server_response_class_init]

InstanceInit ==
    [Cell_ |-> cell__instance_init, Column_ |-> column__instance_init,
     CreateStmt_ |-> create_stmt__instance_init, Val_ |-> val__instance_init,
     ColVal_ |-> col_val__instance_init, InsertStmt_ |-> insert_stmt__instance_init,
     DropStmt_ |-> drop_stmt__instance_init,
     FullColumnName_ |-> full_column_name__instance_init,
     Condition_ |-> condition__instance_init,
     CompoundCondition_ |-> compound_condition__instance_init,
     Projection_ |-> projection__instance_init,
     SelectList_ |-> select_list__instance_init, Join_ |-> join__instance_init,
     SelectStmt_ |-> select_stmt__instance_init,
     UpdateStmt_ |-> update_stmt__instance_init,
     DeleteStmt_ |-> delete_stmt__instance_init, Stmt_ |-> stmt__instance_init,
     Statement_ |-> statement__instance_init,
     ServerResponse |-> server_response_instance_init,
     ExecuteStmtArgs |-> execute_stmt_args_instance_init,
     ExecuteStmtResult |-> execute_stmt_result_instance_init]

WriteTable ==
    [Cell_ |-> cell__write, Column_ |-> column__write, CreateStmt_ |-> create_stmt__write,
     Val_ |-> val__write, ColVal_ |-> col_val__write, InsertStmt_ |-> insert_stmt__write,
     DropStmt_ |-> drop_stmt__write, FullColumnName_ |-> full_column_name__write,
     Condition_ |-> condition__write, CompoundCondition_ |-> compound_condition__write,
     Projection_ |-> projection__write, SelectList_ |-> select_list__write,
     Join_ |-> join__write, SelectStmt_ |-> select_stmt__write,
     UpdateStmt_ |-> update_stmt__write, DeleteStmt_ |-> delete_stmt__write,
     Stmt_ |-> stmt__write, Statement_ |-> statement__write,
     ServerResponse |-> server_response_write, CallArgs |-> send_execute_stmt,
     ExecuteStmtResult |-> execute_stmt_result_write]

ReadTable ==
    [Cell_ |-> cell__read, Column_ |-> column__read, CreateStmt_ |-> create_stmt__read,
     Val_ |-> val__read, ColVal_ |-> col_val__read, InsertStmt_ |-> insert_stmt__read,
     DropStmt_ |-> drop_stmt__read, FullColumnName_ |-> full_column_name__read,
     Condition_ |-> condition__read, CompoundCondition_ |-> compound_condition__read,
     Projection_ |-> projection__read, SelectList_ |-> select_list__read,
     Join_ |-> join__read, SelectStmt_ |-> select_stmt__read,
     UpdateStmt_ |-> update_stmt__read, DeleteStmt_ |-> delete_stmt__read,
     Stmt_ |-> stmt__read, Statement_ |-> statement__read,
     ServerResponse |-> server_response_read,
     ExecuteStmtArgs |-> execute_stmt_args_read, CallResult |-> recv_execute_stmt]

\* g_object_new and g_object_set of one property, by set_property.
New(type) == InstanceInit[type]

Refused(type, member, value) ==
    /\ type \in DOMAIN ClassInit /\ member \in DOMAIN ClassInit[type]
    /\ value \notin ClassInit[type][member]

Set(o, member, value) ==
    IF Refused(o.type, member, value) THEN o
    ELSE [o EXCEPT !.has[member] = value, !.isset = @ \cup {member}]
=============================================================================
