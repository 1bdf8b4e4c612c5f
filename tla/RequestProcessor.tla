-------------------------- MODULE RequestProcessor --------------------------
(***************************************************************************)
(* process_client_request of src/request_processor.c: what it makes of a   *)
(* message before executeQuery, and how a status travels back.             *)
(*                                                                         *)
(* A message is a record [op, name, rows, cols, where, join].  cols is the *)
(* list of columns of a CREATE and of the rows of an INSERT; where.bad the *)
(* rows for which the evaluation of the condition reaches a part getCond   *)
(* refused to build.  op is "EMPTY" for a message without a statement.     *)
(*                                                                         *)
(* At most one table exists (BagTable): table is its name or NoName, cols  *)
(* its columns.                                                            *)
(***************************************************************************)
CONSTANT NoName

\* The statements for which checkScheme or getCond calls findTable.
Checked(m) ==
    \/ m.op \in {"INSERT", "UPDATE"}
    \/ m.op = "DELETE" /\ m.where.given

\* Answered BAD_REQUEST without executeQuery.
Refuses(m, table, cols) ==
    /\ Checked(m)
    /\ \/ table = NoName
       \/ m.op = "INSERT" /\ table = m.name /\ m.cols # cols

(***************************************************************************)
(* The process ends here: strdup of the name of a CREATE without a body;   *)
(* the header of a table findTable has freed; an UPDATE, which leaves      *)
(* from_client->type unset, so that executeQuery returns NULL or takes     *)
(* what malloc left there for a query.                                     *)
(***************************************************************************)
EndsProcess(m, table) ==
    \/ m.op = "EMPTY"
    \/ Checked(m) /\ table \notin {NoName, m.name}
    \/ m.op = "UPDATE" /\ table = m.name

(***************************************************************************)
(* A condition on an unknown column, or of another type than the column's. *)
(* getCond notes BAD_REQUEST, sets *err the wrong way round, and NULL goes *)
(* to executeQuery as a part of the condition.                             *)
(***************************************************************************)
WrongColumn(m) == m.where.bad # {}

\* The number of a STATUS of queries.h, read as a Status_ of nt_structs.thrift.
ThriftStatus ==
    [INTERNAL_ERROR |-> "OK", BAD_REQUEST |-> "TABLE_NOT_FOUND", OK |-> "BAD_REQUEST"]

\* A response: info is the text, named by the status executeQuery gave with it.
Response(m, status) ==
    [op |-> m.op, info |-> status, status |-> ThriftStatus[status]]
=============================================================================
