------------------------------ MODULE BagTable ------------------------------
(***************************************************************************)
(* What executeQuery promises as long as no write fails and every row has  *)
(* its declared size and fits its page: a database of at most one table,   *)
(* the table a bag of rows.                                                *)
(*                                                                         *)
(*   - the rows of an INSERT enter the bag in order, all of them before    *)
(*     the answer "Data inserted";                                         *)
(*   - a SELECT answers with exactly the rows of the bag it asks for;      *)
(*   - a DELETE or an UPDATE takes no row out of the bag and changes none; *)
(*   - after the first DROP the bag stays empty for good (lossy), although *)
(*     INSERTs are still answered "Data inserted";                         *)
(*   - the process may end only on a statement that names a table which is *)
(*     not there while another one is, on an UPDATE with no table there,   *)
(*     and on a join.                                                      *)
(***************************************************************************)
EXTENDS Integers, Sequences

CONSTANTS NoName, Values, Requests

VARIABLES
    table,    \* the name of the table, NoName without one
    bag,      \* how often each row is stored
    lossy,    \* a table has been dropped
    busy,     \* a statement is being executed
    down,     \* the process has ended
    request,  \* that statement, or the last one
    pending,  \* rows of an INSERT that are not in the bag yet
    answer    \* [status, rows]: the last answer

vars == <<table, bag, lossy, busy, down, request, pending, answer>>
store == <<table, bag, lossy>>

NoRows == [v \in Values |-> 0]
NoAnswer == [status |-> "none", rows |-> NoRows]

Init ==
    /\ table = NoName /\ bag = NoRows /\ lossy = FALSE
    /\ busy = FALSE /\ down = FALSE
    /\ request \in Requests /\ pending = <<>>
    /\ answer = NoAnswer

Ask(s) ==
    /\ ~busy /\ ~down
    /\ busy' = TRUE /\ request' = s /\ pending' = s.rows /\ answer' = NoAnswer
    /\ UNCHANGED <<store, down>>

Answer(status, rows) ==
    /\ busy /\ busy' = FALSE
    /\ answer' = [status |-> status, rows |-> rows]
    /\ pending' = <<>>
    /\ UNCHANGED <<down, request>>

Create ==
    /\ request.op = "CREATE" /\ table = NoName
    /\ table' = request.name
    /\ Answer("OK", NoRows)
    /\ UNCHANGED <<bag, lossy>>

\* The rows go first; the table itself goes with the answer.
Drop ==
    /\ request.op = "DROP" /\ table = request.name
    /\ lossy' = TRUE /\ bag' = NoRows
    /\ \/ table' = NoName /\ Answer("OK", NoRows)
       \/ busy /\ UNCHANGED <<table, busy, down, request, pending, answer>>

Put ==
    /\ busy /\ request.op = "INSERT" /\ table = request.name /\ pending # <<>>
    /\ bag' = IF lossy THEN bag ELSE [bag EXCEPT ![Head(pending)] = @ + 1]
    /\ pending' = Tail(pending)
    /\ UNCHANGED <<table, lossy, busy, down, request, answer>>

Inserted ==
    /\ request.op = "INSERT" /\ table = request.name /\ pending = <<>>
    /\ Answer("OK", NoRows)
    /\ UNCHANGED store

Selected ==
    /\ request.op = "SELECT" /\ table # NoName
    /\ table = request.name \/ bag = NoRows
    /\ Answer("OK", [v \in Values |->
                        IF v \in request.where.match THEN bag[v] ELSE 0])
    /\ UNCHANGED store

\* A DELETE is only ever answered OK when there is nothing to delete.
Deleted ==
    /\ request.op = "DELETE" /\ table # NoName /\ bag = NoRows
    /\ Answer("OK", NoRows)
    /\ UNCHANGED store

Refused ==
    /\ \/ request.op \in {"CREATE", "UPDATE"} /\ table # NoName
          /\ Answer("BAD_REQUEST", NoRows)
       \/ request.op \in {"DROP", "INSERT", "SELECT", "DELETE"} /\ table = NoName
          /\ Answer("BAD_REQUEST", NoRows)
       \/ request.op = "DELETE" /\ bag # NoRows /\ Answer("INTERNAL_ERROR", NoRows)
       \/ request.op = "DELETE" /\ bag # NoRows /\ request.where.given
          /\ Answer("BAD_REQUEST", NoRows)
       \/ request.join /\ table # NoName /\ Answer("garbage", NoRows)
    /\ UNCHANGED store

End ==
    /\ \/ table \notin {NoName, request.name}
       \/ request.op = "UPDATE" /\ table = NoName
       \/ request.join /\ table # NoName
    /\ busy /\ busy' = FALSE /\ down' = TRUE
    /\ pending' = <<>> /\ answer' = NoAnswer
    /\ UNCHANGED <<store, request>>

Restart ==
    /\ down /\ down' = FALSE
    /\ table' = NoName /\ bag' = NoRows /\ lossy' = FALSE
    /\ UNCHANGED <<busy, request, pending, answer>>

Next ==
    \/ \E s \in Requests : Ask(s)
    \/ Create \/ Drop \/ Put \/ Inserted \/ Selected \/ Deleted \/ Refused
    \/ End \/ Restart

Spec == Init /\ [][Next]_vars
=============================================================================
