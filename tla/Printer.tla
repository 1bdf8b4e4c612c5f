------------------------------- MODULE Printer -------------------------------
(***************************************************************************)
(* lab2/write.c: the tree of a statement, printed line by line, with the   *)
(* nesting in the global variable tabs that outlives the statement.        *)
(*                                                                         *)
(* A function of write.c is the sequence of what it does: In (tabs++),     *)
(* Out (tabs--), or a line, of which a bracket or the key is kept.         *)
(***************************************************************************)
EXTENDS Linq

In == "tabs++"
Out == "tabs--"

\* sequences of steps, one after the other
Each(list, F(_)) == FlattenSeq([i \in DOMAIN list |-> F(list[i])])

\* The type and the value; "val" is printed by a switch in four places.
printVal(v) == <<"type", "val">>

printCreate(cr) ==
    <<"Table", "Columns", "[", In>>
      \o Each(cr.cols, LAMBDA col : <<"{", In, "Column", "type", "size", Out, "}">>)
      \o <<Out, "]">>

printDrop(dr) == <<"Table", Out>>

printColVal(cv) == <<"{", In, "Column">> \o printVal(cv.val) \o <<Out, "}">>

MPrintInsertRowOpen(ins) ==
    <<"Table", "Rows", "[", In>>
      \o Each(ins.rows, LAMBDA row : <<"Vals", "[", In>> \o Each(row, printColVal) \o <<"]">>)
      \o <<Out, "]">>

printInsert(ins) ==
    <<"Table", "Rows", "[", In>>
      \o Each(ins.rows, LAMBDA row :
                <<"Vals", "[", In>> \o Each(row, printColVal) \o <<Out, "]">>)
      \o <<Out, "]">>

printCondition(cond) ==
    <<"condition", "{", In, "Column", "{", In>>
      \o (IF cond.column.row_name # NULL THEN <<"row_name">> ELSE <<>>)
      \o <<"col_name", Out, "}">>
      \o (IF cond.comp_type = LIKE_COMP THEN <<>> ELSE <<"comp_type">>)
      \o <<"val", "{", In>> \o printVal(cond.value) \o <<Out, "}", Out, "}">>

\* The part on the right is printed inside the braces of the part on the left.
printCompoundCondition(c_cond) ==
    FlattenSeq([i \in DOMAIN c_cond |->
                   (IF i = 1 THEN <<>> ELSE <<"operation">>)
                     \o <<"compound_condition", "{", In>> \o printCondition(c_cond[i].left)])
      \o Each(c_cond, LAMBDA part : <<Out, "}">>)

printSelect(sel) == <<"Table">>
printDelete(del) == <<"Table">>

\* The condition is dereferenced, whether there is one or not.
PrintCrashes(stmt) == stmt.st_type = UPDATE_STMT /\ stmt.cond = <<>>

printUpdate(upd) ==
    <<"Table", "Row", "[", In>> \o Each(upd.colVals, printColVal) \o <<Out, "]">>
      \o printCompoundCondition(upd.cond)

----------------------------------------------------------------------------
\* By how much the steps before the n-th have moved tabs.
Depth(steps, n) == Cardinality({i \in 1 .. n - 1 : steps[i] = In})
                   - Cardinality({i \in 1 .. n - 1 : steps[i] = Out})

\* Each line, at its place among the steps, with the tabs it is printed behind,
\* and the tabs that are left.
Printed(steps, tabs) ==
    [out |-> [n \in {i \in DOMAIN steps : steps[i] \notin {In, Out}} |->
                 [text |-> steps[n], tabs |-> tabs + Depth(steps, n)]],
     tabs |-> tabs + Depth(steps, Len(steps) + 1)]

(***************************************************************************)
(* printStatement: tabs goes up by one for every statement and only        *)
(* printDrop takes it down again.  Its own braces are printed without tabs.*)
(***************************************************************************)
printStatement(stmt, tabs) ==
    LET body == CASE stmt.st_type = CREATE_STMT -> printCreate(stmt)
                  [] stmt.st_type = DROP_STMT -> printDrop(stmt)
                  [] stmt.st_type = INSERT_STMT -> printInsert(stmt)
                  [] stmt.st_type = DELETE_STMT -> printDelete(stmt)
                  [] stmt.st_type = SELECT_STMT -> printSelect(stmt)
                  [] stmt.st_type = UPDATE_STMT -> printUpdate(stmt)
    IN  Printed(body, tabs + 1)
=============================================================================
