--------------------------- MODULE MCStatementCall ---------------------------
(***************************************************************************)
(* StatementCall with one table name, two columns and two strings.         *)
(***************************************************************************)
EXTENDS StatementCallProperties

CONSTANTS t, a, b, s1, s2

\* The names of the rows of a SELECT are strings of the table, too.
MCNames == {t, a, b, s1, s2}
MCStrings == {EmptyString, s1, s2}
MCStrOrder == (EmptyString :> 0) @@ (s1 :> 1) @@ (s2 :> 2)
MCStrParts == (EmptyString :> {EmptyString}) @@ (s1 :> {EmptyString, s1})
              @@ (s2 :> {EmptyString, s1, s2})

Number(n) == [int |-> n]
Text_(s) == [str |-> s]
Given(column, lit) == [column |-> column, value |-> lit]
Part(column, comp, lit, then) ==
    [row |-> NULL, column |-> column, comp |-> comp, value |-> lit, then |-> then]
Final(column, comp, lit) == Part(column, comp, lit, "none")

CreateTable(columns) == [op |-> "CREATE", table |-> t, columns |-> columns]
AddRows(rows) == [op |-> "ADD", table |-> t, rows |-> rows]
RemoveWhere(where) == [op |-> "REMOVE", table |-> t, where |-> where]

Row(n, s) == <<Given(a, Number(n)), Given(b, Text_(s))>>

\* Two tables: integers and strings (too long for the message, for the second
\* column); a fraction and a truth value.
Creates ==
    {CreateTable(<<[name |-> a, type |-> "INT"], [name |-> b, type |-> "VARCHAR", size |-> 40000]>>),
     CreateTable(<<[name |-> a, type |-> "FLOAT"], [name |-> b, type |-> "BOOL"]>>)}

\* One row, with a negative integer; two rows, one of them not in the order of
\* the columns; a row with an empty string; a row for the second table.
Adds ==
    {AddRows(<<Row(-1, s1)>>), AddRows(<<Row(2, s1), Row(2, s2)>>),
     AddRows(<<Row(2, s1), <<Given(b, Text_(s1)), Given(a, Number(2))>>>>),
     AddRows(<<Row(2, EmptyString)>>),
     AddRows(<<<<Given(a, [float |-> 1]), Given(b, [bool |-> TRUE])>>>>)}

\* Conditions that mix operators, types, an unknown column and no string.
Removes ==
    {RemoveWhere(<<>>),
     RemoveWhere(<<Part(a, "<", Number(0), "OR"), Part(b, "LIKE", Text_(s2), "AND"),
              Final(a, "=", Number(2))>>),
     RemoveWhere(<<Part(a, ">=", Number(2), "AND"), Part(b, "!=", Text_(s1), "OR"),
              Final(t, "=", Number(0))>>),
     RemoveWhere(<<Part(a, "<=", Number(2), "OR"), Final(b, "=", Text_(EmptyString))>>),
     RemoveWhere(<<Part(a, ">", [float |-> 0], "AND"), Final(b, "=", [bool |-> TRUE])>>)}

Name(row, column) == [row |-> row, column |-> column]
Others ==
    {[op |-> "DROP", table |-> t],
     [op |-> "UPDATE", table |-> t, row |-> Row(2, s1), where |-> <<>>],
     [op |-> "UPDATE", table |-> t, row |-> Row(2, s1), where |-> <<Final(a, "=", Number(2))>>],
     [op |-> "SELECT", table |-> t, row |-> s1, join |-> NULL, where |-> <<>>,
      select |-> [row |-> s1]],
     [op |-> "SELECT", table |-> t, row |-> s1,
      join |-> [row |-> s2, table |-> t, left |-> Name(s1, a), right |-> Name(s2, a)],
      where |-> <<[row |-> s1, column |-> a, comp |-> "=", value |-> Number(2), then |-> "none"]>>,
      select |-> [projections |-> <<[new |-> b, src |-> Name(s1, b)]>>]]}

MCLines == Creates \cup Adds \cup Removes \cup Others

\* The run breaks messages off in a few places.  Wherever one breaks off, it is
\* not taken for a whole one.
ASSUME BrokenOffIsNotRead ==
    \A l \in MCLines : \A n \in 0 .. Len(Messages[l]) - 1 :
        CrashesClient(l) \/ ~ReadCall(SubSeq(Messages[l], 1, n)).ok
=============================================================================
