--------------------------- MODULE MCClientServer ---------------------------
(***************************************************************************)
(* Instances of ClientServer for TLC: one line of each kind, about one     *)
(* table, one kind of row and two lists of columns.                        *)
(***************************************************************************)
EXTENDS ClientServerProperties, TLC

CONSTANTS a, b, v, few, many

Line(op, name) == [Empty EXCEPT !.op = op, !.name = name]
If(s, match, bad) ==
    [s EXCEPT !.where = [given |-> TRUE, match |-> match, bad |-> bad]]

Lines ==
    {Empty, Line("ERROR", NoName), Line("SELECT", a), Line("DROP", a),
     Line("DROP", b),
     [Line("CREATE", a) EXCEPT !.cols = few],
     Line("UPDATE", a), If(Line("UPDATE", a), {v}, {})}

Deletes == {Line("DELETE", a), If(Line("DELETE", a), {v}, {}),
            If(Line("DELETE", a), {}, {}), If(Line("DELETE", a), {v}, {v})}

Insert(name, rows, columns) ==
    [Line("INSERT", name) EXCEPT !.rows = rows, !.cols = columns]

Inserts == {Insert(a, <<v, v>>, few), Insert(a, <<v>>, many), Insert(b, <<v>>, few)}

AllLines == Lines \cup Deletes \cup Inserts

\* Answered, refused, looping, and fatal to the client or the server.
SomeLines ==
    {Empty, Line("ERROR", NoName), [Line("CREATE", a) EXCEPT !.cols = few],
     Insert(a, <<v>>, few), If(Line("DELETE", a), {}, {}),
     If(Line("DELETE", a), {v}, {v})}

\* Clients have no roles: sound for invariants.
Symmetry == Permutations(Clients)
=============================================================================
