----------------------------- MODULE TypedCall -----------------------------
(***************************************************************************)
(* What a user may expect of a line typed at the prompt: it takes effect   *)
(* once, as a whole and as it was typed, or not at all, and only then is   *)
(* its outcome shown.  The meaning of a line is said here of the line      *)
(* itself; parser, serializer, messages and request processor are module   *)
(* StatementCall, which implements this one.                               *)
(*                                                                         *)
(* Where the program differs from what it is said to do, this is what it   *)
(* does: an integer is cut to 32 bits without a sign, a VARCHAR of more    *)
(* than 32767 characters has length 0, AND binds no tighter than OR, and a *)
(* DELETE deletes nothing.                                                 *)
(***************************************************************************)
EXTENDS Enums, Text, Sequences, FiniteSetsExt

CONSTANTS
    Lines,    \* what can be typed
    NoLine,
    UINT32    \* 2^32, scaled down

VARIABLES
    store,    \* [columns, rows, lossy]: the table, its rows, whether one was dropped
    current,  \* the line on its way
    effect,   \* what has come of it, "none" before that
    shown     \* the last outcome that was shown

vars == <<store, current, effect, shown>>

EmptyStore == [columns |-> <<>>, rows |-> {}, lossy |-> FALSE]

Init == store = EmptyStore /\ current = NoLine /\ effect = "none" /\ shown = "none"

----------------------------------------------------------------------------
\* The type and the value of a literal.
TypeOf(lit) ==
    CASE "int" \in DOMAIN lit -> INT_TYPE
      [] "float" \in DOMAIN lit -> FLOAT_TYPE
      [] "bool" \in DOMAIN lit -> BOOL_TYPE
      [] "str" \in DOMAIN lit -> STRING_TYPE

Denotes(lit) ==
    CASE "int" \in DOMAIN lit -> lit.int % UINT32
      [] "float" \in DOMAIN lit -> lit.float
      [] "bool" \in DOMAIN lit -> lit.bool
      [] "str" \in DOMAIN lit -> lit.str

\* The empty string arrives as no string.
Unusable(lit) == "str" \in DOMAIN lit /\ lit.str = EmptyString

Columns(defs) ==
    [i \in DOMAIN defs |->
        [column_name |-> defs[i].name,
         data_type |-> CASE defs[i].type = "INT" -> INT_TYPE
                         [] defs[i].type = "FLOAT" -> FLOAT_TYPE
                         [] defs[i].type = "BOOL" -> BOOL_TYPE
                         [] defs[i].type = "VARCHAR" -> STRING_TYPE,
         size |-> IF defs[i].type # "VARCHAR" THEN 8
                  ELSE IF defs[i].size % 65536 <= 32767 THEN defs[i].size % 65536 ELSE 0]]

\* A row gives every column of the table a value of its type, in order.
Fits(row, columns) ==
    /\ Len(row) = Len(columns)
    /\ \A i \in DOMAIN row : /\ row[i].column = columns[i].column_name
                             /\ TypeOf(row[i].value) = columns[i].data_type

Cells(row) == [i \in DOMAIN row |-> Denotes(row[i].value)]

Rows(line) == {line.rows[i] : i \in DOMAIN line.rows}

----------------------------------------------------------------------------
\* The column a part of a condition is about: the first of its name, if it is of
\* the type of the literal.
About(part, columns) ==
    {i \in DOMAIN columns : /\ columns[i].column_name = part.column
                            /\ \A j \in 1 .. i - 1 : columns[j].column_name # part.column
                            /\ columns[i].data_type = TypeOf(part.value)}

Related(comp, a, b) ==
    CASE comp = "=" -> a = b   [] comp = "!=" -> a # b
      [] comp = ">" -> a > b   [] comp = "<" -> a < b
      [] comp = ">=" -> a >= b [] comp = "<=" -> a <= b

Holds(part, row, columns) ==
    \E i \in About(part, columns) :
        LET v == Denotes(part.value)
        IN  IF part.comp = "LIKE" THEN strstr(row[i], v)
            ELSE CASE columns[i].data_type = STRING_TYPE -> Related(part.comp, strcmp(row[i], v), 0)
                   [] columns[i].data_type = BOOL_TYPE ->
                        part.comp \in {"=", "!="} /\ Related(part.comp, row[i], v)
                   [] OTHER -> Related(part.comp, row[i], v)

\* A part settles the condition if it is the last, if its operator needs no
\* more, or if it is about no column, which ends the server.
Settles(where, i, row, columns) ==
    \/ i = Len(where) \/ About(where[i], columns) = {}
    \/ Holds(where[i], row, columns) = (where[i].then = "OR")

Settling(where, row, columns) ==
    Min({i \in DOMAIN where : Settles(where, i, row, columns)})

----------------------------------------------------------------------------
\* What a line may do to the table, and how it ends.
Outcome(status, s) == [status |-> status, store |-> s]

CreateOutcomes(line) ==
    IF store.columns # <<>> THEN {Outcome("BAD_REQUEST", store)}
    ELSE {Outcome("OK", [store EXCEPT !.columns = Columns(line.columns)])}

DropOutcomes ==
    IF store.columns = <<>> THEN {Outcome("BAD_REQUEST", store)}
    ELSE {Outcome("OK", [columns |-> <<>>, rows |-> {}, lossy |-> TRUE])}

AddOutcomes(line) ==
    IF store.columns = <<>> \/ \E row \in Rows(line) : ~Fits(row, store.columns)
    THEN {Outcome("BAD_REQUEST", store)}
    ELSE IF \E row \in Rows(line) : \E i \in DOMAIN row : Unusable(row[i].value)
    THEN {Outcome("ended", store)}
    ELSE {Outcome("OK", IF store.lossy THEN store
                        ELSE [store EXCEPT !.rows = @ \cup {Cells(r) : r \in Rows(line)}])}

RemoveOutcomes(line) ==
    IF store.columns = <<>> THEN {Outcome("BAD_REQUEST", store)}
    ELSE IF \E i \in DOMAIN line.where :
                Unusable(line.where[i].value) /\ About(line.where[i], store.columns) # {}
    THEN {Outcome("ended", store)}
    ELSE IF store.rows = {} THEN {Outcome("OK", store)}
    ELSE IF line.where = <<>> THEN {Outcome("INTERNAL_ERROR", store)}
    ELSE UNION {LET part == line.where[Settling(line.where, row, store.columns)]
                IN  IF About(part, store.columns) = {} THEN {Outcome("ended", store)}
                    ELSE IF Holds(part, row, store.columns)
                    THEN {Outcome("INTERNAL_ERROR", store), Outcome("BAD_REQUEST", store)}
                    ELSE {Outcome("looping", store)} : row \in store.rows}

UpdateOutcomes ==
    {Outcome(IF store.columns = <<>> THEN "BAD_REQUEST" ELSE "ended", store)}

Outcomes(line) ==
    CASE line.op = "CREATE" -> CreateOutcomes(line)
      [] line.op = "DROP" -> DropOutcomes
      [] line.op = "ADD" -> AddOutcomes(line)
      [] line.op = "REMOVE" -> RemoveOutcomes(line)
      [] line.op = "UPDATE" -> UpdateOutcomes
      [] line.op = "SELECT" -> {}

----------------------------------------------------------------------------
Type(line) ==
    /\ current = NoLine
    /\ current' = line /\ effect' = "none" /\ shown' = "none"
    /\ UNCHANGED store

TakeEffect ==
    /\ current # NoLine /\ effect = "none"
    /\ \E o \in Outcomes(current) : effect' = o.status /\ store' = o.store
    /\ UNCHANGED <<current, shown>>

Show ==
    /\ current # NoLine /\ effect \in {"OK", "BAD_REQUEST", "INTERNAL_ERROR"}
    /\ shown' = effect
    /\ current' = NoLine /\ effect' = "none"
    /\ UNCHANGED store

\* The client has ended or gives up: nothing is shown.
Forget ==
    /\ current' = NoLine /\ effect' = "none" /\ shown' = "none"
    /\ UNCHANGED store

\* The server has ended before its answer was sent: the line takes no effect
\* any more, and what effect it had is lost with the next server.
Lose ==
    /\ current # NoLine /\ effect' = "killed"
    /\ UNCHANGED <<store, current, shown>>

\* A new server begins with an empty file.
Reset ==
    /\ current = NoLine \/ effect # "none"
    /\ store' = EmptyStore
    /\ UNCHANGED <<current, effect, shown>>

Next ==
    \/ \E line \in Lines : Type(line)
    \/ TakeEffect \/ Show \/ Forget \/ Lose \/ Reset

Spec == Init /\ [][Next]_vars
=============================================================================
