-------------------------------- MODULE Enums --------------------------------
(***************************************************************************)
(* The enumerations that a statement carries from the parser to the query. *)
(* Four files declare them (lab2/data.h, nt_structs.thrift, lab1/table.h,  *)
(* lab1/queries.h) and the code passes their numbers from one to the next, *)
(* so a value is its number, as in C.                                      *)
(***************************************************************************)
EXTENDS Integers

CONSTANT NULL   \* the pointer, for every type that has one

\* DATA_TYPE
INT_TYPE == 0
FLOAT_TYPE == 1
STRING_TYPE == 2
BOOL_TYPE == 3

\* QUERY_TYPE
CREATE_STMT == 0
DROP_STMT == 1
SELECT_STMT == 2
UPDATE_STMT == 3
INSERT_STMT == 4
DELETE_STMT == 5

\* LOGICAL_OPERATOR
AND_OP == 0
OR_OP == 1

\* COMP_TYPE
EQUALS_COMP == 0
NOT_EQUALS_COMP == 1
GREATER_COMP == 2
LESS_COMP == 3
GREATER_EQUALS_COMP == 4
LESS_EQUALS_COMP == 5
LIKE_COMP == 6

\* STATUS of queries.h
INTERNAL_ERROR == 0
BAD_REQUEST == 1
OK == 2
=============================================================================
