-------------------------------- MODULE Text --------------------------------
(***************************************************************************)
(* The strings of the statements, as model values, with what the code asks *)
(* of them: their order, whether one is part of another, and whether their *)
(* length is 0.                                                            *)
(***************************************************************************)
EXTENDS Integers

CONSTANTS
    EmptyString,  \* the string of length 0
    StrOrder,     \* where a string is in the order of strcmp
    StrParts      \* the strings that a string contains

strcmp(str1, str2) == StrOrder[str1] - StrOrder[str2]
strstr(str1, str2) == str2 \in StrParts[str1]
=============================================================================
