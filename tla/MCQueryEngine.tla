--------------------------- MODULE MCQueryEngine ---------------------------
(***************************************************************************)
(* Instances of QueryEngine for TLC: two names, a short and a long row, a  *)
(* page with room for two rows, one- and two-row INSERT statements.        *)
(***************************************************************************)
EXTENDS QueryEngineProperties

CONSTANTS a, b, short, long, toolong

\* Lengths on a scale where row_size is 4 and a row_lens entry 2.
MCRowLen == [v \in Values |->
    CASE v = short -> 3 [] v = long -> 4 [] v = toolong -> 6]

MCBatches == {<<v>> : v \in Values} \cup {<<v, long>> : v \in Values \ {long}}

MCWheres == {NoWhere,
             [given |-> TRUE, match |-> Values \ {long}, bad |-> {}],
             [given |-> TRUE, match |-> {long}, bad |-> {long}]}
=============================================================================
