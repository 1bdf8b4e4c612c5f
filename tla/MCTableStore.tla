---------------------------- MODULE MCTableStore ----------------------------
(* Rows of one and of four bytes: with their entries of row_lens a page of *)
(* twelve takes two to four of them.                                       *)
EXTENDS TableStoreProperties, TLC

CONSTANTS short, long, t

MCRowLen == (short :> 1) @@ (long :> 4)
=============================================================================
