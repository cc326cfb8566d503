--------------------------- MODULE MCBatchService ---------------------------
(* An instance of BatchService for TLC: a batch of two, two items with the *)
(* same key.                                                               *)
EXTENDS BatchService, TLC

CONSTANTS a1, a2, b1, f1

Keys == [i \in Items |-> IF i \in {a1, a2} THEN "a" ELSE i]
=============================================================================
