--------------------------- MODULE MCFlowMigrate ---------------------------
(* Small instances of FlowMigrate.                                         *)
EXTENDS FlowMigrate, TLC
CONSTANTS w1, w2, l1, l2
Goroutines == Permutations({w1, w2}) \union Permutations({l1, l2})
=============================================================================
