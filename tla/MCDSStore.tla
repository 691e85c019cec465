------------------------------ MODULE MCDSStore ------------------------------
(* Values for the constants of DSStore: changes that append no, one or     *)
(* more records than one request stores.                                   *)
EXTENDS DSStoreProperties, TLC

CONSTANTS c0, c1, c2

MCAppends == [c \in Change |-> CASE c = c0 -> 0 [] c = c1 -> 1 [] c = c2 -> 2]
Instances == Permutations(Instance)
=============================================================================
