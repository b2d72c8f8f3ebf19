--------------------------- MODULE MCRelayStore ---------------------------
(* RelayStore with cases, items and keys that are interchangeable. *)
EXTENDS RelayStore, TLC

Symmetry == Permutations(Case) \cup Permutations(Item) \cup Permutations(Key)
=============================================================================
