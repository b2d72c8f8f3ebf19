---------------------------- MODULE MCRelayHandoff ----------------------------
(* RelayHandoff with cases that compete for one item and handlers and keys that *)
(* are interchangeable.                                                        *)
EXTENDS RelayHandoff, TLC

OneItem == [c \in Case |-> CHOOSE i \in Item : TRUE]

Symmetry == Permutations(Case) \cup Permutations(Handler) \cup Permutations(ClientKey)
=============================================================================
