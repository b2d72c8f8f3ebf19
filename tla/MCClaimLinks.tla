--------------------------- MODULE MCClaimLinks ---------------------------
(* ClaimLinks with claimants and staff that are interchangeable. *)
EXTENDS ClaimLinks, TLC

CONSTANTS k1, k2

\* Every claimant's key is used at every case: two cases may be sent the same key.
SharedKeys == [c \in Case |-> {k1, k2}]

Symmetry == Permutations({k1, k2}) \cup Permutations(Claimant) \cup Permutations(StaffKey)
=============================================================================
