------------------------- MODULE MCOutboxDelivery -------------------------
(* OutboxDelivery with workers and operators that are interchangeable. *)
EXTENDS OutboxDelivery, TLC

Symmetry == Permutations(Worker) \cup Permutations(Operator)
=============================================================================
