---------------------------- MODULE MCFixtureReset ----------------------------
(* FixtureReset with requests and deliveries that are interchangeable. *)
EXTENDS FixtureReset, TLC

Symmetry == Permutations(Handler) \cup Permutations(Worker)

\* The points from which the case that was read is still used; after the others it is
\* read again, or only the row is.
Uses == {"refs", "packet", "queue", "model", "propose", "review", "ask"}
Seen(process) ==
  IF process.pc \in Uses THEN process
  ELSE IF process.pc = "idle" THEN Idle
  ELSE [pc |-> process.pc, id |-> process.id]

ViewedReset ==
  <<case, rows, claims, created, owed, evidence,
    [h \in Handler |-> Seen(handler[h])], [w \in Worker |-> Seen(worker[w])]>>
=============================================================================
