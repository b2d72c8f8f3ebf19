------------------------- MODULE MCEvidenceIntake -------------------------
(* EvidenceIntake with clients, keys and files that are interchangeable. *)
EXTENDS EvidenceIntake, TLC

Symmetry == Permutations(Client) \cup Permutations(Key) \cup Permutations(Image)

\* No symmetry can be declared beside a liveness property.  Keys and files are
\* interchangeable all the same, so that one client's may be fixed.
FirstClient == CHOOSE c \in Client : TRUE
FirstCommand ==
  /\ Init
  /\ command[FirstClient].key = CHOOSE k \in Key : TRUE
  /\ command[FirstClient].image = CHOOSE i \in Image : TRUE

FairIntake == FirstCommand /\ [][Next]_vars /\ Fairness
=============================================================================
