--------------------------- MODULE CustodyPromise ---------------------------
(***************************************************************************)
(* What the custody service promises of one item, without its versions,    *)
(* events, outbox or handlers: facts about the claim are gathered, an item *)
(* is held and released only on all the facts its stage needs, facts are   *)
(* never taken back, and a case that has stopped stays stopped.            *)
(***************************************************************************)
VARIABLES stage,    \* how far the custody of the item has got
          facts,    \* what has been established
          valuable  \* whether a supervisor has to approve

vars == <<stage, facts, valuable>>

Stage == {"deciding", "requested", "held", "releasing", "released", "closed", "stopped"}
Fact == {"proof", "identity", "approval", "CLAIMANT", "CUSTODIAN", "confirmation"}

Gates == {"proof", "identity"} \cup IF valuable THEN {"approval"} ELSE {}

Init ==
  /\ stage = "deciding"
  /\ facts = {}
  /\ valuable \in BOOLEAN

\* The facts a new fact presupposes, and the stage it belongs to.
Presupposed(f) == CASE f = "identity" -> {"proof"}
                    [] f = "approval" -> {"proof", "identity"}
                    [] OTHER          -> {}
StageOf(f) == IF f \in {"CLAIMANT", "CUSTODIAN"} THEN "held" ELSE "deciding"

Establish(f) ==
  /\ stage = StageOf(f)
  /\ Presupposed(f) \subseteq facts
  /\ facts' = facts \cup {f}
  /\ UNCHANGED <<stage, valuable>>

Request ==
  /\ stage = "deciding"
  /\ Gates \subseteq facts
  /\ stage' = "requested"
  /\ UNCHANGED <<facts, valuable>>

Hold ==
  /\ stage = "requested"
  /\ stage' = "held"
  /\ UNCHANGED <<facts, valuable>>

Confirm ==
  /\ stage = "held"
  /\ {"CLAIMANT", "CUSTODIAN"} \subseteq facts
  /\ stage' = "releasing"
  /\ facts' = facts \cup {"confirmation"}
  /\ UNCHANGED valuable

Release ==
  /\ stage = "releasing"
  /\ stage' = "released"
  /\ UNCHANGED <<facts, valuable>>

Close ==
  /\ stage = "released"
  /\ stage' = "closed"
  /\ UNCHANGED <<facts, valuable>>

Stop ==
  /\ stage \in {"deciding", "requested", "releasing"}
  /\ stage' = "stopped"
  /\ UNCHANGED <<facts, valuable>>

Next ==
  \/ \E f \in Fact \ {"confirmation"} : Establish(f)
  \/ Request \/ Hold \/ Confirm \/ Release \/ Close \/ Stop

Spec == Init /\ [][Next]_vars
=============================================================================
