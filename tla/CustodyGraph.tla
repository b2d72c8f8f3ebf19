---------------------------- MODULE CustodyGraph ----------------------------
(***************************************************************************)
(* The pure part of the custody core: the state graph every committed      *)
(* mutation is checked against (service/app/state_machine.py) and the      *)
(* deterministic release policy (service/app/policy.py).                   *)
(***************************************************************************)
EXTENDS Naturals

CONSTANT WrongAnswerLimit   \* wrong private answers tolerated (3 in the code)

ASSUME WrongAnswerLimitAssumption == WrongAnswerLimit \in Nat

RiskTier == {"ORDINARY", "VALUABLE", "SENSITIVE", "DANGEROUS"}

PolicyOutcome == {"DENY", "REQUIRE_REVIEW", "REQUEST_EVIDENCE", "ALLOW_HANDOFF"}

CustodyState ==
  {"RECEIVED", "EVIDENCE_READY", "ANALYZING", "CANDIDATES_READY",
   "CLARIFICATION_REQUIRED", "CLAIM_EVIDENCE_ACCEPTED", "IDENTITY_ATTESTED",
   "APPROVAL_REQUIRED", "RESERVE_REQUESTED", "RESERVED", "CLAIMANT_PRESENT",
   "RELEASE_REQUESTED", "RELEASED", "CLOSED", "SECURITY_ESCALATION",
   "NO_MATCH", "MANUAL_REVIEW", "REJECTED", "EXPIRED",
   "RECONCILIATION_REQUIRED"}

\* The edges of the graph, as a set of pairs <<from, to>>.
AllowedTransitions ==
  {<<"RECEIVED", "EVIDENCE_READY">>, <<"RECEIVED", "SECURITY_ESCALATION">>,
   <<"EVIDENCE_READY", "ANALYZING">>,
   <<"ANALYZING", "CANDIDATES_READY">>, <<"ANALYZING", "SECURITY_ESCALATION">>,
   <<"ANALYZING", "NO_MATCH">>, <<"ANALYZING", "MANUAL_REVIEW">>,
   <<"CANDIDATES_READY", "CLARIFICATION_REQUIRED">>,
   <<"CANDIDATES_READY", "CLAIM_EVIDENCE_ACCEPTED">>,
   <<"CLARIFICATION_REQUIRED", "ANALYZING">>,
   <<"CLAIM_EVIDENCE_ACCEPTED", "IDENTITY_ATTESTED">>,
   <<"IDENTITY_ATTESTED", "APPROVAL_REQUIRED">>,
   <<"IDENTITY_ATTESTED", "RESERVE_REQUESTED">>,
   <<"APPROVAL_REQUIRED", "RESERVE_REQUESTED">>,
   <<"APPROVAL_REQUIRED", "REJECTED">>,
   <<"RESERVE_REQUESTED", "RESERVED">>,
   <<"RESERVE_REQUESTED", "RECONCILIATION_REQUIRED">>,
   <<"RESERVED", "CLAIMANT_PRESENT">>, <<"RESERVED", "EXPIRED">>,
   <<"CLAIMANT_PRESENT", "RELEASE_REQUESTED">>,
   <<"RELEASE_REQUESTED", "RELEASED">>,
   <<"RELEASE_REQUESTED", "RECONCILIATION_REQUIRED">>,
   <<"RELEASED", "CLOSED">>,
   <<"MANUAL_REVIEW", "ANALYZING">>, <<"EXPIRED", "ANALYZING">>,
   <<"RECONCILIATION_REQUIRED", "RESERVED">>,
   <<"RECONCILIATION_REQUIRED", "RELEASED">>}

\* assert_transition: a fact event may leave the state where it is.
TransitionAllowed(from, to, fact) ==
  \/ fact /\ from = to
  \/ <<from, to>> \in AllowedTransitions

\* evaluate_release_policy: its early returns, folded by outcome.
ReleasePolicy(case) ==
  LET humanGatesMissing == case.risk = "VALUABLE" /\ ~(case.identity /\ case.approval)
  IN IF case.risk \in {"DANGEROUS", "SENSITIVE"} THEN "DENY"
     ELSE IF case.wrong > WrongAnswerLimit THEN "REQUIRE_REVIEW"
     ELSE IF ~case.accepted THEN "REQUEST_EVIDENCE"
     ELSE IF humanGatesMissing THEN "REQUIRE_REVIEW"
     ELSE "ALLOW_HANDOFF"
=============================================================================
