---------------------------- MODULE ItemPassport ----------------------------
(***************************************************************************)
(* One Item Passport and the custody service around it: every command of   *)
(* service/app/custody_service.py, as the reads it makes and the           *)
(* transactions it commits through service/app/repository.py.              *)
(*                                                                         *)
(* A handler (an HTTP request or a task delivery) reads the case, decides, *)
(* and later commits; other handlers run in between, and a handler can     *)
(* stop at any point (crash, timeout, lost connection), after which the    *)
(* client or the queue starts another one.  Protection comes only from the *)
(* repository's transaction: idempotency receipt, expected version, state  *)
(* graph, in that order.                                                   *)
(*                                                                         *)
(* Left to other modules: claim links, execution leases and publication of *)
(* the outbox rows, the relay's own resource versions and expiry.          *)
(***************************************************************************)
EXTENDS Naturals, Sequences, FiniteSets, CustodyGraph

CONSTANTS Handler,  \* request handlers and task deliveries that may overlap
          Key,      \* idempotency keys clients choose for their commands
          None      \* an idle handler

VARIABLES passport,  \* CaseRecord
          handoff,   \* HandoffRecord
          tokens,    \* TokenRecord of each purpose
          outbox,    \* OutboxRecord of each kind
          log,       \* the case's events, oldest first
          receipts,  \* IdempotencyRecords
          remote,    \* relay operations that took effect at Relay Post
          handler    \* what each handler has read and is about to do

data == <<passport, handoff, tokens, outbox, log, receipts>>
vars == <<data, remote, handler>>

Kind == {"ANALYZE", "RESERVE", "RELEASE"}
Purpose == {"CLAIMANT", "CUSTODIAN"}

\* What an idempotency key is derived from: the key a client sent, the outbox
\* row a worker serves, or the creation of the case.
Source == Key \cup Kind \cup {"intake"}

PassportRecord ==
  [state : CustodyState, version : Nat, risk : RiskTier, selected : BOOLEAN,
   accepted : BOOLEAN, identity : BOOLEAN, approval : BOOLEAN, wrong : Nat,
   handoff : BOOLEAN]
HandoffStatus == {"NONE", "PENDING", "HELD", "RELEASED"}
HandoffRecord ==
  [status : HandoffStatus, issued : BOOLEAN, attested : [Purpose -> BOOLEAN],
   confirmed : BOOLEAN]
OutboxRow == [status : {"NONE", "OPEN", "COMPLETE", "FAILED"}, expected : Nat]

EventType ==
  {"ITEM_PASSPORT_CREATED", "EVIDENCE_PACKET_READY", "ANALYSIS_REQUESTED",
   "CANDIDATE_PACKET_PROPOSED", "ANALYST_ABSTAINED", "ANALYST_UNAVAILABLE",
   "PRIVATE_EVIDENCE_REQUESTED", "PRIVATE_EVIDENCE_RECEIVED",
   "CANDIDATE_PACKET_RECHECKED", "CLAIM_EVIDENCE_ACCEPTED", "CLAIM_EVIDENCE_REJECTED",
   "CLAIM_ATTEMPT_LIMIT_REACHED", "MANUAL_REVIEW_REQUIRED", "IDENTITY_ATTESTED",
   "SUPERVISOR_APPROVAL_REQUIRED", "SUPERVISOR_APPROVED", "SUPERVISOR_REJECTED",
   "RELAY_RESERVATION_REQUESTED", "RELAY_RESERVED", "ONE_TIME_CREDENTIALS_ISSUED",
   "TOKEN_PRESENTED", "RELAY_RELEASE_REQUESTED", "RELAY_RELEASED",
   "RELAY_RECONCILIATION_REQUIRED", "ITEM_PASSPORT_CLOSED"}
KeyName ==
  {"create", "evidence-ready", "analyzing", "candidates-ready", "agent-abstained",
   "manual-review", "clarification-required", "received", "rechecked", "accepted",
   "rejected", "attempt-limit", "claim-review", "attested", "approval-required",
   "approved", "rejected-by-supervisor", "reserve", "relay-attestation", "reconcile",
   "tokens", "token-attest", "release", "close"}
EventRecord ==
  [event : EventType, from : CustodyState, to : CustodyState, key : KeyName \X Source]

\* The commands a handler serves, the points it can stop at, and the argument
\* of its command (a verdict, an answer, a purpose or the kind of a row).
Operation == {"analysis", "worker", "claim", "identity", "approval", "reserve", "relay",
              "callback", "tokens", "attest", "release", "close"}
Pc == {"commit", "reread", "second", "handoff", "remote", "attested", "failed",
       "reconcile", "complete", "fail"}
Argument == {"-", "correct", "wrong", "approve", "reject"} \cup Purpose \cup Kind
Activity ==
  [op : Operation, pc : Pc, key : Source, arg : Argument, seen : PassportRecord,
   hand : HandoffRecord]

NoHandoff ==
  [status |-> "NONE", issued |-> FALSE, attested |-> [p \in Purpose |-> FALSE],
   confirmed |-> FALSE]

\* create_case: a specialist category never becomes a record, and the creation
\* itself is event 1 of version 1.
Init ==
  /\ \E risk \in {"ORDINARY", "VALUABLE"} :
       passport = [state |-> "RECEIVED", version |-> 1, risk |-> risk,
                   selected |-> FALSE, accepted |-> FALSE, identity |-> FALSE,
                   approval |-> FALSE, wrong |-> 0, handoff |-> FALSE]
  /\ handoff = NoHandoff
  /\ tokens = [p \in Purpose |-> "ABSENT"]
  /\ outbox = [k \in Kind |-> [status |-> "NONE", expected |-> 0]]
  /\ log = <<[event |-> "ITEM_PASSPORT_CREATED", from |-> "RECEIVED",
              to |-> "RECEIVED", key |-> <<"create", "intake">>]>>
  /\ receipts = {}
  /\ remote = {}
  /\ handler = [h \in Handler |-> None]

-----------------------------------------------------------------------------
(* Handlers and the repository transaction *)

\* A handler starts: it reads the case, and the client states the version the
\* case has now (an older one is refused by the handler's own check).
Begin(h, op, pc, k, arg) ==
  /\ handler[h] = None
  /\ handler' = [handler EXCEPT ![h] =
       [op |-> op, pc |-> pc, key |-> k, arg |-> arg, seen |-> passport,
        hand |-> NoHandoff]]
  /\ UNCHANGED <<data, remote>>

At(h, op, pc) ==
  /\ handler[h] # None
  /\ handler[h].op = op
  /\ handler[h].pc = pc

Goto(h, activity) ==
  /\ handler' = [handler EXCEPT ![h] = activity]
  /\ UNCHANGED <<data, remote>>

\* What a handler does after the repository refused its mutation: the relay
\* worker catches the error and turns to reconciliation, all others return it.
RefusedReconciliationFails(a) ==   \* Mutant: a refused reconciliation fails the row.
  IF a.op = "relay" /\ a.pc = "commit" THEN [a EXCEPT !.pc = "failed"]
  ELSE IF a.pc = "reconcile" THEN [a EXCEPT !.pc = "fail"] ELSE None

RefusedUntyped(a) == [a EXCEPT !.pc = "retry"]   \* Mutant: an unknown continuation.

Refused(a) ==
  IF a.op = "relay" /\ a.pc = "commit" THEN [a EXCEPT !.pc = "failed"] ELSE None

\* The MutationSpec a handler builds from the case it saw.
Mutation(name, a, event, target) ==
  [key |-> <<name, a.key>>, fp |-> a.arg, event |-> event, target |-> target,
   fact |-> FALSE]
FactMutation(name, a, event) ==
  [Mutation(name, a, event, a.seen.state) EXCEPT !.fact = TRUE]

\* The records a mutation writes, before it changes any of them.
Unwritten ==
  [case |-> passport, handoff |-> handoff, tokens |-> tokens, outbox |-> outbox]

\* Mutant: the optimistic version check is dropped.
MutationAcceptedAtAnyVersion(a, m) ==
  /\ \A r \in receipts : r.key # m.key
  /\ TransitionAllowed(passport.state, m.target, m.fact)

\* Mutant: an idempotency key that was used before is not recognised.
MutationAcceptedWithUsedKey(a, m) ==
  /\ passport.version = a.seen.version
  /\ TransitionAllowed(passport.state, m.target, m.fact)

MutationAccepted(a, m) ==
  /\ \A r \in receipts : r.key # m.key
  /\ passport.version = a.seen.version
  /\ TransitionAllowed(passport.state, m.target, m.fact)

\* Mutant: an event that leaves the state alone leaves the version alone.
NextVersionOfTransition(m) == IF m.fact THEN passport.version ELSE passport.version + 1

NextVersion(m) == passport.version + 1

\* apply_mutation, one transaction: `w` is what it writes when it is accepted,
\* `next` the activity of the handler after success or an exact replay.
ApplyMutation(h, m, w, next) ==
  LET a == handler[h]
      accepted == MutationAccepted(a, m)
      replayed == [key |-> m.key, fp |-> m.fp] \in receipts
  IN /\ \/ /\ accepted
           /\ passport' = [w.case EXCEPT !.state = m.target,
                                         !.version = NextVersion(m)]
           /\ handoff' = w.handoff
           /\ tokens' = w.tokens
           /\ outbox' = w.outbox
           /\ log' = Append(log, [event |-> m.event, from |-> passport.state,
                                  to |-> m.target, key |-> m.key])
           /\ receipts' = receipts \cup {[key |-> m.key, fp |-> m.fp]}
        \/ /\ ~accepted
           /\ UNCHANGED data
     /\ handler' = [handler EXCEPT ![h] =
                      IF accepted \/ replayed THEN next ELSE Refused(a)]
     /\ UNCHANGED remote

\* make_outbox: the command is bound to the version its own transaction commits.
NewRow(a) == [status |-> "OPEN", expected |-> a.seen.version + 1]

\* mark_outbox and mark_outbox_execution to a terminal status, which is sticky.
MarkOutbox(h, kind, status) ==
  /\ outbox' = [outbox EXCEPT ![kind].status =
                  IF @ \in {"COMPLETE", "FAILED"} THEN @ ELSE status]
  /\ handler' = [handler EXCEPT ![h] = None]
  /\ UNCHANGED <<passport, handoff, tokens, log, receipts, remote>>

Logged(event) == \E i \in DOMAIN log : log[i].event = event

-----------------------------------------------------------------------------
(* begin_analysis: two mutations with a fresh read between them *)

StartAnalysis(h, k) ==
  /\ passport.state \in {"RECEIVED", "EVIDENCE_READY"}
  /\ Begin(h, "analysis", "commit", k, "-")

PacketReady(h) ==
  /\ At(h, "analysis", "commit")
  /\ LET a == handler[h]
     IN /\ a.seen.state = "RECEIVED"
        /\ ApplyMutation(h, Mutation("evidence-ready", a, "EVIDENCE_PACKET_READY",
                                     "EVIDENCE_READY"),
                         Unwritten, [a EXCEPT !.pc = "reread"])

RequestAnalysis(h) ==
  /\ At(h, "analysis", "commit")
  /\ LET a == handler[h]
     IN /\ a.seen.state = "EVIDENCE_READY"
        /\ ApplyMutation(h, Mutation("analyzing", a, "ANALYSIS_REQUESTED", "ANALYZING"),
                         [Unwritten EXCEPT !.outbox = [@ EXCEPT !["ANALYZE"] = NewRow(a)]],
                         None)

\* get_case between two mutations of one command: what was just read decides
\* whether, and from which version, the handler goes on.
Reread(h) ==
  /\ handler[h] # None
  /\ handler[h].pc = "reread"
  /\ LET a == handler[h]
         goesOn == \/ a.op = "analysis" /\ passport.state = "EVIDENCE_READY"
                   \/ a.op = "identity" /\ passport.risk = "VALUABLE"
                   \/ a.op = "worker" /\ passport.state = "CANDIDATES_READY"
         finish == a.op = "worker" /\ passport.state = "CLARIFICATION_REQUIRED"
     IN Goto(h, IF goesOn
                THEN [a EXCEPT !.pc = IF a.op = "identity" THEN "second" ELSE "commit",
                               !.seen = passport]
                ELSE IF finish THEN [a EXCEPT !.pc = "complete"] ELSE None)

-----------------------------------------------------------------------------
(* process_outbox for ANALYZE_CASE (the execution claim only refuses more) *)

\* A delivery resumes at the state the case is in; a committed abstention or
\* failure is finished without another model call.
DeliverAnalysis(h) ==
  /\ outbox["ANALYZE"].status = "OPEN"
  /\ \E pc \in {"commit", "complete", "fail"} :
       /\ CASE pc = "commit"   -> passport.state \in {"ANALYZING", "CANDIDATES_READY"}
            [] pc = "complete" -> \/ passport.state = "CLARIFICATION_REQUIRED"
                                  \/ /\ passport.state = "MANUAL_REVIEW"
                                     /\ Logged("ANALYST_ABSTAINED")
            [] pc = "fail"     -> /\ passport.state = "MANUAL_REVIEW"
                                  /\ Logged("ANALYST_UNAVAILABLE")
       /\ Begin(h, "worker", pc, "ANALYZE", "ANALYZE")

ProposeCandidates(h) ==
  /\ At(h, "worker", "commit")
  /\ LET a == handler[h]
     IN /\ a.seen.state = "ANALYZING"
        /\ ApplyMutation(h, Mutation("candidates-ready", a, "CANDIDATE_PACKET_PROPOSED",
                                     "CANDIDATES_READY"),
                         [Unwritten EXCEPT !.case.selected = TRUE],
                         [a EXCEPT !.pc = "reread"])

\* The analyst abstains, or the analysis fails (_terminalize_analysis_failure).
StopAnalysis(h) ==
  /\ At(h, "worker", "commit")
  /\ LET a == handler[h]
     IN /\ a.seen.state = "ANALYZING"
        /\ \/ ApplyMutation(h, Mutation("agent-abstained", a, "ANALYST_ABSTAINED",
                                        "MANUAL_REVIEW"),
                            [Unwritten EXCEPT !.case.selected = FALSE],
                            [a EXCEPT !.pc = "complete"])
           \/ ApplyMutation(h, Mutation("manual-review", a, "ANALYST_UNAVAILABLE",
                                        "MANUAL_REVIEW"),
                            Unwritten, [a EXCEPT !.pc = "fail"])

AskPrivateQuestion(h) ==
  /\ At(h, "worker", "commit")
  /\ LET a == handler[h]
     IN /\ a.seen.state = "CANDIDATES_READY"
        /\ ApplyMutation(h, Mutation("clarification-required", a,
                                     "PRIVATE_EVIDENCE_REQUESTED", "CLARIFICATION_REQUIRED"),
                         Unwritten, [a EXCEPT !.pc = "reread"])

\* The last step of a delivery, after its result was committed.
MarkComplete(h) ==
  /\ handler[h] # None
  /\ handler[h].pc = "complete"
  /\ MarkOutbox(h, handler[h].arg, "COMPLETE")

MarkFailed(h) ==
  /\ handler[h] # None
  /\ handler[h].pc = "fail"
  /\ MarkOutbox(h, handler[h].arg, "FAILED")

-----------------------------------------------------------------------------
(* submit_claim_evidence: one transaction of several events *)

\* Only a handler that saw CLARIFICATION_REQUIRED can hold a link whose version
\* is the one it saw.
SubmitClaimEvidence(h, k, answer) ==
  /\ passport.state = "CLARIFICATION_REQUIRED"
  /\ passport.selected
  /\ Begin(h, "claim", "commit", k, answer)

\* Mutant: the wrong answer just given is not counted against the limit.
ClaimStepsOffByOne(a) ==
  IF a.arg = "correct"
  THEN <<[name |-> "accepted", event |-> "CLAIM_EVIDENCE_ACCEPTED",
          to |-> "CLAIM_EVIDENCE_ACCEPTED"]>>
  ELSE LET rejected == <<[name |-> "rejected", event |-> "CLAIM_EVIDENCE_REJECTED",
                          to |-> "CLARIFICATION_REQUIRED"]>>
       IN IF a.seen.wrong > WrongAnswerLimit
          THEN rejected \o
               <<[name |-> "claim-review", event |-> "MANUAL_REVIEW_REQUIRED",
                  to |-> "MANUAL_REVIEW"]>>
          ELSE rejected

\* The events of the batch, with the key suffix of each.
ClaimSteps(a) ==
  IF a.arg = "correct"
  THEN <<[name |-> "received", event |-> "PRIVATE_EVIDENCE_RECEIVED", to |-> "ANALYZING"],
         [name |-> "rechecked", event |-> "CANDIDATE_PACKET_RECHECKED",
          to |-> "CANDIDATES_READY"],
         [name |-> "accepted", event |-> "CLAIM_EVIDENCE_ACCEPTED",
          to |-> "CLAIM_EVIDENCE_ACCEPTED"]>>
  ELSE LET rejected == <<[name |-> "rejected", event |-> "CLAIM_EVIDENCE_REJECTED",
                          to |-> "CLARIFICATION_REQUIRED"]>>
       IN IF a.seen.wrong + 1 > WrongAnswerLimit
          THEN rejected \o
               <<[name |-> "attempt-limit", event |-> "CLAIM_ATTEMPT_LIMIT_REACHED",
                  to |-> "ANALYZING"],
                 [name |-> "claim-review", event |-> "MANUAL_REVIEW_REQUIRED",
                  to |-> "MANUAL_REVIEW"]>>
          ELSE rejected

\* consume_claim_link_and_apply_mutations: receipt first, then version and
\* state, then all events of the batch or none.
CommitClaimEvidence(h) ==
  /\ At(h, "claim", "commit")
  /\ LET a == handler[h]
         key == <<"claim", a.key>>
         steps == ClaimSteps(a)
         n == Len(steps)
         accepted == /\ \A r \in receipts : r.key # key
                     /\ passport.version = a.seen.version
                     /\ passport.state = "CLARIFICATION_REQUIRED"
     IN \/ /\ accepted
           /\ passport' = [passport EXCEPT
                !.state = steps[n].to,
                !.version = @ + n,
                !.accepted = @ \/ a.arg = "correct",
                !.wrong = IF a.arg = "correct" THEN @ ELSE a.seen.wrong + 1]
           /\ log' = log \o [i \in 1..n |->
                [event |-> steps[i].event,
                 from |-> IF i = 1 THEN passport.state ELSE steps[i - 1].to,
                 to |-> steps[i].to, key |-> <<steps[i].name, a.key>>]]
           /\ receipts' = receipts \cup {[key |-> key, fp |-> <<a.seen.version, a.arg>>]}
           /\ UNCHANGED <<handoff, tokens, outbox>>
        \/ /\ ~accepted
           /\ UNCHANGED data
  /\ handler' = [handler EXCEPT ![h] = None]
  /\ UNCHANGED remote

-----------------------------------------------------------------------------
(* Human gates *)

AttestIdentity(h, k) ==
  /\ passport.state \in {"CLAIM_EVIDENCE_ACCEPTED", "IDENTITY_ATTESTED", "APPROVAL_REQUIRED"}
  /\ ~passport.identity
  /\ Begin(h, "identity", "commit", k, "-")

CommitIdentity(h) ==
  /\ At(h, "identity", "commit")
  /\ LET a == handler[h]
     IN ApplyMutation(h, Mutation("attested", a, "IDENTITY_ATTESTED", "IDENTITY_ATTESTED"),
                      [Unwritten EXCEPT !.case.identity = TRUE],
                      [a EXCEPT !.pc = "reread"])

RequireApproval(h) ==
  /\ At(h, "identity", "second")
  /\ LET a == handler[h]
     IN ApplyMutation(h, Mutation("approval-required", a, "SUPERVISOR_APPROVAL_REQUIRED",
                                  "APPROVAL_REQUIRED"),
                      Unwritten, None)

RecordApproval(h, k, verdict) ==
  /\ passport.state = "APPROVAL_REQUIRED"
  /\ Begin(h, "approval", "commit", k, verdict)

CommitApproval(h) ==
  /\ At(h, "approval", "commit")
  /\ LET a == handler[h]
     IN \/ /\ a.arg = "approve"
           /\ ApplyMutation(h, FactMutation("approved", a, "SUPERVISOR_APPROVED"),
                            [Unwritten EXCEPT !.case.approval = TRUE], None)
        \/ /\ a.arg = "reject"
           /\ ApplyMutation(h, Mutation("rejected-by-supervisor", a, "SUPERVISOR_REJECTED",
                                        "REJECTED"),
                            Unwritten, None)

-----------------------------------------------------------------------------
(* Reservation and the relay worker *)

\* Mutant: identity alone is taken for the release policy.
BeginReservationWithoutPolicy(h, k) ==
  /\ passport.state \in {"APPROVAL_REQUIRED", "IDENTITY_ATTESTED"}
  /\ passport.identity
  /\ Begin(h, "reserve", "commit", k, "-")

BeginReservation(h, k) ==
  /\ passport.state \in {"APPROVAL_REQUIRED", "IDENTITY_ATTESTED"}
  /\ ReleasePolicy(passport) = "ALLOW_HANDOFF"
  /\ passport.selected
  /\ Begin(h, "reserve", "commit", k, "-")

CommitReservation(h) ==
  /\ At(h, "reserve", "commit")
  /\ LET a == handler[h]
     IN ApplyMutation(h, Mutation("reserve", a, "RELAY_RESERVATION_REQUESTED",
                                  "RESERVE_REQUESTED"),
                      [Unwritten EXCEPT !.case.handoff = TRUE,
                                        !.handoff = [NoHandoff EXCEPT !.status = "PENDING"],
                                        !.outbox = [@ EXCEPT !["RESERVE"] = NewRow(a)]],
                      None)

RequestState(kind) == IF kind = "RESERVE" THEN "RESERVE_REQUESTED" ELSE "RELEASE_REQUESTED"

\* process_outbox and the head of _process_relay.
DeliverRelay(h, kind) ==
  /\ outbox[kind].status = "OPEN"
  /\ passport.state = RequestState(kind)
  /\ Begin(h, "relay", "remote", kind, kind)

\* Mutant: a call that may not have taken effect counts as success.
RelayExecuteAssumesSuccess(h) ==
  /\ At(h, "relay", "remote")
  /\ \/ remote' = remote \cup {handler[h].arg}
     \/ remote' = remote
  /\ handler' = [handler EXCEPT ![h].pc = "attested"]
  /\ UNCHANGED data

\* The call to Relay Post: it may take effect and answer, take effect and lose
\* the answer, or do nothing; every error looks the same to the worker.
RelayExecute(h) ==
  /\ At(h, "relay", "remote")
  /\ LET a == handler[h]
     IN \/ /\ remote' = remote \cup {a.arg}
           /\ \E pc \in {"attested", "failed"} :
                handler' = [handler EXCEPT ![h] = [a EXCEPT !.pc = pc]]
        \/ /\ remote' = remote
           /\ handler' = [handler EXCEPT ![h] = [a EXCEPT !.pc = "failed"]]
  /\ UNCHANGED data

\* commit_simulator_callback: the signed result of a finalised handoff arrives
\* on its own, any number of times.
ReceiveCallback(h) ==
  /\ "RELEASE" \in remote
  /\ passport.handoff
  /\ outbox["RELEASE"].status # "NONE"
  /\ \/ passport.state = "RELEASE_REQUESTED"
     \/ outbox["RELEASE"].status = "COMPLETE"
  /\ Begin(h, "callback", "attested", "RELEASE", "RELEASE")

OutcomeEvent(kind) == IF kind = "RESERVE" THEN "RELAY_RESERVED" ELSE "RELAY_RELEASED"

\* The reads of commit_relay_attestation: a completed row is a replay, an event
\* that already carries the attestation only completes the row, a stale case is
\* an error.
ReadForAttestation(h) ==
  /\ handler[h] # None
  /\ handler[h].pc = "attested"
  /\ LET a == handler[h]
         row == outbox[a.arg]
         expected == IF a.arg = "RESERVE" THEN a.seen.version ELSE row.expected
         current == /\ passport.version = expected
                    /\ passport.version = row.expected
                    /\ passport.state = RequestState(a.arg)
     IN Goto(h, IF row.status = "COMPLETE" THEN None
                ELSE IF Logged(OutcomeEvent(a.arg)) THEN [a EXCEPT !.pc = "complete"]
                ELSE IF current THEN [a EXCEPT !.pc = "handoff", !.seen = passport]
                ELSE IF a.op = "relay" THEN [a EXCEPT !.pc = "failed"] ELSE None)

\* Two reservation attestations differ in the time they carry; a release
\* attestation from the worker and one from a callback differ in their eTag.
CommitAttestation(h) ==
  /\ handler[h] # None
  /\ handler[h].op \in {"relay", "callback"}
  /\ handler[h].pc = "commit"
  /\ LET a == handler[h]
         kind == a.arg
         m == [Mutation("relay-attestation", a, OutcomeEvent(kind),
                        IF kind = "RESERVE" THEN "RESERVED" ELSE "RELEASED")
                 EXCEPT !.fp = IF kind = "RESERVE" THEN <<a.op, h>> ELSE <<a.op>>]
         status == IF kind = "RESERVE" THEN "HELD" ELSE "RELEASED"
     IN ApplyMutation(h, m, [Unwritten EXCEPT !.handoff = [a.hand EXCEPT !.status = status]],
                      [a EXCEPT !.pc = "complete"])

\* The except branch of _process_relay.
RelayFailed(h) ==
  /\ At(h, "relay", "failed")
  /\ LET a == handler[h]
     IN Goto(h, IF passport.state = RequestState(a.arg)
                THEN [a EXCEPT !.pc = "reconcile", !.seen = passport] ELSE None)

RequireReconciliation(h) ==
  /\ At(h, "relay", "reconcile")
  /\ LET a == handler[h]
     IN ApplyMutation(h, Mutation("reconcile", a, "RELAY_RECONCILIATION_REQUIRED",
                                  "RECONCILIATION_REQUIRED"),
                      Unwritten, [a EXCEPT !.pc = "fail"])

-----------------------------------------------------------------------------
(* Credentials, release and closing *)

IssueTokens(h, k) ==
  /\ passport.state = "RESERVED"
  /\ passport.handoff
  /\ Begin(h, "tokens", "handoff", k, "-")

BeginRelease(h, k) ==
  /\ passport.state = "CLAIMANT_PRESENT"
  /\ passport.handoff
  /\ Begin(h, "release", "handoff", k, "-")

CloseCase(h, k) ==
  /\ passport.state = "RELEASED"
  /\ passport.handoff
  /\ Begin(h, "close", "handoff", k, "-")

EitherAttested(hand) == \E p \in Purpose : hand.attested[p]   \* Mutant: one is enough.

BothAttested(hand) == \A p \in Purpose : hand.attested[p]

\* get_handoff, read after the case, and the checks each command makes on it.
ReadHandoff(h) ==
  /\ handler[h] # None
  /\ handler[h].pc = "handoff"
  /\ LET a == handler[h]
         allowed == CASE a.op = "tokens"  -> ~handoff.issued
                      [] a.op = "release" -> handoff.status = "HELD" /\ BothAttested(handoff)
                      [] a.op = "close"   -> /\ handoff.status = "RELEASED"
                                             /\ BothAttested(handoff)
                                             /\ handoff.confirmed
                      [] OTHER            -> TRUE
     IN Goto(h, IF allowed THEN [a EXCEPT !.pc = "commit", !.hand = handoff] ELSE None)

CommitTokens(h) ==
  /\ At(h, "tokens", "commit")
  /\ LET a == handler[h]
     IN ApplyMutation(h, FactMutation("tokens", a, "ONE_TIME_CREDENTIALS_ISSUED"),
                      [Unwritten EXCEPT !.handoff = [a.hand EXCEPT !.issued = TRUE],
                                        !.tokens = [p \in Purpose |-> "UNUSED"]],
                      None)

AttestToken(h, k, purpose) ==
  /\ passport.state \in {"RESERVED", "CLAIMANT_PRESENT"}
  /\ passport.handoff
  /\ Begin(h, "attest", "commit", k, purpose)

\* consume_token: after the receipt check the token must be unused, and the
\* handoff is read inside the transaction.
ConsumeToken(h) ==
  /\ At(h, "attest", "commit")
  /\ LET a == handler[h]
         target == IF a.arg = "CLAIMANT" /\ a.seen.state = "RESERVED"
                   THEN "CLAIMANT_PRESENT" ELSE a.seen.state
         m == [Mutation("token-attest", a, "TOKEN_PRESENTED", target)
                 EXCEPT !.fact = (target = passport.state)]
     IN IF tokens[a.arg] = "UNUSED"
        THEN ApplyMutation(h, m,
               [Unwritten EXCEPT !.handoff.attested = [@ EXCEPT ![a.arg] = TRUE],
                                 !.tokens = [@ EXCEPT ![a.arg] = "USED"]],
               None)
        ELSE Goto(h, None)

CommitRelease(h) ==
  /\ At(h, "release", "commit")
  /\ LET a == handler[h]
     IN ApplyMutation(h, Mutation("release", a, "RELAY_RELEASE_REQUESTED", "RELEASE_REQUESTED"),
                      [Unwritten EXCEPT !.handoff = [a.hand EXCEPT !.confirmed = TRUE],
                                        !.outbox = [@ EXCEPT !["RELEASE"] = NewRow(a)]],
                      None)

CommitClose(h) ==
  /\ At(h, "close", "commit")
  /\ ApplyMutation(h, Mutation("close", handler[h], "ITEM_PASSPORT_CLOSED", "CLOSED"),
                   Unwritten, None)

\* A handler stops before its next step: crash, timeout, lost connection.
Abandon(h) ==
  /\ handler[h] # None
  /\ Goto(h, None)

-----------------------------------------------------------------------------
Start(h) ==
  \/ \E k \in Key : \/ StartAnalysis(h, k) \/ AttestIdentity(h, k)
                    \/ BeginReservation(h, k) \/ IssueTokens(h, k)
                    \/ BeginRelease(h, k) \/ CloseCase(h, k)
                    \/ \E answer \in {"correct", "wrong"} : SubmitClaimEvidence(h, k, answer)
                    \/ \E verdict \in {"approve", "reject"} : RecordApproval(h, k, verdict)
                    \/ \E p \in Purpose : AttestToken(h, k, p)
  \/ DeliverAnalysis(h)
  \/ \E kind \in {"RESERVE", "RELEASE"} : DeliverRelay(h, kind)
  \/ ReceiveCallback(h)

Commit(h) ==
  \/ PacketReady(h) \/ RequestAnalysis(h)
  \/ ProposeCandidates(h) \/ StopAnalysis(h) \/ AskPrivateQuestion(h)
  \/ CommitClaimEvidence(h)
  \/ CommitIdentity(h) \/ RequireApproval(h) \/ CommitApproval(h)
  \/ CommitReservation(h) \/ CommitAttestation(h) \/ RequireReconciliation(h)
  \/ CommitTokens(h) \/ ConsumeToken(h) \/ CommitRelease(h) \/ CommitClose(h)

Continue(h) ==
  \/ Reread(h) \/ ReadHandoff(h) \/ ReadForAttestation(h)
  \/ RelayExecute(h) \/ RelayFailed(h)
  \/ MarkComplete(h) \/ MarkFailed(h) \/ Abandon(h)

Next == \E h \in Handler : Start(h) \/ Commit(h) \/ Continue(h)

Spec == Init /\ [][Next]_vars

-----------------------------------------------------------------------------
(* Properties *)

Unstarted == {"RECEIVED", "EVIDENCE_READY", "ANALYZING", "CANDIDATES_READY",
              "CLARIFICATION_REQUIRED", "CLAIM_EVIDENCE_ACCEPTED", "IDENTITY_ATTESTED",
              "APPROVAL_REQUIRED"}
Releasing == {"RELEASE_REQUESTED", "RELEASED", "CLOSED"}
Granted == {"RESERVE_REQUESTED", "RESERVED", "CLAIMANT_PRESENT",
            "RECONCILIATION_REQUIRED"} \cup Releasing
Stopped == {"CLOSED", "REJECTED", "MANUAL_REVIEW", "RECONCILIATION_REQUIRED"}

Occurrences(event) == {i \in DOMAIN log : log[i].event = event}

\* Every record has the shape its pydantic model declares, and every handler is
\* at a point of the command it serves.
TypeOK ==
  /\ passport \in PassportRecord
  /\ handoff \in HandoffRecord
  /\ tokens \in [Purpose -> {"ABSENT", "UNUSED", "USED"}]
  /\ outbox \in [Kind -> OutboxRow]
  /\ log \in Seq(EventRecord)
  /\ remote \subseteq {"RESERVE", "RELEASE"}
  /\ handler \in [Handler -> Activity \cup {None}]

\* The commands that write the handoff back from the copy they read.
WritesHandoffBack == {"tokens", "release", "close", "relay", "callback"}

\* What the expected-version check of apply_mutation is worth: a handler whose
\* snapshot carries the current version saw the current case, and the handoff
\* it will write back is the current one.  It holds because every committed
\* mutation, fact events included, advances the version of the case, and the
\* handoff only changes together with it.
SnapshotsCurrent ==
  \A h \in Handler :
    handler[h] # None =>
      LET a == handler[h]
      IN /\ a.seen.version <= passport.version
         /\ a.seen.version = passport.version =>
              /\ a.seen = passport
              /\ a.pc = "commit" /\ a.op \in WritesHandoffBack => a.hand = handoff

\* From the reservation request on, and as soon as Relay Post has acted at all,
\* every gate of the release policy is satisfied by the case as it is now:
\* nothing that commits between the policy decision of begin_reservation and
\* its transaction, or later, can leave a reservation without its gates.
ReleaseGates ==
  passport.state \in Granted \/ remote # {} => ReleasePolicy(passport) = "ALLOW_HANDOFF"

\* Before that point: whoever is about to request a reservation decided on a case
\* that satisfies the gates, and whoever is about to call Relay Post, or already
\* did, serves a case for which the reservation was requested.
GatesAhead ==
  /\ remote # {} => passport.state \in Granted
  /\ \A h \in Handler :
       handler[h] # None =>
         /\ handler[h].op = "reserve" => ReleasePolicy(handler[h].seen) = "ALLOW_HANDOFF"
         /\ handler[h].op = "relay" => passport.state \in Granted

\* A release is only requested, executed or closed on both one-time credentials
\* and the confirmation of staff.
ReleaseEvidenced ==
  passport.state \in Releasing \/ "RELEASE" \in remote =>
    /\ \A p \in Purpose : handoff.attested[p]
    /\ handoff.confirmed

\* A credential is used exactly when the handoff carries its attestation, and
\* one TOKEN_PRESENTED event stands for each.
AttestationsMatchTokens ==
  /\ \A p \in Purpose : handoff.attested[p] <=> tokens[p] = "USED"
  /\ Cardinality(Occurrences("TOKEN_PRESENTED"))
       = Cardinality({p \in Purpose : tokens[p] = "USED"})

\* The handoff, its credentials and the events tell one story, and no release is
\* without it, although commit_relay_attestation writes the handoff back from a
\* copy it read earlier: no update of it is lost, and no retry of attest_token
\* consumes a credential again.
HandoffEvidence == ReleaseEvidenced /\ AttestationsMatchTokens

\* The event log is the history of the case: one event for each version, each
\* starting where the one before ended and allowed by the state graph, the last
\* one ending at the present state, and no idempotency key standing twice.
EventLedger ==
  /\ Len(log) = passport.version
  /\ log[Len(log)].to = passport.state
  /\ \A i \in 2..Len(log) :
       /\ log[i].from = log[i - 1].to
       /\ TransitionAllowed(log[i].from, log[i].to,
            log[i].event \in {"SUPERVISOR_APPROVED", "ONE_TIME_CREDENTIALS_ISSUED",
                              "TOKEN_PRESENTED", "CLAIM_EVIDENCE_REJECTED"})
  /\ \A i, j \in DOMAIN log : log[i].key = log[j].key => i = j

\* The case never claims a relay effect that did not happen, and Relay Post
\* never released an item of a case that is not releasing, released, or waiting
\* for an operator: a lost answer leads to reconciliation, never to success.
RelayAgreement ==
  /\ passport.state \in {"RESERVED", "CLAIMANT_PRESENT"} \cup Releasing => "RESERVE" \in remote
  /\ passport.state \in {"RELEASED", "CLOSED"} => "RELEASE" \in remote
  /\ "RELEASE" \in remote => passport.state \in Releasing \cup {"RECONCILIATION_REQUIRED"}

\* What an outbox row says at its end is what the case says happened, and a
\* relay command has at most one outcome however often it is delivered and
\* whichever of task and callback arrives first.
OutboxTruth ==
  /\ outbox["ANALYZE"].status = "COMPLETE" =>
       Logged("PRIVATE_EVIDENCE_REQUESTED") \/ Logged("ANALYST_ABSTAINED")
  /\ outbox["ANALYZE"].status = "FAILED" => Logged("ANALYST_UNAVAILABLE")
  /\ \A kind \in {"RESERVE", "RELEASE"} :
       /\ outbox[kind].status = "COMPLETE" => Logged(OutcomeEvent(kind))
       /\ outbox[kind].status = "FAILED" => passport.state = "RECONCILIATION_REQUIRED"
       /\ Cardinality(Occurrences(OutcomeEvent(kind))) <= 1

\* Overlapping answers are neither lost nor counted twice although the count is
\* computed from a case read before the transaction, and the answer that passes
\* the limit takes the case to manual review.
WrongAnswersCounted ==
  /\ passport.wrong = Cardinality(Occurrences("CLAIM_EVIDENCE_REJECTED"))
  /\ passport.wrong > WrongAnswerLimit => passport.state = "MANUAL_REVIEW"

\* A case that was closed, rejected or handed to an operator stays as it is: no
\* handler that was under way, late callback or redelivered task moves it on,
\* although the state graph has edges out of two of these states.
StoppedStaysStopped ==
  [][passport.state \in Stopped => UNCHANGED <<passport, handoff, tokens, log>>]_vars

\* The promise the case keeps, read off its records.
StageOf(state) ==
  CASE state = "RESERVE_REQUESTED" -> "requested"
    [] state \in {"RESERVED", "CLAIMANT_PRESENT"} -> "held"
    [] state = "RELEASE_REQUESTED" -> "releasing"
    [] state = "RELEASED" -> "released"
    [] state = "CLOSED" -> "closed"
    [] state \in {"REJECTED", "MANUAL_REVIEW", "RECONCILIATION_REQUIRED"} -> "stopped"
    [] OTHER -> "deciding"

Facts ==
  {f \in {"proof", "identity", "approval", "CLAIMANT", "CUSTODIAN", "confirmation"} :
     CASE f = "proof"        -> passport.accepted
       [] f = "identity"     -> passport.identity
       [] f = "approval"     -> passport.approval
       [] f \in Purpose      -> handoff.attested[f]
       [] f = "confirmation" -> handoff.confirmed}

Promise == INSTANCE CustodyPromise
             WITH stage <- StageOf(passport.state), facts <- Facts,
                  valuable <- passport.risk = "VALUABLE"

\* Every history of the service is a history of the promise: whatever overlaps,
\* repeats or stops half-way, a case passes the stages in order, each on the
\* facts it needs, and no fact once established is lost.
PromiseKept == Promise!Spec

=============================================================================
