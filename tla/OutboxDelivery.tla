--------------------------- MODULE OutboxDelivery ---------------------------
(***************************************************************************)
(* The life of one committed ANALYZE_CASE command: publication by the      *)
(* request that created it and by operators (_publish_outbox,              *)
(* _reconcile_publish_outboxes), Cloud Tasks, and the deliveries that run  *)
(* it under an execution claim (process_outbox, _process_analysis).        *)
(*                                                                         *)
(* Cloud Tasks is external: it creates at most one task of a name, may     *)
(* lose the reply of a creation, delivers at least once, retries a failed  *)
(* delivery a bounded number of times and remembers names after the task   *)
(* is gone.                                                                *)
(***************************************************************************)
EXTENDS Naturals

CONSTANTS Worker,        \* deliveries that may overlap
          Operator,      \* operators that may run the reconciler
          Request,       \* the request that committed the command
          None,
          MaxAttempts,   \* delivery attempts of a task (3 in the deployment)
          MaxDuplicates, \* bound: deliveries Cloud Tasks makes twice
          MaxCrashes,    \* bound: processes that stop half-way
          MaxReconciles, \* bound: runs of the reconciler
          MaxErrors,     \* bound: task creations that fail outright
          LostReplies    \* whether the reply of a successful creation can be lost

ASSUME BoundsAssumption ==
  /\ MaxAttempts \in Nat \ {0}
  /\ {MaxDuplicates, MaxCrashes, MaxReconciles, MaxErrors} \subseteq Nat
  /\ LostReplies \in BOOLEAN

ASSUME NoneAssumption == None \notin Worker

VARIABLES row,        \* OutboxRecord: status and failure stage
          claim,      \* OutboxExecutionClaim: owner, live lease, terminal status
          case,       \* the part of the case the analysis moves
          task,       \* the Cloud Tasks task of the row's name
          publisher,  \* pc of the request and of each operator
          worker,     \* pc of each delivery and the case it read
          modelCalls, \* how often the analyst was called
          ambiguous,  \* whether the reply of a successful creation was lost
          budget      \* what is left of the bounds

vars == <<row, claim, case, task, publisher, worker, modelCalls, ambiguous, budget>>

Publisher == Operator \cup {Request}
Idle == [pc |-> "idle", seen |-> "ANALYZING"]
Terminal == {"COMPLETE", "FAILED"}
AnalysisState ==
  {"ANALYZING", "CANDIDATES", "CLARIFICATION", "ABSTAINED", "REVIEW", "BEYOND"}
PublisherPoint == {"idle", "reset", "publish", "created", "refused"}
WorkerPoint ==
  {"idle", "read", "dispatched", "claim", "run", "recover", "reread", "model",
   "propose", "abstain", "terminalize", "ask", "complete", "acknowledge", "fail"}

Init ==
  /\ row = [status |-> "PENDING", stage |-> "-"]
  /\ claim = [owner |-> None, live |-> FALSE, terminal |-> "-"]
  /\ case = "ANALYZING"
  /\ task = [state |-> "absent", attempts |-> 0]
  /\ publisher = [p \in Publisher |-> IF p = Request THEN "publish" ELSE "idle"]
  /\ worker = [w \in Worker |-> Idle]
  /\ modelCalls = 0
  /\ ambiguous = FALSE
  /\ budget = [duplicates |-> MaxDuplicates, crashes |-> MaxCrashes,
               reconciles |-> MaxReconciles, errors |-> MaxErrors]

Spend(what) == budget[what] > 0 /\ budget' = [budget EXCEPT ![what] = @ - 1]

-----------------------------------------------------------------------------
(* Publication *)

\* mark_outbox: a finished row is final, and a late publication failure does not
\* undo a dispatch.
Finished == row.status = "COMPLETE" \/ row = [status |-> "FAILED", stage |-> "EXECUTE"]

\* Mutants: a later mark overwrites a finished row; a mark keeps the failure
\* stage of the one before.
MarkedAnyway(status, stage) == [status |-> status, stage |-> stage]
MarkedKeepingStage(status, stage) ==
  [status |-> status, stage |-> IF stage = "-" THEN row.stage ELSE stage]

Marked(status, stage) ==
  IF Finished \/ (row.status = "DISPATCHED" /\ stage = "PUBLISH")
  THEN row ELSE [status |-> status, stage |-> stage]

\* The reconciler takes a row that is PENDING or failed to be published (that of
\* an ordinary intake only while the case is analysing, that of the demo case
\* always).
StartReconcile(p) ==
  /\ p \in Operator
  /\ publisher[p] = "idle"
  /\ \/ /\ row.status = "PENDING"
        /\ publisher' = [publisher EXCEPT ![p] = "publish"]
     \/ /\ row = [status |-> "FAILED", stage |-> "PUBLISH"]
        /\ publisher' = [publisher EXCEPT ![p] = "reset"]
  /\ Spend("reconciles")
  /\ UNCHANGED <<row, claim, case, task, worker, modelCalls, ambiguous>>

ResetRow(p) ==
  /\ publisher[p] = "reset"
  /\ row' = Marked("PENDING", "-")
  /\ publisher' = [publisher EXCEPT ![p] = "publish"]
  /\ UNCHANGED <<claim, case, task, worker, modelCalls, ambiguous, budget>>

\* create_task under the row's name.  A name that was ever used is refused, and
\* the refusal (AlreadyExists) is reported as queued.
CreateTask(p) ==
  /\ publisher[p] = "publish"
  /\ task' = IF task.state = "absent" THEN [task EXCEPT !.state = "queued"] ELSE task
  /\ publisher' = [publisher EXCEPT ![p] = "created"]
  /\ UNCHANGED <<row, claim, case, worker, modelCalls, ambiguous, budget>>

\* The task is created and its reply is lost: the caller sees an error.
CreateTaskReplyLost(p) ==
  /\ LostReplies
  /\ publisher[p] = "publish"
  /\ task.state = "absent"
  /\ task' = [task EXCEPT !.state = "queued"]
  /\ publisher' = [publisher EXCEPT ![p] = "refused"]
  /\ ambiguous' = TRUE
  /\ UNCHANGED <<row, claim, case, worker, modelCalls, budget>>

CreateTaskFails(p) ==
  /\ publisher[p] = "publish"
  /\ publisher' = [publisher EXCEPT ![p] = "refused"]
  /\ Spend("errors")
  /\ UNCHANGED <<row, claim, case, task, worker, modelCalls, ambiguous>>

MarkPublication(p) ==
  /\ \/ publisher[p] = "created" /\ row' = Marked("DISPATCHED", "-")
     \/ publisher[p] = "refused" /\ row' = Marked("FAILED", "PUBLISH")
  /\ publisher' = [publisher EXCEPT ![p] = "idle"]
  /\ UNCHANGED <<claim, case, task, worker, modelCalls, ambiguous, budget>>

PublisherStops(p) ==
  /\ publisher[p] # "idle"
  /\ publisher' = [publisher EXCEPT ![p] = "idle"]
  /\ Spend("crashes")
  /\ UNCHANGED <<row, claim, case, task, worker, modelCalls, ambiguous>>

-----------------------------------------------------------------------------
(* Cloud Tasks *)

Goto(w, pc) == worker' = [worker EXCEPT ![w] = [pc |-> pc, seen |-> @.seen]]

\* The queue dispatches one attempt at a time; a retry waits for the minimum
\* backoff, which the deployment keeps longer than the lease.
Dispatch(w) ==
  /\ task.state = "queued"
  /\ task.attempts < MaxAttempts
  /\ \A v \in Worker : worker[v].pc = "idle"
  /\ ~claim.live
  /\ task' = [task EXCEPT !.attempts = @ + 1]
  /\ Goto(w, "read")
  /\ UNCHANGED <<row, claim, case, publisher, modelCalls, ambiguous, budget>>

\* At-least-once delivery: an attempt is delivered a second time, beside the
\* first one or after it.
DispatchAgain(w) ==
  /\ task.attempts > 0
  /\ worker[w].pc = "idle"
  /\ Spend("duplicates")
  /\ Goto(w, "read")
  /\ UNCHANGED <<row, claim, case, task, publisher, modelCalls, ambiguous>>

\* The task is deleted after a 2xx answer, or after a failure of its last attempt.
Answered(w, ok) ==
  /\ worker' = [worker EXCEPT ![w] = Idle]
  /\ task' = IF ok \/ task.attempts = MaxAttempts THEN [task EXCEPT !.state = "gone"] ELSE task
  /\ UNCHANGED <<publisher, ambiguous>>

WorkerStops(w) ==
  /\ worker[w].pc # "idle"
  /\ Answered(w, FALSE)
  /\ Spend("crashes")
  /\ UNCHANGED <<row, claim, case, modelCalls>>

LeaseExpires ==
  /\ claim.live
  /\ claim' = [claim EXCEPT !.live = FALSE]
  /\ UNCHANGED <<row, case, task, publisher, worker, modelCalls, ambiguous, budget>>

-----------------------------------------------------------------------------
(* process_outbox *)

\* Only the failure of a publication makes the delivery fail; a finished row is
\* acknowledged.
ReadRow(w) ==
  /\ worker[w].pc = "read"
  /\ \/ /\ row.status \in Terminal
        /\ Answered(w, row # [status |-> "FAILED", stage |-> "PUBLISH"])
     \/ /\ row.status = "PENDING"
        /\ Goto(w, "dispatched")
        /\ UNCHANGED <<task, publisher, ambiguous>>
     \/ /\ row.status = "DISPATCHED"
        /\ Goto(w, "claim")
        /\ UNCHANGED <<task, publisher, ambiguous>>
  /\ UNCHANGED <<row, claim, case, modelCalls, budget>>

MarkDispatched(w) ==
  /\ worker[w].pc = "dispatched"
  /\ row' = Marked("DISPATCHED", "-")
  /\ Goto(w, "claim")
  /\ UNCHANGED <<claim, case, task, publisher, modelCalls, ambiguous, budget>>

\* claim_outbox_execution: the first claim may call the model, one that replaces
\* an expired lease is there to recover.
ClaimRefusedForever == row.status \in Terminal \/ claim.owner # None   \* Mutant: no takeover.

ClaimRefused == row.status \in Terminal \/ claim.terminal # "-" \/ claim.live

AcquiredAsFirst(previous) == "run"   \* Mutant: a takeover runs like a first claim.

AcquiredAs(previous) == IF previous = None THEN "run" ELSE "recover"

ClaimExecution(w) ==
  /\ worker[w].pc = "claim"
  /\ \/ /\ ClaimRefused
        /\ Answered(w, FALSE)
        /\ UNCHANGED claim
     \/ /\ ~ClaimRefused
        /\ claim' = [owner |-> w, live |-> TRUE, terminal |-> "-"]
        /\ Goto(w, AcquiredAs(claim.owner))
        /\ UNCHANGED <<task, publisher, ambiguous>>
  /\ UNCHANGED <<row, case, modelCalls, budget>>

\* _recover_analysis_abstention, _recover_analysis_failure and the states
\* _process_analysis can start or go on from; only the holder of a first claim
\* calls the model.
NextStep(pc, state) ==
  CASE state = "CANDIDATES" -> "ask"
    [] state = "CLARIFICATION" -> "complete"
    [] state = "ABSTAINED" /\ pc # "reread" -> "complete"
    [] state = "REVIEW" /\ pc # "reread" -> "acknowledge"
    [] state = "ANALYZING" /\ pc = "run" -> "model"
    [] state = "ANALYZING" /\ pc = "recover" -> "terminalize"
    [] OTHER -> "error"

ReadCase(w) ==
  /\ worker[w].pc \in {"run", "recover", "reread"}
  /\ LET next == NextStep(worker[w].pc, case)
     IN IF next = "error"
        THEN Answered(w, FALSE)
        ELSE /\ worker' = [worker EXCEPT ![w] = [pc |-> next, seen |-> case]]
             /\ UNCHANGED <<task, publisher, ambiguous>>
  /\ UNCHANGED <<row, claim, case, modelCalls, budget>>

\* The analyst answers with a proposal, abstains, or fails.
CallModel(w) ==
  /\ worker[w].pc = "model"
  /\ modelCalls' = modelCalls + 1
  /\ \E pc \in {"propose", "abstain", "terminalize"} : Goto(w, pc)
  /\ UNCHANGED <<row, claim, case, task, publisher, ambiguous, budget>>

\* The state each commit leads to, and how the worker goes on after it.
Target(pc) == CASE pc = "propose" -> "CANDIDATES" [] pc = "ask" -> "CLARIFICATION"
                [] pc = "abstain" -> "ABSTAINED"  [] pc = "terminalize" -> "REVIEW"
AfterWithoutQuestion(pc) ==   \* Mutant: the row is completed before the question is asked.
  CASE pc \in {"propose", "ask", "abstain"} -> "complete" [] pc = "terminalize" -> "fail"

After(pc) == CASE pc \in {"propose", "ask"} -> "reread"
               [] pc = "abstain" -> "complete"    [] pc = "terminalize" -> "fail"

\* apply_mutation under an execution claim: the claim is checked before the
\* version of the case.
OwnsAnyClaim(w) == claim.terminal = "-"   \* Mutant: the owner is not compared.

OwnsClaim(w) == claim.owner = w /\ claim.terminal = "-"

CommitAnalysis(w) ==
  LET a == worker[w]
  IN /\ a.pc \in {"propose", "ask", "abstain", "terminalize"}
     /\ \/ /\ OwnsClaim(w)
           /\ case = a.seen
           /\ case' = Target(a.pc)
           /\ Goto(w, After(a.pc))
           /\ UNCHANGED <<task, publisher, ambiguous>>
        \/ /\ ~(OwnsClaim(w) /\ case = a.seen)
           /\ Answered(w, FALSE)
           /\ UNCHANGED case
     /\ UNCHANGED <<row, claim, modelCalls, budget>>

\* mark_outbox_execution.  A worker that has just committed a failure still
\* raises it, so that its attempt counts as failed.
MarkExecution(w) ==
  LET pc == worker[w].pc
      status == IF pc = "complete" THEN "COMPLETE" ELSE "FAILED"
      accepted == OwnsClaim(w) /\ row.status \notin Terminal
  IN /\ pc \in {"complete", "acknowledge", "fail"}
     /\ \/ /\ accepted
           /\ row' = [status |-> status, stage |-> IF status = "FAILED" THEN "EXECUTE" ELSE "-"]
           /\ claim' = [claim EXCEPT !.terminal = status]
        \/ /\ ~accepted
           /\ UNCHANGED <<row, claim>>
     /\ Answered(w, accepted /\ pc # "fail")
     /\ UNCHANGED <<case, modelCalls, budget>>

\* submit_claim_evidence, or staff, take the case further.
CaseMoves ==
  /\ case = "CLARIFICATION"
  /\ case' = "BEYOND"
  /\ UNCHANGED <<row, claim, task, publisher, worker, modelCalls, ambiguous, budget>>

-----------------------------------------------------------------------------
PublisherStep(p) == \/ ResetRow(p) \/ CreateTask(p) \/ CreateTaskReplyLost(p)
                    \/ CreateTaskFails(p) \/ MarkPublication(p)
WorkerStep(w) == \/ ReadRow(w) \/ MarkDispatched(w) \/ ClaimExecution(w) \/ ReadCase(w)
                 \/ CallModel(w) \/ CommitAnalysis(w) \/ MarkExecution(w)

Next ==
  \/ \E p \in Publisher : PublisherStep(p) \/ StartReconcile(p) \/ PublisherStops(p)
  \/ \E w \in Worker : WorkerStep(w) \/ Dispatch(w) \/ DispatchAgain(w) \/ WorkerStops(w)
  \/ LeaseExpires
  \/ CaseMoves

Spec == Init /\ [][Next]_vars

\* A process that has started goes on, the queue dispatches what it holds, a
\* lease runs out, and an operator runs the reconciler as long as it has work.
FairSpec ==
  /\ Spec
  /\ \A p \in Publisher : WF_vars(PublisherStep(p)) /\ WF_vars(StartReconcile(p))
  /\ \A w \in Worker : WF_vars(WorkerStep(w)) /\ WF_vars(Dispatch(w))
  /\ WF_vars(LeaseExpires)

-----------------------------------------------------------------------------
(* Properties *)

TypeOK ==
  /\ row \in [status : {"PENDING", "DISPATCHED", "COMPLETE", "FAILED"},
              stage : {"-", "PUBLISH", "EXECUTE"}]
  /\ row.status = "FAILED" <=> row.stage # "-"
  /\ claim \in [owner : Worker \cup {None}, live : BOOLEAN, terminal : {"-"} \cup Terminal]
  /\ case \in AnalysisState
  /\ task \in [state : {"absent", "queued", "gone"}, attempts : 0..MaxAttempts]
  /\ publisher \in [Publisher -> PublisherPoint]
  /\ worker \in [Worker -> [pc : WorkerPoint, seen : AnalysisState]]
  /\ modelCalls \in Nat

\* One command makes at most one model call, whatever is redelivered, runs
\* beyond its lease, or is taken over by another delivery.
AtMostOneModelCall == modelCalls <= 1

\* The end of a row is the end its case records: it is complete only after a
\* question was asked or the analyst abstained, and failed in execution only
\* after the case went to manual review, also when the worker that committed
\* the outcome is not the one that wrote the row.
RowMatchesCase ==
  /\ row.status = "COMPLETE" => case \in {"CLARIFICATION", "ABSTAINED", "BEYOND"}
  /\ row.stage = "EXECUTE" => case = "REVIEW"

\* The claim and the row end together, so that no delivery can be started on a
\* row whose execution is over, and no claim outlives its row.
ClaimEndsWithRow == claim.terminal # "-" <=> Finished

\* While a delivery that took over an expired claim recovers or records its failure,
\* the analysis can only end in manual review: what the superseded worker gets from
\* the model by then, however late, does not reach the case.
RecoveryNeverProposes ==
  [][case = "ANALYZING" /\ case' # case =>
       \/ case' = "REVIEW"
       \/ \A w \in Worker : worker[w].pc \notin {"terminalize", "recover"}]_vars

\* A committed command runs to its end as long as no creation of its task fails
\* and no more processes stop than there are attempts left; or the claimant was
\* faster than the worker that still had to close the row.
CommandSettles == <>(Finished \/ case = "BEYOND")

\* What outbox.py says of a creation whose reply was lost: it is safe to retry,
\* that is, the command still runs.
AmbiguousEnqueueSafe == ambiguous ~> case # "ANALYZING"
=============================================================================
