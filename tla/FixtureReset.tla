----------------------------- MODULE FixtureReset -----------------------------
(***************************************************************************)
(* The reset of the demo case (replace_synthetic_fixture) and what is still *)
(* under way when it happens: requests of its analysis, the publication of  *)
(* its command and deliveries of its task.                                  *)
(*                                                                          *)
(* A reset replaces the case by one of a new workflow epoch and deletes what *)
(* was stored of the one before, but neither the evidence nor the tasks at  *)
(* Cloud Tasks, whose names stay taken.  Versions start again at 1, so that *)
(* a version a handler read before may stand for another epoch when it      *)
(* commits; EvidenceIntake and OutboxDelivery hold the steps of one epoch   *)
(* in more detail.                                                          *)
(***************************************************************************)
EXTENDS CustodyGraph, Naturals, FiniteSets

CONSTANTS Handler,   \* requests of staff
          Worker,    \* deliveries of tasks
          None,
          MaxEpoch   \* bound: workflow epochs of the demo case

ASSUME MaxEpochAssumption == MaxEpoch \in Nat \ {0}

VARIABLES case,      \* epoch, state, version, and the epoch whose evidence its
                     \* candidates rest on
          rows,      \* status of each outbox row
          claims,    \* who holds the execution claim of each row
          created,   \* names of the tasks that were ever created
          owed,      \* tasks whose delivery was not acknowledged yet
          evidence,  \* epochs for which an authorized pair is stored
          handler, worker

stored == <<case, rows, claims>>
outside == <<created, owed, evidence>>
vars == <<case, rows, claims, created, owed, evidence, handler, worker>>

Epoch == 1..MaxEpoch
FixtureState ==
  {"RECEIVED", "EVIDENCE_READY", "ANALYZING", "CANDIDATES_READY",
   "CLARIFICATION_REQUIRED", "MANUAL_REVIEW"}
FixtureRecord ==
  [epoch : Epoch, state : FixtureState, version : Nat \ {0}, packet : Epoch \cup {None}]

\* A request and a delivery under way, with the case as read and the row served.
Request ==
  [pc : {"refs", "packet", "reread", "queue"}, seen : FixtureRecord, id : {None}]
    \cup [pc : {"publish", "mark"}, seen : FixtureRecord, id : Epoch]
Delivery ==
  [pc : {"mark", "claim", "run", "recover", "reread", "model", "propose", "review",
         "ask", "finish", "refused"},
   seen : FixtureRecord, id : Epoch]

Idle == [pc |-> "idle"]

\* Mutant: the base of version 0 is published.
FixtureCaseBase(epoch) ==
  [epoch |-> epoch, state |-> "RECEIVED", version |-> 0, packet |-> None]

\* fixture_case, as replace_synthetic_fixture stores it.
FixtureCase(epoch) ==
  [epoch |-> epoch, state |-> "RECEIVED", version |-> 1, packet |-> None]

ASSUME NoneAssumption ==
  None \notin Worker \cup Epoch /\ None \notin {"PENDING", "DISPATCHED", "DONE"}

NoRows == [id \in Epoch |-> None]

Init ==
  /\ case = FixtureCase(1)
  /\ rows = NoRows
  /\ claims = NoRows
  /\ created = {} /\ owed = {} /\ evidence = {}
  /\ handler = [h \in Handler |-> Idle]
  /\ worker = [w \in Worker |-> Idle]

\* Of what concerns the case only the evidence and the tasks remain.
ResetDemo ==
  /\ case.epoch < MaxEpoch
  /\ case' = FixtureCase(case.epoch + 1)
  /\ rows' = NoRows
  /\ claims' = NoRows
  /\ UNCHANGED <<outside, handler, worker>>

\* Staff upload a pair for the epoch they see, and authorize its preview.
Upload ==
  /\ evidence' = evidence \cup {case.epoch}
  /\ UNCHANGED <<stored, created, owed, handler, worker>>

\* apply_mutation compares the version and the graph, not the epoch.
Moves(seen, target, packet) ==
  /\ case.version = seen.version
  /\ TransitionAllowed(case.state, target, FALSE)
  /\ case' = [epoch |-> case.epoch, state |-> target, version |-> case.version + 1,
              packet |-> packet]

\* make_outbox: the id of the row, and the name of its task, is a digest of
\* epoch, kind and version; here kind and version are always the same.
RowId(seen) == seen.epoch

-----------------------------------------------------------------------------
(* begin_analysis of an unarmed case *)

HandlerAt(h, pc, seen, id) == handler' = [handler EXCEPT ![h] =
  [pc |-> pc, seen |-> seen, id |-> id]]

HandlerEnds(h) == handler' = [handler EXCEPT ![h] = Idle]

\* How a request goes on from the case it read: a case that is analysing has its
\* command published if it is not.
GoesOn(h) ==
  \/ case.state = "EVIDENCE_READY" /\ HandlerAt(h, "queue", case, None)
  \/ /\ case.state = "ANALYZING"
     /\ \E id \in Epoch : rows[id] = "PENDING" /\ HandlerAt(h, "publish", case, id)

RequestAnalysis(h) ==
  /\ handler[h] = Idle
  /\ \/ case.state = "RECEIVED" /\ HandlerAt(h, "refs", case, None)
     \/ GoesOn(h)
  /\ UNCHANGED <<stored, outside, worker>>

\* _analysis_evidence_refs reads the case again.
ReadRefs(h) ==
  /\ handler[h].pc = "refs"
  /\ case.epoch \in evidence
  /\ HandlerAt(h, "packet", handler[h].seen, None)
  /\ UNCHANGED <<stored, outside, worker>>

PacketReady(h) ==
  /\ handler[h].pc = "packet"
  /\ Moves(handler[h].seen, "EVIDENCE_READY", None)
  /\ HandlerAt(h, "reread", case', None)
  /\ UNCHANGED <<rows, claims, outside, worker>>

Reread(h) ==
  /\ handler[h].pc = "reread"
  /\ GoesOn(h)
  /\ UNCHANGED <<stored, outside, worker>>

QueueAnalysis(h) ==
  LET seen == handler[h].seen
      id == RowId(seen)
  IN /\ handler[h].pc = "queue"
     /\ Moves(seen, "ANALYZING", None)
     /\ rows[id] = None
     /\ rows' = [rows EXCEPT ![id] = "PENDING"]
     /\ HandlerAt(h, "publish", case', id)
     /\ UNCHANGED <<claims, outside, worker>>

\* A name that is taken counts as queued.
CreateTask(h) ==
  LET id == handler[h].id
  IN /\ handler[h].pc = "publish"
     /\ created' = created \cup {id}
     /\ owed' = owed \cup ({id} \ created)
     /\ HandlerAt(h, "mark", handler[h].seen, id)
     /\ UNCHANGED <<stored, evidence, worker>>

\* Mutant: a row that is done is marked as dispatched again.
DispatchedAgain(id) ==
  /\ rows[id] # None
  /\ rows' = [rows EXCEPT ![id] = "DISPATCHED"]

\* mark_outbox: a row that is gone stays gone, one that is done stays done.
Dispatched(id) ==
  /\ rows[id] # None
  /\ rows' = [rows EXCEPT ![id] = IF @ = "PENDING" THEN "DISPATCHED" ELSE @]

MarkPublished(h) ==
  /\ handler[h].pc = "mark"
  /\ Dispatched(handler[h].id)
  /\ HandlerEnds(h)
  /\ UNCHANGED <<case, claims, outside, worker>>

\* A step is refused, or the process ends.
HandlerStops(h) ==
  /\ handler[h] # Idle
  /\ HandlerEnds(h)
  /\ UNCHANGED <<stored, outside, worker>>

-----------------------------------------------------------------------------
(* process_outbox *)

WorkerAt(w, pc, seen) == worker' = [worker EXCEPT ![w] =
  [pc |-> pc, id |-> @.id, seen |-> seen]]

\* Any task that was created may be delivered, late and again; the row must be
\* there and not done.
Deliver(w, id) ==
  /\ worker[w] = Idle
  /\ id \in created
  /\ rows[id] \in {"PENDING", "DISPATCHED"}
  /\ worker' = [worker EXCEPT ![w] =
       [pc |-> IF rows[id] = "PENDING" THEN "mark" ELSE "claim", id |-> id, seen |-> case]]
  /\ UNCHANGED <<stored, outside, handler>>

MarkDelivered(w) ==
  /\ worker[w].pc = "mark"
  /\ Dispatched(worker[w].id)
  /\ WorkerAt(w, "claim", worker[w].seen)
  /\ UNCHANGED <<case, claims, outside, handler>>

\* claim_outbox_execution: the lease of another worker's claim may be over.
ClaimExecution(w) ==
  LET id == worker[w].id
  IN /\ worker[w].pc = "claim"
     /\ rows[id] \in {"PENDING", "DISPATCHED"}
     /\ claims' = [claims EXCEPT ![id] = w]
     /\ WorkerAt(w, IF claims[id] = None THEN "run" ELSE "recover", worker[w].seen)
     /\ UNCHANGED <<case, rows, outside, handler>>

\* What _process_analysis does from the case it reads; a claim that was taken
\* over calls no model.
NextStep(pc) ==
  CASE case.state = "ANALYZING" /\ pc = "run" -> "model"
    [] case.state = "ANALYZING" /\ pc = "recover" -> "review"
    [] case.state = "CANDIDATES_READY" -> "ask"
    [] case.state = "CLARIFICATION_REQUIRED" -> "finish"
    [] case.state = "MANUAL_REVIEW" /\ pc # "reread" -> "finish"
    [] OTHER -> "refused"

ReadCase(w) ==
  /\ worker[w].pc \in {"run", "recover", "reread"}
  /\ WorkerAt(w, NextStep(worker[w].pc), case)
  /\ UNCHANGED <<stored, outside, handler>>

\* The analyst is shown the authorized evidence of the epoch of the case it was
\* given, if there is any: a proposal, or no result.
CallAnalyst(w) ==
  /\ worker[w].pc = "model"
  /\ \E pc \in {"propose", "review"} : WorkerAt(w, pc, worker[w].seen)
  /\ UNCHANGED <<stored, outside, handler>>

\* Mutant: the claim is not compared.
OwnsAnyClaim(w) == TRUE

OwnsClaim(w) == claims[worker[w].id] = w /\ rows[worker[w].id] # "DONE"

CommitAnalysis(w) ==
  LET seen == worker[w].seen
  IN /\ worker[w].pc \in {"propose", "ask", "review"}
     /\ OwnsClaim(w)
     /\ \/ /\ worker[w].pc = "propose"
           /\ Moves(seen, "CANDIDATES_READY", seen.epoch)
           /\ WorkerAt(w, "reread", seen)
        \/ /\ worker[w].pc = "ask"
           /\ Moves(seen, "CLARIFICATION_REQUIRED", case.packet)
           /\ WorkerAt(w, "reread", seen)
        \/ /\ worker[w].pc = "review"
           /\ Moves(seen, "MANUAL_REVIEW", None)
           /\ WorkerAt(w, "finish", seen)
     /\ UNCHANGED <<rows, claims, outside, handler>>

\* mark_outbox_execution
MarkExecution(w) ==
  /\ worker[w].pc = "finish"
  /\ OwnsClaim(w)
  /\ rows' = [rows EXCEPT ![worker[w].id] = "DONE"]
  /\ worker' = [worker EXCEPT ![w] = Idle]
  /\ UNCHANGED <<case, claims, outside, handler>>

WorkerStops(w) ==
  /\ worker[w] # Idle
  /\ worker' = [worker EXCEPT ![w] = Idle]
  /\ UNCHANGED <<stored, outside, handler>>

\* Cloud Tasks repeats a delivery until it is answered without an error: that is
\* done where the row is.
Acknowledge(id) ==
  /\ id \in owed /\ rows[id] = "DONE"
  /\ owed' = owed \ {id}
  /\ UNCHANGED <<stored, created, evidence, handler, worker>>

-----------------------------------------------------------------------------
Next ==
  \/ ResetDemo \/ Upload
  \/ \E id \in Epoch : Acknowledge(id)
  \/ \E h \in Handler :
       \/ RequestAnalysis(h) \/ ReadRefs(h) \/ PacketReady(h) \/ Reread(h)
       \/ QueueAnalysis(h) \/ CreateTask(h) \/ MarkPublished(h) \/ HandlerStops(h)
  \/ \E w \in Worker :
       \/ \E id \in Epoch : Deliver(w, id)
       \/ MarkDelivered(w) \/ ClaimExecution(w) \/ ReadCase(w) \/ CallAnalyst(w)
       \/ CommitAnalysis(w) \/ MarkExecution(w) \/ WorkerStops(w)

Spec == Init /\ [][Next]_vars

-----------------------------------------------------------------------------
(* Properties *)

\* Every record is of its type.
TypeOK ==
  /\ case \in FixtureRecord
  /\ rows \in [Epoch -> {None, "PENDING", "DISPATCHED", "DONE"}]
  /\ claims \in [Epoch -> Worker \cup {None}]
  /\ created \subseteq Epoch /\ owed \subseteq created /\ evidence \subseteq Epoch
  /\ handler \in [Handler -> Request \cup {Idle}]
  /\ worker \in [Worker -> Delivery \cup {Idle}]

\* The candidates of the case rest on evidence of its own epoch: what a worker
\* of an earlier run still gets from the analyst never reaches the new case,
\* although version and state may be those it read.
PacketOfThisEpoch ==
  /\ case.state \in {"CANDIDATES_READY", "CLARIFICATION_REQUIRED"} => case.packet # None
  /\ case.packet # None => case.packet = case.epoch

Analysed == {"ANALYZING", "CANDIDATES_READY", "CLARIFICATION_REQUIRED", "MANUAL_REVIEW"}

\* However many resets and requests cross, the case has one command exactly when it
\* asked for its analysis, and every claim is of a row.  The command may be one that
\* a request of an earlier epoch brought back, and then it may be dispatched without
\* a task; a command made from a case of the present epoch never is.
OneCommandPerCase ==
  /\ Cardinality({id \in Epoch : rows[id] # None}) = IF case.state \in Analysed THEN 1 ELSE 0
  /\ \A id \in Epoch : claims[id] # None => rows[id] # None
  /\ \A id \in Epoch : rows[id] = "DISPATCHED" => id \in owed \/ id < case.epoch

\* What the service promises of a reset (service/README.md): the names of earlier
\* tasks strand no command, a command that is dispatched still has its task.
NextRunNotStranded == \A id \in Epoch : rows[id] = "DISPATCHED" => id \in owed
=============================================================================
