------------------------ MODULE OutboxDeliveryProofs ------------------------
(***************************************************************************)
(* Theorems about OutboxDelivery, for any number of deliveries, operators, *)
(* attempts, duplicates and crashes: one model call, one end for row,      *)
(* claim and case, and no result of a worker that was taken over.          *)
(***************************************************************************)
EXTENDS OutboxDelivery, TLAPS

-----------------------------------------------------------------------------
(* The inductive invariant *)

Unclaimed == {"idle", "read", "dispatched", "claim"}
First == {"run", "model", "propose", "abstain"}
Closed == {"CLARIFICATION", "ABSTAINED", "BEYOND"}

\* The state a delivery commits on is the one its outcome starts from, so that the
\* case only moves forward.
SeenFits ==
  \A w \in Worker :
    /\ worker[w].pc \in {"model", "propose", "abstain", "terminalize"} =>
         worker[w].seen = "ANALYZING"
    /\ worker[w].pc = "ask" => worker[w].seen = "CANDIDATES"

\* A delivery that is about to end the row does so as the case says.
EndFits ==
  \A w \in Worker :
    /\ worker[w].pc = "complete" => case \in Closed
    /\ worker[w].pc \in {"acknowledge", "fail"} => case = "REVIEW"

\* One delivery is the first to hold the claim; until it has called the model, nobody has.
OneFirst ==
  /\ \A w, v \in Worker : worker[w].pc \in First /\ worker[v].pc \in First => w = v
  /\ \A w \in Worker : worker[w].pc \in {"run", "model"} => modelCalls = 0
  /\ claim.owner = None =>
       modelCalls = 0 /\ \A w \in Worker : worker[w].pc \in Unclaimed

\* While the first holder still owns the claim, no other delivery has taken over.
NotTakenOver ==
  \A w, v \in Worker :
    worker[w].pc \in First /\ claim.owner = w /\ v # w =>
      worker[v].pc \notin {"recover", "terminalize"}

IInv ==
  /\ TypeOK /\ AtMostOneModelCall /\ RowMatchesCase /\ ClaimEndsWithRow
  /\ SeenFits /\ EndFits /\ OneFirst /\ NotTakenOver

-----------------------------------------------------------------------------
(* What the steps write is of its type *)

RowType == [status : {"PENDING", "DISPATCHED", "COMPLETE", "FAILED"},
            stage : {"-", "PUBLISH", "EXECUTE"}]
RowOK == row \in RowType /\ (row.status = "FAILED" <=> row.stage # "-")
ClaimType == [owner : Worker \cup {None}, live : BOOLEAN, terminal : {"-"} \cup Terminal]
TaskType == [state : {"absent", "queued", "gone"}, attempts : 0..MaxAttempts]
WorkerType == [Worker -> [pc : WorkerPoint, seen : AnalysisState]]

LEMMA TypeParts ==
  ASSUME TypeOK
  PROVE  /\ RowOK
         /\ claim \in ClaimType
         /\ case \in AnalysisState
         /\ task \in TaskType
         /\ publisher \in [Publisher -> PublisherPoint]
         /\ worker \in WorkerType
         /\ modelCalls \in Nat
  BY DEF TypeOK, RowOK, RowType, ClaimType, TaskType, WorkerType

LEMMA TypesNext ==
  ASSUME RowOK', claim' \in ClaimType, case' \in AnalysisState, task' \in TaskType,
         publisher' \in [Publisher -> PublisherPoint], worker' \in WorkerType,
         modelCalls' \in Nat
  PROVE  TypeOK'
  BY DEF TypeOK, RowOK, RowType, ClaimType, TaskType, WorkerType

\* A mark that does not end the row leaves an ended row as it is.
Unfinished ==
  {[status |-> "PENDING", stage |-> "-"], [status |-> "DISPATCHED", stage |-> "-"],
   [status |-> "FAILED", stage |-> "PUBLISH"]}
RowKept == row' = row \/ (~Finished /\ row' \in Unfinished)

LEMMA MarkKeeps ==
  ASSUME NEW status, NEW stage, [status |-> status, stage |-> stage] \in Unfinished,
         row' = Marked(status, stage)
  PROVE  RowKept
  BY DEF Marked, RowKept

LEMMA RowKeptTyped ==
  ASSUME RowOK, RowKept PROVE RowOK'
<1>1. CASE row' = row
  BY <1>1 DEF RowOK
<1>2. CASE row' \in Unfinished
  BY <1>2 DEF RowOK, RowType, Unfinished
<1> QED
  BY <1>1, <1>2 DEF RowKept

\* A delivery goes to another point; the others stay.
LEMMA GotoTyped ==
  ASSUME worker \in WorkerType, NEW w \in Worker, NEW pc \in WorkerPoint, Goto(w, pc)
  PROVE  /\ worker' \in WorkerType
         /\ worker'[w].pc = pc
         /\ worker'[w].seen = worker[w].seen
         /\ \A v \in Worker \ {w} : worker'[v] = worker[v]
<1>1. worker[w].seen \in AnalysisState
  BY DEF WorkerType
<1> QED
  BY <1>1 DEF Goto, WorkerType

\* A delivery is answered.
LEMMA AnsweredTyped ==
  ASSUME worker \in WorkerType, task \in TaskType, NEW w \in Worker, NEW ok, Answered(w, ok)
  PROVE  /\ worker' \in WorkerType
         /\ task' \in TaskType
         /\ worker'[w].pc = "idle"
         /\ \A v \in Worker \ {w} : worker'[v] = worker[v]
         /\ UNCHANGED publisher
<1>1. Idle \in [pc : WorkerPoint, seen : AnalysisState] /\ Idle.pc = "idle"
  BY DEF Idle, WorkerPoint, AnalysisState
<1>2. task' \in TaskType
  BY DEF Answered, TaskType
<1> QED
  BY <1>1, <1>2 DEF Answered, WorkerType

-----------------------------------------------------------------------------
(* Steps of a publisher *)

LEMMA PublisherKeeps ==
  ASSUME TypeOK, NEW p \in Publisher,
         PublisherStep(p) \/ StartReconcile(p) \/ PublisherStops(p)
  PROVE  /\ UNCHANGED <<claim, case, worker, modelCalls>>
         /\ RowKept
         /\ TypeOK'
<1> USE TypeParts, TypesNext, RowKeptTyped
<1>1. CASE ResetRow(p)
  <2>1. RowKept
    BY <1>1, MarkKeeps DEF ResetRow, Unfinished
  <2> QED
    BY <1>1, <2>1 DEF ResetRow, PublisherPoint
<1>2. CASE CreateTask(p)
  <2>1. task' \in TaskType
    BY <1>2 DEF CreateTask, TaskType
  <2> QED
    BY <1>2, <2>1 DEF CreateTask, PublisherPoint, RowKept
<1>3. CASE CreateTaskReplyLost(p)
  <2>1. task' \in TaskType
    BY <1>3 DEF CreateTaskReplyLost, TaskType
  <2> QED
    BY <1>3, <2>1 DEF CreateTaskReplyLost, PublisherPoint, RowKept
<1>4. CASE CreateTaskFails(p)
  BY <1>4 DEF CreateTaskFails, PublisherPoint, RowKept
<1>5. CASE MarkPublication(p)
  <2>1. RowKept
    BY <1>5, MarkKeeps DEF MarkPublication, Unfinished
  <2> QED
    BY <1>5, <2>1 DEF MarkPublication, PublisherPoint
<1>6. CASE StartReconcile(p)
  BY <1>6 DEF StartReconcile, PublisherPoint, RowKept
<1>7. CASE PublisherStops(p)
  BY <1>7 DEF PublisherStops, PublisherPoint, RowKept
<1> QED
  BY <1>1, <1>2, <1>3, <1>4, <1>5, <1>6, <1>7 DEF PublisherStep

-----------------------------------------------------------------------------
(* What a step keeps *)

\* A row that was not ended keeps the ends of row, claim and case together.
LEMMA RowKeptKeepsEnds ==
  ASSUME TypeOK, RowMatchesCase, ClaimEndsWithRow, RowKept, UNCHANGED case,
         claim'.terminal = claim.terminal
  PROVE  RowMatchesCase' /\ ClaimEndsWithRow'
<1>1. CASE row' = row
  BY <1>1 DEF RowMatchesCase, ClaimEndsWithRow, Finished
<1>2. CASE ~Finished /\ row' \in Unfinished
  <2>1. row'.status # "COMPLETE" /\ row'.stage # "EXECUTE"
    BY <1>2 DEF Unfinished
  <2>2. ~Finished'
    BY <2>1 DEF Finished
  <2> QED
    BY <1>2, <2>1, <2>2 DEF RowMatchesCase, ClaimEndsWithRow
<1> QED
  BY <1>1, <1>2 DEF RowKept

\* A step that leaves deliveries, claim and case alone.
LEMMA OthersInductive ==
  ASSUME IInv, TypeOK', RowKept, UNCHANGED <<case, worker, modelCalls>>,
         claim'.owner = claim.owner, claim'.terminal = claim.terminal
  PROVE  IInv'
<1>1. RowMatchesCase' /\ ClaimEndsWithRow'
  BY RowKeptKeepsEnds DEF IInv
<1>2. AtMostOneModelCall' /\ SeenFits' /\ EndFits' /\ OneFirst' /\ NotTakenOver'
  BY DEF IInv, AtMostOneModelCall, SeenFits, EndFits, OneFirst, NotTakenOver
<1> QED
  BY <1>1, <1>2 DEF IInv

\* A step of a delivery that neither claims nor commits, and whose next point is
\* one where nothing is asked of it or where what is asked holds.
LEMMA DeliveryMoves ==
  ASSUME IInv, TypeOK', RowKept, UNCHANGED <<claim, case, modelCalls>>, NEW w \in Worker,
         \A v \in Worker \ {w} : worker'[v] = worker[v],
         worker'[w].pc \in First => worker[w].pc \in First,
         worker'[w].pc = "terminalize" => worker[w].pc \in {"recover", "terminalize"},
         worker'[w].pc \in {"run", "model"} => worker[w].pc \in {"run", "model"},
         worker'[w].pc # "recover",
         worker'[w].pc \notin Unclaimed => worker[w].pc \notin Unclaimed,
         worker'[w].pc \in {"model", "propose", "abstain", "terminalize"} =>
           worker'[w].seen = "ANALYZING",
         worker'[w].pc = "ask" => worker'[w].seen = "CANDIDATES",
         worker'[w].pc = "complete" => case \in Closed,
         worker'[w].pc \in {"acknowledge", "fail"} => case = "REVIEW"
  PROVE  IInv'
<1>1. RowMatchesCase' /\ ClaimEndsWithRow'
  BY RowKeptKeepsEnds DEF IInv
<1>2. AtMostOneModelCall'
  BY DEF IInv, AtMostOneModelCall
<1>3. SeenFits'
  BY DEF IInv, SeenFits
<1>4. EndFits'
  BY DEF IInv, EndFits
<1>5. OneFirst'
  BY DEF IInv, OneFirst
<1>6. NotTakenOver'
  BY DEF IInv, NotTakenOver
<1> QED
  BY <1>1, <1>2, <1>3, <1>4, <1>5, <1>6 DEF IInv

\* An answered delivery is idle, which asks nothing of it.
LEMMA AnsweredInductive ==
  ASSUME IInv, TypeOK', RowKept, UNCHANGED <<claim, case, modelCalls>>, NEW w \in Worker,
         worker'[w].pc = "idle", \A v \in Worker \ {w} : worker'[v] = worker[v]
  PROVE  IInv'
  BY DeliveryMoves DEF First, Unclaimed

-----------------------------------------------------------------------------
(* Steps of a delivery *)

LEMMA DispatchInductive ==
  ASSUME IInv, NEW w \in Worker, Dispatch(w) \/ DispatchAgain(w)
  PROVE  IInv'
<1>0. TypeOK
  BY DEF IInv
<1> USE TypeParts, <1>0
<1>1. worker[w].pc = "idle" /\ Goto(w, "read")
  BY DEF Dispatch, DispatchAgain
<1>2. /\ worker' \in WorkerType
      /\ worker'[w].pc = "read"
      /\ \A v \in Worker \ {w} : worker'[v] = worker[v]
  BY <1>1, GotoTyped DEF WorkerPoint
<1>3. task' \in TaskType
  BY BoundsAssumption DEF Dispatch, DispatchAgain, TaskType
<1>4. UNCHANGED <<row, claim, case, publisher, modelCalls>>
  BY DEF Dispatch, DispatchAgain
<1>5. TypeOK' /\ RowKept
  BY <1>2, <1>3, <1>4, TypesNext DEF RowOK, RowKept
<1> QED
  BY <1>1, <1>2, <1>4, <1>5, DeliveryMoves DEF First, Unclaimed

LEMMA ReadRowInductive ==
  ASSUME IInv, NEW w \in Worker, ReadRow(w)
  PROVE  IInv'
<1>0. TypeOK
  BY DEF IInv
<1> USE TypeParts, <1>0
<1>1. UNCHANGED <<row, claim, case, modelCalls>> /\ worker[w].pc = "read"
  BY DEF ReadRow
<1>2. CASE \E ok \in BOOLEAN : Answered(w, ok)
  <2>1. PICK ok \in BOOLEAN : Answered(w, ok)
    BY <1>2
  <2>2. /\ worker' \in WorkerType /\ task' \in TaskType /\ UNCHANGED publisher
        /\ worker'[w].pc = "idle"
        /\ \A v \in Worker \ {w} : worker'[v] = worker[v]
    BY <2>1, AnsweredTyped
  <2>3. TypeOK' /\ RowKept
    BY <1>1, <2>2, TypesNext DEF RowOK, RowKept
  <2> QED
    BY <1>1, <2>2, <2>3, AnsweredInductive
<1>3. CASE \E pc \in {"dispatched", "claim"} : Goto(w, pc) /\ UNCHANGED <<task, publisher>>
  <2>1. PICK pc \in {"dispatched", "claim"} : Goto(w, pc) /\ UNCHANGED <<task, publisher>>
    BY <1>3
  <2>2. /\ worker' \in WorkerType
        /\ worker'[w].pc = pc
        /\ \A v \in Worker \ {w} : worker'[v] = worker[v]
    BY <2>1, GotoTyped DEF WorkerPoint
  <2>3. TypeOK' /\ RowKept
    BY <1>1, <2>1, <2>2, TypesNext DEF RowOK, RowKept
  <2> QED
    BY <1>1, <2>2, <2>3, DeliveryMoves DEF First, Unclaimed
<1> QED
  BY <1>2, <1>3 DEF ReadRow

LEMMA MarkDispatchedInductive ==
  ASSUME IInv, NEW w \in Worker, MarkDispatched(w)
  PROVE  IInv'
<1>0. TypeOK
  BY DEF IInv
<1> USE TypeParts, <1>0
<1>1. /\ worker[w].pc = "dispatched" /\ Goto(w, "claim")
      /\ UNCHANGED <<claim, case, task, publisher, modelCalls>>
  BY DEF MarkDispatched
<1>2. RowKept
  BY MarkKeeps DEF MarkDispatched, Unfinished
<1>3. /\ worker' \in WorkerType
      /\ worker'[w].pc = "claim"
      /\ \A v \in Worker \ {w} : worker'[v] = worker[v]
  BY <1>1, GotoTyped DEF WorkerPoint
<1>4. TypeOK'
  BY <1>1, <1>2, <1>3, TypesNext, RowKeptTyped
<1> QED
  BY <1>1, <1>2, <1>3, <1>4, DeliveryMoves DEF First, Unclaimed

\* The claim changes hands.  A first claim finds every other delivery before its
\* own; a takeover makes the delivery one that recovers.
LEMMA ClaimInductive ==
  ASSUME IInv, NEW w \in Worker, ClaimExecution(w)
  PROVE  IInv'
<1>0. TypeOK
  BY DEF IInv
<1> USE TypeParts, <1>0
<1>1. UNCHANGED <<row, case, modelCalls>> /\ worker[w].pc = "claim"
  BY DEF ClaimExecution
<1>2. CASE Answered(w, FALSE) /\ UNCHANGED claim
  <2>1. /\ worker' \in WorkerType /\ task' \in TaskType /\ UNCHANGED publisher
        /\ worker'[w].pc = "idle"
        /\ \A v \in Worker \ {w} : worker'[v] = worker[v]
    BY <1>2, AnsweredTyped
  <2>2. TypeOK' /\ RowKept
    BY <1>1, <1>2, <2>1, TypesNext DEF RowOK, RowKept
  <2> QED
    BY <1>1, <1>2, <2>1, <2>2, AnsweredInductive
<1>3. CASE /\ ~ClaimRefused
           /\ claim' = [owner |-> w, live |-> TRUE, terminal |-> "-"]
           /\ Goto(w, AcquiredAs(claim.owner))
           /\ UNCHANGED <<task, publisher>>
  <2>1. /\ claim' \in ClaimType /\ claim'.owner = w /\ w # None
        /\ claim.terminal = "-" /\ claim'.terminal = "-"
    BY <1>3, NoneAssumption DEF ClaimType, ClaimRefused
  <2>2. AcquiredAs(claim.owner) \in {"run", "recover"}
    BY DEF AcquiredAs
  <2>3. /\ worker' \in WorkerType
        /\ worker'[w].pc = AcquiredAs(claim.owner)
        /\ \A v \in Worker \ {w} : worker'[v] = worker[v]
    BY <1>3, <2>2, GotoTyped DEF WorkerPoint
  <2>4. TypeOK' /\ RowKept
    BY <1>1, <1>3, <2>1, <2>3, TypesNext DEF RowOK, RowKept
  <2>5. RowMatchesCase' /\ ClaimEndsWithRow'
    BY <1>1, <2>1, <2>4, RowKeptKeepsEnds DEF IInv
  <2>6. AtMostOneModelCall' /\ SeenFits' /\ EndFits'
    BY <1>1, <2>2, <2>3 DEF IInv, AtMostOneModelCall, SeenFits, EndFits
  <2>7. CASE claim.owner = None
    <3>1. worker'[w].pc = "run" /\ \A v \in Worker \ {w} : worker'[v].pc \in Unclaimed
      BY <2>3, <2>7 DEF AcquiredAs, IInv, OneFirst
    <3>2. OneFirst'
      BY <1>1, <2>1, <2>7, <3>1 DEF IInv, OneFirst, First, Unclaimed
    <3>3. NotTakenOver'
      BY <2>1, <3>1 DEF NotTakenOver, Unclaimed
    <3> QED
      BY <2>4, <2>5, <2>6, <3>2, <3>3 DEF IInv
  <2>8. CASE claim.owner # None
    <3>1. worker'[w].pc = "recover"
      BY <2>3, <2>8 DEF AcquiredAs
    <3>2. OneFirst'
      BY <1>1, <2>1, <2>3, <3>1 DEF IInv, OneFirst, First
    <3>3. NotTakenOver'
      BY <2>1, <3>1 DEF NotTakenOver, First
    <3> QED
      BY <2>4, <2>5, <2>6, <3>2, <3>3 DEF IInv
  <2> QED
    BY <2>7, <2>8
<1> QED
  BY <1>2, <1>3 DEF ClaimExecution

LEMMA ReadCaseInductive ==
  ASSUME IInv, NEW w \in Worker, ReadCase(w)
  PROVE  IInv'
<1>0. TypeOK
  BY DEF IInv
<1> USE TypeParts, <1>0
<1> DEFINE next == NextStep(worker[w].pc, case)
<1>1. UNCHANGED <<row, claim, case, modelCalls>> /\ worker[w].pc \in {"run", "recover", "reread"}
  BY DEF ReadCase
<1>2. CASE Answered(w, FALSE)
  <2>1. /\ worker' \in WorkerType /\ task' \in TaskType /\ UNCHANGED publisher
        /\ worker'[w].pc = "idle"
        /\ \A v \in Worker \ {w} : worker'[v] = worker[v]
    BY <1>2, AnsweredTyped
  <2>2. TypeOK' /\ RowKept
    BY <1>1, <2>1, TypesNext DEF RowOK, RowKept
  <2> QED
    BY <1>1, <2>1, <2>2, AnsweredInductive
<1>3. CASE /\ next # "error"
           /\ worker' = [worker EXCEPT ![w] = [pc |-> next, seen |-> case]]
           /\ UNCHANGED <<task, publisher>>
  <2>1. /\ next \in {"ask", "complete", "acknowledge", "model", "terminalize"}
        /\ next = "ask" => case = "CANDIDATES"
        /\ next = "complete" => case \in Closed
        /\ next = "acknowledge" => case = "REVIEW"
        /\ next = "model" => case = "ANALYZING" /\ worker[w].pc = "run"
        /\ next = "terminalize" => case = "ANALYZING" /\ worker[w].pc = "recover"
    BY <1>3 DEF NextStep, Closed
  <2> HIDE DEF next
  <2>2. [pc |-> next, seen |-> case] \in [pc : WorkerPoint, seen : AnalysisState]
    BY <2>1 DEF WorkerPoint
  <2>3. /\ worker' \in WorkerType
        /\ worker'[w].pc = next
        /\ worker'[w].seen = case
        /\ \A v \in Worker \ {w} : worker'[v] = worker[v]
    BY <1>3, <2>2 DEF WorkerType
  <2>4. TypeOK' /\ RowKept
    BY <1>1, <1>3, <2>3, TypesNext DEF RowOK, RowKept
  <2> QED
    BY <1>1, <2>1, <2>3, <2>4, DeliveryMoves DEF First, Unclaimed
<1> QED
  BY <1>2, <1>3 DEF ReadCase

\* The one model call: only the first holder of the claim comes here, and no call
\* was made before.
LEMMA CallModelInductive ==
  ASSUME IInv, NEW w \in Worker, CallModel(w)
  PROVE  IInv'
<1>0. TypeOK
  BY DEF IInv
<1> USE TypeParts, <1>0
<1>1. /\ worker[w].pc = "model" /\ worker[w].seen = "ANALYZING"
      /\ modelCalls = 0 /\ modelCalls' = 1
      /\ UNCHANGED <<row, claim, case, task, publisher>>
  BY DEF CallModel, IInv, OneFirst, SeenFits
<1>2. PICK pc \in {"propose", "abstain", "terminalize"} : Goto(w, pc)
  BY DEF CallModel
<1>3. /\ worker' \in WorkerType
      /\ worker'[w].pc = pc
      /\ worker'[w].seen = worker[w].seen
      /\ \A v \in Worker \ {w} : worker'[v] = worker[v]
  BY <1>2, GotoTyped DEF WorkerPoint
<1>4. TypeOK' /\ RowKept
  BY <1>1, <1>3, TypesNext DEF RowOK, RowKept
<1>5. RowMatchesCase' /\ ClaimEndsWithRow'
  BY <1>1, <1>4, RowKeptKeepsEnds DEF IInv
<1>6. AtMostOneModelCall' /\ SeenFits' /\ EndFits'
  BY <1>1, <1>3 DEF IInv, AtMostOneModelCall, SeenFits, EndFits
<1>7. claim.owner # None /\ \A v \in Worker \ {w} : worker[v].pc \notin First
  BY <1>1 DEF IInv, OneFirst, Unclaimed, First
<1>8. OneFirst'
  BY <1>1, <1>3, <1>7 DEF IInv, OneFirst, First
<1>9. NotTakenOver'
  BY <1>1, <1>3, <1>7 DEF IInv, NotTakenOver, First
<1> QED
  BY <1>4, <1>5, <1>6, <1>8, <1>9 DEF IInv

\* An accepted commit: the case goes from the state the delivery saw to that of
\* its outcome, and no row or delivery ends before that.
LEMMA CommitTarget ==
  ASSUME IInv, NEW w \in Worker,
         worker[w].pc \in {"propose", "ask", "abstain", "terminalize"}, case = worker[w].seen
  PROVE  /\ case \notin Closed \cup {"REVIEW"}
         /\ worker[w].pc = "ask" => case = "CANDIDATES"
         /\ worker[w].pc # "ask" => case = "ANALYZING"
         /\ Target(worker[w].pc) \in AnalysisState
         /\ After(worker[w].pc) \in {"reread", "complete", "fail"}
         /\ After(worker[w].pc) = "complete" => Target(worker[w].pc) \in Closed
         /\ After(worker[w].pc) = "fail" => Target(worker[w].pc) = "REVIEW"
<1>1. /\ worker[w].pc = "ask" => case = "CANDIDATES"
      /\ worker[w].pc # "ask" => case = "ANALYZING"
  BY DEF IInv, SeenFits
<1> QED
  BY <1>1 DEF Target, After, Closed, AnalysisState

LEMMA CommitInductive ==
  ASSUME IInv, NEW w \in Worker, CommitAnalysis(w)
  PROVE  IInv'
<1>0. TypeOK
  BY DEF IInv
<1> USE TypeParts, <1>0
<1>1. /\ UNCHANGED <<row, claim, modelCalls>>
      /\ worker[w].pc \in {"propose", "ask", "abstain", "terminalize"}
  BY DEF CommitAnalysis
<1>2. CASE Answered(w, FALSE) /\ UNCHANGED case
  <2>1. /\ worker' \in WorkerType /\ task' \in TaskType /\ UNCHANGED publisher
        /\ worker'[w].pc = "idle"
        /\ \A v \in Worker \ {w} : worker'[v] = worker[v]
    BY <1>2, AnsweredTyped
  <2>2. TypeOK' /\ RowKept
    BY <1>1, <1>2, <2>1, TypesNext DEF RowOK, RowKept
  <2> QED
    BY <1>1, <1>2, <2>1, <2>2, AnsweredInductive
<1>3. CASE /\ OwnsClaim(w)
           /\ case = worker[w].seen
           /\ case' = Target(worker[w].pc)
           /\ Goto(w, After(worker[w].pc))
           /\ UNCHANGED <<task, publisher>>
  <2> DEFINE target == Target(worker[w].pc)
             after == After(worker[w].pc)
  <2>1. /\ case \notin Closed \cup {"REVIEW"}
        /\ target \in AnalysisState
        /\ after \in {"reread", "complete", "fail"}
        /\ after = "complete" => target \in Closed
        /\ after = "fail" => target = "REVIEW"
    BY <1>1, <1>3, CommitTarget
  <2>2. case' = target /\ Goto(w, after)
    BY <1>3
  <2> HIDE DEF target, after
  <2>3. /\ worker' \in WorkerType
        /\ worker'[w].pc = after
        /\ \A v \in Worker \ {w} : worker'[v] = worker[v]
    BY <2>1, <2>2, GotoTyped DEF WorkerPoint
  <2>4. TypeOK'
    BY <1>1, <1>3, <2>1, <2>2, <2>3, TypesNext DEF RowOK
  <2>5. row.status # "COMPLETE" /\ row.stage # "EXECUTE"
    BY <2>1 DEF IInv, RowMatchesCase, Closed
  <2>6. AtMostOneModelCall' /\ RowMatchesCase' /\ ClaimEndsWithRow'
    BY <1>1, <2>5 DEF IInv, AtMostOneModelCall, RowMatchesCase, ClaimEndsWithRow, Finished
  <2>7. SeenFits'
    BY <2>1, <2>3 DEF IInv, SeenFits
  <2>8. \A v \in Worker \ {w} : worker[v].pc \notin {"complete", "acknowledge", "fail"}
    BY <2>1 DEF IInv, EndFits
  <2>9. EndFits'
    BY <2>1, <2>2, <2>3, <2>8 DEF EndFits
  <2>10. OneFirst'
    <3>1. after \notin First \cup Unclaimed
      BY <2>1 DEF First, Unclaimed
    <3>2. claim.owner # None
      BY <1>1 DEF IInv, OneFirst, Unclaimed
    <3> QED
      BY <1>1, <2>3, <3>1, <3>2 DEF IInv, OneFirst, First
  <2>11. NotTakenOver'
    BY <1>1, <2>1, <2>3 DEF IInv, NotTakenOver, First
  <2> QED
    BY <2>4, <2>6, <2>7, <2>9, <2>10, <2>11 DEF IInv
<1> QED
  BY <1>2, <1>3 DEF CommitAnalysis

\* The end of the row is also the end of its claim, and as the case says.
LEMMA MarkExecutionInductive ==
  ASSUME IInv, NEW w \in Worker, MarkExecution(w)
  PROVE  IInv'
<1>0. TypeOK
  BY DEF IInv
<1> USE TypeParts, <1>0
<1> DEFINE pc == worker[w].pc
           status == IF pc = "complete" THEN "COMPLETE" ELSE "FAILED"
           accepted == OwnsClaim(w) /\ row.status \notin Terminal
<1>1. /\ pc \in {"complete", "acknowledge", "fail"}
      /\ UNCHANGED <<case, modelCalls>>
      /\ Answered(w, accepted /\ pc # "fail")
  BY DEF MarkExecution
<1>2. /\ worker' \in WorkerType /\ task' \in TaskType /\ UNCHANGED publisher
      /\ worker'[w].pc = "idle"
      /\ \A v \in Worker \ {w} : worker'[v] = worker[v]
  BY <1>1, AnsweredTyped
<1>3. CASE UNCHANGED <<row, claim>>
  <2>1. TypeOK' /\ RowKept
    BY <1>1, <1>2, <1>3, TypesNext DEF RowOK, RowKept
  <2> QED
    BY <1>1, <1>2, <1>3, <2>1, AnsweredInductive
<1>4. CASE /\ row' = [status |-> status, stage |-> IF status = "FAILED" THEN "EXECUTE" ELSE "-"]
           /\ claim' = [claim EXCEPT !.terminal = status]
  <2>1. status \in Terminal /\ (status = "COMPLETE" <=> pc = "complete")
    BY DEF Terminal
  <2>2. RowOK'
    BY <1>4, <2>1 DEF RowOK, RowType, Terminal
  <2>3. /\ claim' \in ClaimType
        /\ claim'.owner = claim.owner
        /\ claim'.terminal \in Terminal
    BY <1>4, <2>1 DEF ClaimType
  <2>4. TypeOK'
    BY <1>1, <1>2, <2>2, <2>3, TypesNext
  <2>5. RowMatchesCase'
    BY <1>1, <1>4 DEF IInv, EndFits, RowMatchesCase, Closed
  <2>6. ClaimEndsWithRow'
    BY <1>4, <2>3 DEF ClaimEndsWithRow, Finished, Terminal
  <2>7. AtMostOneModelCall' /\ SeenFits' /\ EndFits'
    BY <1>1, <1>2 DEF IInv, AtMostOneModelCall, SeenFits, EndFits
  <2>8. OneFirst'
    BY <1>1, <1>2, <2>3 DEF IInv, OneFirst, First, Unclaimed
  <2>9. NotTakenOver'
    BY <1>2, <2>3 DEF IInv, NotTakenOver, First
  <2> QED
    BY <2>4, <2>5, <2>6, <2>7, <2>8, <2>9 DEF IInv
<1> QED
  BY <1>3, <1>4 DEF MarkExecution

LEMMA StopInductive ==
  ASSUME IInv, NEW w \in Worker, WorkerStops(w)
  PROVE  IInv'
<1>0. TypeOK
  BY DEF IInv
<1> USE TypeParts, <1>0
<1>1. Answered(w, FALSE) /\ UNCHANGED <<row, claim, case, modelCalls>>
  BY DEF WorkerStops
<1>2. /\ worker' \in WorkerType /\ task' \in TaskType /\ UNCHANGED publisher
      /\ worker'[w].pc = "idle"
      /\ \A v \in Worker \ {w} : worker'[v] = worker[v]
  BY <1>1, AnsweredTyped
<1>3. TypeOK' /\ RowKept
  BY <1>1, <1>2, TypesNext DEF RowOK, RowKept
<1> QED
  BY <1>1, <1>2, <1>3, AnsweredInductive

-----------------------------------------------------------------------------
(* The other steps *)

LEMMA LeaseInductive == ASSUME IInv, LeaseExpires PROVE IInv'
<1>0. TypeOK
  BY DEF IInv
<1> USE TypeParts, <1>0
<1>1. /\ claim' \in ClaimType
      /\ claim'.owner = claim.owner
      /\ claim'.terminal = claim.terminal
  BY DEF LeaseExpires, ClaimType
<1>2. UNCHANGED <<row, case, task, publisher, worker, modelCalls>>
  BY DEF LeaseExpires
<1>3. TypeOK' /\ RowKept
  BY <1>1, <1>2, TypesNext DEF RowOK, RowKept
<1> QED
  BY <1>1, <1>2, <1>3, OthersInductive

\* What comes after the question leaves a complete row complete.
LEMMA CaseMovesInductive == ASSUME IInv, CaseMoves PROVE IInv'
<1>0. TypeOK
  BY DEF IInv
<1> USE TypeParts, <1>0
<1>1. /\ case = "CLARIFICATION" /\ case' = "BEYOND"
      /\ UNCHANGED <<row, claim, task, publisher, worker, modelCalls>>
  BY DEF CaseMoves
<1>2. TypeOK'
  BY <1>1, TypesNext DEF RowOK, AnalysisState
<1>3. AtMostOneModelCall' /\ RowMatchesCase' /\ ClaimEndsWithRow'
  BY <1>1 DEF IInv, AtMostOneModelCall, RowMatchesCase, ClaimEndsWithRow, Finished
<1>4. SeenFits' /\ EndFits' /\ OneFirst' /\ NotTakenOver'
  BY <1>1 DEF IInv, SeenFits, EndFits, OneFirst, NotTakenOver, Closed
<1> QED
  BY <1>2, <1>3, <1>4 DEF IInv

LEMMA InitInductive == Init => IInv
<1> SUFFICES ASSUME Init PROVE IInv
  OBVIOUS
<1>1. TypeOK
  BY BoundsAssumption
     DEF Init, TypeOK, Idle, Terminal, AnalysisState, PublisherPoint, WorkerPoint
<1>2. AtMostOneModelCall /\ RowMatchesCase /\ ClaimEndsWithRow
  BY DEF Init, AtMostOneModelCall, RowMatchesCase, ClaimEndsWithRow, Finished
<1>3. SeenFits /\ EndFits /\ OneFirst /\ NotTakenOver
  BY DEF Init, Idle, SeenFits, EndFits, OneFirst, NotTakenOver, First, Unclaimed
<1> QED
  BY <1>1, <1>2, <1>3 DEF IInv

LEMMA NextInductive == IInv /\ [Next]_vars => IInv'
<1> SUFFICES ASSUME IInv, [Next]_vars PROVE IInv'
  OBVIOUS
<1>0. TypeOK
  BY DEF IInv
<1>1. ASSUME NEW p \in Publisher, PublisherStep(p) \/ StartReconcile(p) \/ PublisherStops(p)
      PROVE  IInv'
  BY <1>0, <1>1, PublisherKeeps, OthersInductive
<1>2. ASSUME NEW w \in Worker, WorkerStep(w)
      PROVE  IInv'
  BY <1>2, ReadRowInductive, MarkDispatchedInductive, ClaimInductive, ReadCaseInductive,
     CallModelInductive, CommitInductive, MarkExecutionInductive DEF WorkerStep
<1>3. ASSUME NEW w \in Worker, Dispatch(w) \/ DispatchAgain(w) \/ WorkerStops(w)
      PROVE  IInv'
  BY <1>3, DispatchInductive, StopInductive
<1>4. CASE LeaseExpires
  BY <1>4, LeaseInductive
<1>5. CASE CaseMoves
  BY <1>5, CaseMovesInductive
<1>6. CASE UNCHANGED vars
  <2>1. UNCHANGED <<row, claim, case, worker, modelCalls, task, publisher>>
    BY <1>6 DEF vars
  <2>2. TypeOK' /\ RowKept
    BY <1>0, <2>1, TypeParts, TypesNext DEF RowOK, RowKept
  <2> QED
    BY <2>1, <2>2, OthersInductive
<1> QED
  BY <1>1, <1>2, <1>3, <1>4, <1>5, <1>6 DEF Next

-----------------------------------------------------------------------------
(* The theorems *)

LEMMA Inductive == Spec => []IInv
  BY InitInductive, NextInductive, PTL DEF Spec

\* Row, claim, case, task and all processes keep their types.
THEOREM TypeCorrect == Spec => []TypeOK
<1>1. IInv => TypeOK
  BY DEF IInv
<1> QED
  BY <1>1, Inductive, PTL

\* However often a command is delivered, taken over or abandoned, the analyst is
\* called once at most.
THEOREM OneModelCall == Spec => []AtMostOneModelCall
<1>1. IInv => AtMostOneModelCall
  BY DEF IInv
<1> QED
  BY <1>1, Inductive, PTL

\* A row that ended has ended as its case did.
THEOREM RowTruth == Spec => []RowMatchesCase
<1>1. IInv => RowMatchesCase
  BY DEF IInv
<1> QED
  BY <1>1, Inductive, PTL

\* Row and execution claim end in the same step and stay ended.
THEOREM ClaimAndRowEnd == Spec => []ClaimEndsWithRow
<1>1. IInv => ClaimEndsWithRow
  BY DEF IInv
<1> QED
  BY <1>1, Inductive, PTL

\* A step that ends the analysis otherwise than in manual review is one of the first
\* holder of the claim, which it still owns: nobody has taken over.
LEMMA ProposalStep ==
  ASSUME IInv, [Next]_vars, case = "ANALYZING", case' # case, case' # "REVIEW"
  PROVE  \A v \in Worker : worker[v].pc \notin {"terminalize", "recover"}
<1>0. TypeOK
  BY DEF IInv
<1>1. ASSUME NEW p \in Publisher, PublisherStep(p) \/ StartReconcile(p) \/ PublisherStops(p)
      PROVE  FALSE
  BY <1>0, <1>1, PublisherKeeps
<1>2. \E w \in Worker : CommitAnalysis(w)
  BY <1>1 DEF Next, WorkerStep, ReadRow, MarkDispatched, ClaimExecution, ReadCase, CallModel,
              MarkExecution, Dispatch, DispatchAgain, WorkerStops, LeaseExpires, CaseMoves, vars
<1>3. PICK w \in Worker : CommitAnalysis(w)
  BY <1>2
<1>4. /\ worker[w].pc \in {"propose", "ask", "abstain", "terminalize"}
      /\ claim.owner = w
      /\ case = worker[w].seen
      /\ case' = Target(worker[w].pc)
  BY <1>3 DEF CommitAnalysis, OwnsClaim
<1>5. worker[w].pc \in {"propose", "abstain"}
  BY <1>4, CommitTarget DEF Target
<1> QED
  BY <1>4, <1>5 DEF IInv, NotTakenOver, First

\* What a superseded delivery gets from the model does not reach the case as long as
\* the delivery that took over is at work.
THEOREM LateResultsStayOut == Spec => RecoveryNeverProposes
<1>1. IInv /\ [Next]_vars =>
        [case = "ANALYZING" /\ case' # case =>
           \/ case' = "REVIEW"
           \/ \A w \in Worker : worker[w].pc \notin {"terminalize", "recover"}]_vars
  BY ProposalStep
<1> QED
  BY <1>1, Inductive, PTL DEF Spec, RecoveryNeverProposes
=============================================================================
