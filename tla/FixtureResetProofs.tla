-------------------------- MODULE FixtureResetProofs --------------------------
(***************************************************************************)
(* Theorems about FixtureReset, for any handlers, workers and number of    *)
(* resets: no result of an earlier run reaches the present case, which has *)
(* one command exactly when it asked for its analysis.                     *)
(***************************************************************************)
EXTENDS FixtureReset, FiniteSetTheorems, TLAPS

\* A delivery that has read the case since it claimed the row, and still holds
\* the claim, has read a case of the present epoch: a reset would have deleted
\* the claim.
Working == {"reread", "model", "propose", "review", "ask", "finish", "refused"}
ClaimSeesEpoch ==
  \A w \in Worker :
    worker[w].pc \in Working /\ claims[worker[w].id] = w =>
      worker[w].seen.epoch = case.epoch

IInv == TypeOK /\ PacketOfThisEpoch /\ ClaimSeesEpoch

LEMMA NoneApart == None \notin Worker /\ None \notin Epoch
  BY NoneAssumption

LEMMA FirstEpoch == 1 \in Epoch
  BY MaxEpochAssumption DEF Epoch

\* What a fixture case looks like.
LEMMA FixtureCaseTyped ==
  ASSUME NEW e \in Epoch
  PROVE  /\ FixtureCase(e) \in FixtureRecord
         /\ FixtureCase(e).epoch = e
         /\ FixtureCase(e).state = "RECEIVED"
         /\ FixtureCase(e).packet = None
  BY DEF FixtureCase, FixtureRecord, FixtureState

\* A transaction keeps the epoch of the case and takes state and candidates as given.
LEMMA MovesTyped ==
  ASSUME case \in FixtureRecord, NEW seen, NEW target \in FixtureState,
         NEW packet \in Epoch \cup {None}, Moves(seen, target, packet)
  PROVE  /\ case' \in FixtureRecord
         /\ case'.epoch = case.epoch
         /\ case'.state = target
         /\ case'.packet = packet
  BY DEF Moves, FixtureRecord

LEMMA InitInductive == Init => IInv
<1> SUFFICES ASSUME Init PROVE IInv
  OBVIOUS
<1>1. /\ case \in FixtureRecord
      /\ case.state = "RECEIVED"
      /\ case.packet = None
  BY FirstEpoch, FixtureCaseTyped DEF Init
<1>2. TypeOK
  BY <1>1, FirstEpoch DEF Init, TypeOK, NoRows
<1>3. PacketOfThisEpoch
  BY <1>1 DEF PacketOfThisEpoch
<1>4. ClaimSeesEpoch
  BY DEF Init, ClaimSeesEpoch, Working, Idle
<1> QED
  BY <1>2, <1>3, <1>4 DEF IInv

-----------------------------------------------------------------------------
(* What the steps write is of its type *)

HandlerType == [Handler -> Request \cup {Idle}]
WorkerType == [Worker -> Delivery \cup {Idle}]

\* A request that goes on to another read or to its transaction.
LEMMA HandlerReads ==
  ASSUME handler \in HandlerType, NEW h \in Handler, NEW seen \in FixtureRecord,
         NEW pc \in {"refs", "packet", "reread", "queue"}, HandlerAt(h, pc, seen, None)
  PROVE  handler' \in HandlerType
<1>1. [pc |-> pc, seen |-> seen, id |-> None] \in Request
  BY DEF Request
<1> QED
  BY <1>1 DEF HandlerType, HandlerAt

\* A request that goes on to publish a row, or to mark it.
LEMMA HandlerPublishes ==
  ASSUME handler \in HandlerType, NEW h \in Handler, NEW seen \in FixtureRecord,
         NEW pc \in {"publish", "mark"}, NEW id \in Epoch, HandlerAt(h, pc, seen, id)
  PROVE  handler' \in HandlerType
<1>1. [pc |-> pc, seen |-> seen, id |-> id] \in Request
  BY DEF Request
<1> QED
  BY <1>1 DEF HandlerType, HandlerAt

LEMMA HandlerEndsTyped ==
  ASSUME handler \in HandlerType, NEW h \in Handler, HandlerEnds(h)
  PROVE  handler' \in HandlerType
  BY DEF HandlerType, HandlerEnds

\* A request under way holds a case as read; one that publishes serves a row.
LEMMA RequestTyped ==
  ASSUME handler \in HandlerType, NEW h \in Handler, handler[h].pc # "idle"
  PROVE  /\ handler[h].seen \in FixtureRecord
         /\ handler[h].pc \in {"publish", "mark"} => handler[h].id \in Epoch
<1>1. handler[h] \in Request
  BY DEF HandlerType, Idle
<1> QED
  BY <1>1 DEF Request

LEMMA DeliveryTyped ==
  ASSUME worker \in WorkerType, NEW w \in Worker, worker[w].pc # "idle"
  PROVE  worker[w].seen \in FixtureRecord /\ worker[w].id \in Epoch
<1>1. worker[w] \in Delivery
  BY DEF WorkerType, Idle
<1> QED
  BY <1>1 DEF Delivery

Point ==
  {"mark", "claim", "run", "recover", "reread", "model", "propose", "review",
   "ask", "finish", "refused"}

\* A delivery goes on: it keeps its row, and the others are left alone.
LEMMA WorkerGoesOn ==
  ASSUME worker \in WorkerType, NEW w \in Worker, worker[w].pc # "idle",
         NEW pc \in Point, NEW seen \in FixtureRecord, WorkerAt(w, pc, seen)
  PROVE  /\ worker' \in WorkerType
         /\ worker'[w].pc = pc
         /\ worker'[w].id = worker[w].id
         /\ worker'[w].seen = seen
         /\ \A v \in Worker \ {w} : worker'[v] = worker[v]
<1>1. worker[w].id \in Epoch
  BY DeliveryTyped
<1>2. [pc |-> pc, id |-> worker[w].id, seen |-> seen] \in Delivery
  BY <1>1 DEF Delivery, Point
<1> QED
  BY <1>2 DEF WorkerType, WorkerAt

LEMMA NextStepIsPoint ==
  ASSUME NEW pc PROVE NextStep(pc) \in Point
  BY DEF NextStep, Point

RowsType == [Epoch -> {None, "PENDING", "DISPATCHED", "DONE"}]

LEMMA DispatchedTyped ==
  ASSUME rows \in RowsType, NEW id \in Epoch, Dispatched(id)
  PROVE  rows' \in RowsType
  BY DEF RowsType, Dispatched

\* The parts of the type invariant.
LEMMA TypeParts ==
  ASSUME TypeOK
  PROVE  /\ case \in FixtureRecord
         /\ case.epoch \in Epoch
         /\ rows \in RowsType
         /\ handler \in HandlerType
         /\ worker \in WorkerType
  BY DEF TypeOK, FixtureRecord, RowsType, HandlerType, WorkerType

-----------------------------------------------------------------------------
(* Two kinds of step *)

\* A step of a request keeps the invariant if it keeps the claims, the deliveries
\* and the candidates of the case, and the case is of the same epoch.
LEMMA RequestStep ==
  ASSUME IInv, TypeOK', UNCHANGED <<claims, worker>>, case'.epoch = case.epoch,
         \/ case' = case
         \/ case'.packet = None /\ case'.state \in {"EVIDENCE_READY", "ANALYZING"}
  PROVE  IInv'
<1>1. PacketOfThisEpoch'
  BY DEF IInv, PacketOfThisEpoch
<1>2. ClaimSeesEpoch'
  BY DEF IInv, ClaimSeesEpoch
<1> QED
  BY <1>1, <1>2 DEF IInv

\* A step of a delivery keeps it if no other delivery is touched, no claim given
\* to another, and what this one works on is of the present epoch.
LEMMA DeliveryStep ==
  ASSUME IInv, TypeOK', NEW w \in Worker, case'.epoch = case.epoch, PacketOfThisEpoch',
         \A v \in Worker \ {w} :
           worker'[v] = worker[v] /\ (claims'[worker[v].id] = v => claims[worker[v].id] = v),
         worker'[w].pc \in Working /\ claims'[worker'[w].id] = w =>
           worker'[w].seen.epoch = case'.epoch
  PROVE  IInv'
<1>1. ClaimSeesEpoch'
  BY DEF IInv, ClaimSeesEpoch
<1> QED
  BY <1>1 DEF IInv

-----------------------------------------------------------------------------
(* The steps *)

\* A reset takes every claim away, so that no delivery that is still under way
\* holds one.
LEMMA ResetInductive == IInv /\ ResetDemo => IInv'
<1> SUFFICES ASSUME IInv, ResetDemo PROVE IInv'
  OBVIOUS
<1>1. TypeOK
  BY DEF IInv
<1>2. case.epoch + 1 \in Epoch
  BY <1>1, TypeParts, MaxEpochAssumption DEF Epoch, ResetDemo
<1>3. /\ case' \in FixtureRecord
      /\ case'.state = "RECEIVED"
      /\ case'.packet = None
  BY <1>2, FixtureCaseTyped DEF ResetDemo
<1>4. TypeOK'
  BY <1>1, <1>3 DEF TypeOK, ResetDemo, NoRows, outside
<1>5. PacketOfThisEpoch'
  BY <1>3 DEF PacketOfThisEpoch
<1>6. ClaimSeesEpoch'
  <2> SUFFICES ASSUME NEW w \in Worker, worker'[w].pc \in Working
               PROVE  claims'[worker'[w].id] # w
    BY DEF ClaimSeesEpoch
  <2>1. worker'[w].id \in Epoch
    BY <1>1, TypeParts, DeliveryTyped DEF ResetDemo, Working
  <2> QED
    BY <2>1, NoneApart DEF ResetDemo, NoRows
<1> QED
  BY <1>4, <1>5, <1>6 DEF IInv

LEMMA UploadInductive == IInv /\ Upload => IInv'
<1> SUFFICES ASSUME IInv, Upload PROVE IInv'
  OBVIOUS
<1>1. TypeOK'
  BY TypeParts DEF IInv, TypeOK, Upload, stored
<1>2. UNCHANGED <<claims, worker>> /\ case' = case
  BY DEF Upload, stored
<1> QED
  BY <1>1, <1>2, RequestStep

\* What a step of a request writes is of its type.
LEMMA HandlerTyped ==
  ASSUME TypeOK, NEW h \in Handler,
         \/ RequestAnalysis(h) \/ ReadRefs(h) \/ PacketReady(h) \/ Reread(h)
         \/ QueueAnalysis(h) \/ CreateTask(h) \/ MarkPublished(h) \/ HandlerStops(h)
  PROVE  handler' \in HandlerType
<1> USE TypeParts
<1>1. CASE RequestAnalysis(h)
  BY <1>1, HandlerReads, HandlerPublishes DEF RequestAnalysis, GoesOn
<1>2. CASE ReadRefs(h)
  BY <1>2, RequestTyped, HandlerReads DEF ReadRefs
<1>3. CASE PacketReady(h)
  <2>1. case' \in FixtureRecord
    BY <1>3, MovesTyped DEF PacketReady, FixtureState
  <2> QED
    BY <1>3, <2>1, HandlerReads DEF PacketReady
<1>4. CASE Reread(h)
  BY <1>4, HandlerReads, HandlerPublishes DEF Reread, GoesOn
<1>5. CASE QueueAnalysis(h)
  <2>1. case' \in FixtureRecord
    BY <1>5, MovesTyped DEF QueueAnalysis, FixtureState
  <2>2. RowId(handler[h].seen) \in Epoch
    BY <1>5, RequestTyped DEF QueueAnalysis, RowId, FixtureRecord
  <2> QED
    BY <1>5, <2>1, <2>2, HandlerPublishes DEF QueueAnalysis
<1>6. CASE CreateTask(h)
  BY <1>6, RequestTyped, HandlerPublishes DEF CreateTask
<1>7. CASE MarkPublished(h)
  BY <1>7, HandlerEndsTyped DEF MarkPublished
<1>8. CASE HandlerStops(h)
  BY <1>8, HandlerEndsTyped DEF HandlerStops
<1> QED
  BY <1>1, <1>2, <1>3, <1>4, <1>5, <1>6, <1>7, <1>8

\* The rest of the type invariant follows from what a request may change.
LEMMA RequestTypes ==
  ASSUME TypeOK, case' \in FixtureRecord, rows' \in RowsType, handler' \in HandlerType,
         UNCHANGED <<claims, evidence, worker>>,
         created' \subseteq Epoch, owed' \subseteq created'
  PROVE  TypeOK'
  BY DEF TypeOK, RowsType, HandlerType

\* A request commits nothing but the case without candidates and its command.
LEMMA RequestInductive ==
  ASSUME IInv, NEW h \in Handler,
         \/ RequestAnalysis(h) \/ ReadRefs(h) \/ PacketReady(h) \/ Reread(h)
         \/ QueueAnalysis(h) \/ CreateTask(h) \/ MarkPublished(h) \/ HandlerStops(h)
  PROVE  IInv'
<1>1. TypeOK
  BY DEF IInv
<1>2. handler' \in HandlerType
  BY <1>1, HandlerTyped
<1> USE <1>1, <1>2, TypeParts
<1>3. CASE RequestAnalysis(h) \/ ReadRefs(h) \/ Reread(h) \/ HandlerStops(h)
  <2>1. UNCHANGED <<stored, outside, worker>>
    BY <1>3 DEF RequestAnalysis, ReadRefs, Reread, HandlerStops
  <2>2. TypeOK'
    BY <2>1, RequestTypes DEF stored, outside, TypeOK
  <2> QED
    BY <2>1, <2>2, RequestStep DEF stored
<1>4. CASE PacketReady(h)
  <2>1. /\ case' \in FixtureRecord
        /\ case'.epoch = case.epoch
        /\ case'.state = "EVIDENCE_READY"
        /\ case'.packet = None
    BY <1>4, MovesTyped DEF PacketReady, FixtureState
  <2>2. TypeOK'
    BY <1>4, <2>1, RequestTypes DEF PacketReady, outside, TypeOK
  <2>3. UNCHANGED <<claims, worker>>
    BY <1>4 DEF PacketReady
  <2> QED
    BY <2>1, <2>2, <2>3, RequestStep
<1>5. CASE QueueAnalysis(h)
  <2>1. /\ case' \in FixtureRecord
        /\ case'.epoch = case.epoch
        /\ case'.state = "ANALYZING"
        /\ case'.packet = None
    BY <1>5, MovesTyped DEF QueueAnalysis, FixtureState
  <2>2. rows' \in RowsType
    BY <1>5 DEF QueueAnalysis, RowsType
  <2>3. TypeOK'
    BY <1>5, <2>1, <2>2, RequestTypes DEF QueueAnalysis, outside, TypeOK
  <2>4. UNCHANGED <<claims, worker>>
    BY <1>5 DEF QueueAnalysis
  <2> QED
    BY <2>1, <2>3, <2>4, RequestStep
<1>6. CASE CreateTask(h)
  <2>1. handler[h].id \in Epoch
    BY <1>6, RequestTyped DEF CreateTask
  <2>2. created' \subseteq Epoch /\ owed' \subseteq created'
    BY <1>6, <2>1 DEF CreateTask, TypeOK
  <2>3. UNCHANGED <<stored, evidence, worker>>
    BY <1>6 DEF CreateTask
  <2>4. TypeOK'
    BY <2>2, <2>3, RequestTypes DEF stored
  <2> QED
    BY <2>3, <2>4, RequestStep DEF stored
<1>7. CASE MarkPublished(h)
  <2>1. rows' \in RowsType
    BY <1>7, RequestTyped, DispatchedTyped DEF MarkPublished
  <2>2. UNCHANGED <<case, claims, outside, worker>>
    BY <1>7 DEF MarkPublished
  <2>3. TypeOK'
    BY <2>1, <2>2, RequestTypes DEF outside, TypeOK
  <2> QED
    BY <2>2, <2>3, RequestStep
<1> QED
  BY <1>3, <1>4, <1>5, <1>6, <1>7

\* The rest of the type invariant follows from what a delivery may change.
LEMMA DeliveryTypes ==
  ASSUME TypeOK, case' \in FixtureRecord, rows' \in RowsType, worker' \in WorkerType,
         UNCHANGED <<outside, handler>>, claims' \in [Epoch -> Worker \cup {None}]
  PROVE  TypeOK'
  BY DEF TypeOK, RowsType, WorkerType, outside

\* A delivery starts, ends, or goes on, without a change of the case.
LEMMA DeliveryWithoutCommit ==
  ASSUME IInv, NEW w \in Worker, TypeOK', case' = case, claims' = claims,
         \A v \in Worker \ {w} : worker'[v] = worker[v],
         \/ worker'[w].pc \notin Working
         \/ worker'[w].seen = case
         \/ /\ worker[w].pc \in Working
            /\ worker'[w].id = worker[w].id
            /\ worker'[w].seen = worker[w].seen
  PROVE  IInv'
<1>1. PacketOfThisEpoch'
  BY DEF IInv, PacketOfThisEpoch
<1>2. worker'[w].pc \in Working /\ claims'[worker'[w].id] = w =>
        worker'[w].seen.epoch = case'.epoch
  BY DEF IInv, ClaimSeesEpoch
<1> QED
  BY <1>1, <1>2, DeliveryStep

\* What an accepted result makes of the case: candidates from evidence of the
\* epoch that the delivery saw, which is the present one, since it holds the claim.
LEMMA ResultOfThisEpoch ==
  ASSUME IInv, NEW w \in Worker, CommitAnalysis(w)
  PROVE  /\ worker[w].seen.epoch = case.epoch
         /\ case' \in FixtureRecord
         /\ case'.epoch = case.epoch
         /\ PacketOfThisEpoch'
<1>1. TypeOK /\ case \in FixtureRecord /\ case.epoch \in Epoch
  BY TypeParts DEF IInv
<1>2. worker[w].seen.epoch = case.epoch
  BY DEF CommitAnalysis, OwnsClaim, IInv, ClaimSeesEpoch, Working
<1>3. CASE worker[w].pc = "propose"
  <2>1. Moves(worker[w].seen, "CANDIDATES_READY", case.epoch)
    BY <1>2, <1>3 DEF CommitAnalysis
  <2>2. /\ case' \in FixtureRecord
        /\ case'.epoch = case.epoch
        /\ case'.packet = case.epoch
    BY <1>1, <2>1, MovesTyped DEF FixtureState
  <2> QED
    BY <1>1, <1>2, <2>2, NoneApart DEF PacketOfThisEpoch
<1>4. CASE worker[w].pc = "ask"
  <2>1. Moves(worker[w].seen, "CLARIFICATION_REQUIRED", case.packet)
    BY <1>4 DEF CommitAnalysis
  <2>2. case.packet \in Epoch \cup {None}
    BY <1>1 DEF FixtureRecord
  <2>3. /\ case' \in FixtureRecord
        /\ case'.epoch = case.epoch
        /\ case'.packet = case.packet
    BY <1>1, <2>1, <2>2, MovesTyped DEF FixtureState
  <2>4. case.state = "CANDIDATES_READY"
    BY <2>1 DEF Moves, TransitionAllowed, AllowedTransitions
  <2> QED
    BY <1>2, <2>3, <2>4 DEF IInv, PacketOfThisEpoch
<1>5. CASE worker[w].pc = "review"
  <2>1. Moves(worker[w].seen, "MANUAL_REVIEW", None)
    BY <1>5 DEF CommitAnalysis
  <2>2. /\ case' \in FixtureRecord
        /\ case'.epoch = case.epoch
        /\ case'.state = "MANUAL_REVIEW"
        /\ case'.packet = None
    BY <1>1, <2>1, MovesTyped DEF FixtureState
  <2> QED
    BY <1>2, <2>2 DEF PacketOfThisEpoch
<1> QED
  BY <1>3, <1>4, <1>5 DEF CommitAnalysis

LEMMA CommitInductive ==
  ASSUME IInv, NEW w \in Worker, CommitAnalysis(w)
  PROVE  IInv'
<1>1. TypeOK
  BY DEF IInv
<1> USE <1>1, TypeParts
<1>2. /\ worker[w].seen.epoch = case.epoch
      /\ case' \in FixtureRecord
      /\ case'.epoch = case.epoch
      /\ PacketOfThisEpoch'
  BY ResultOfThisEpoch
<1>3. worker[w].pc # "idle" /\ worker[w].seen \in FixtureRecord
  BY DeliveryTyped DEF CommitAnalysis
<1>4. PICK pc \in {"reread", "finish"} : WorkerAt(w, pc, worker[w].seen)
  BY DEF CommitAnalysis
<1>5. /\ worker' \in WorkerType
      /\ worker'[w].id = worker[w].id
      /\ worker'[w].seen = worker[w].seen
      /\ \A v \in Worker \ {w} : worker'[v] = worker[v]
  BY <1>3, <1>4, WorkerGoesOn DEF Point
<1>6. UNCHANGED <<rows, claims, outside, handler>>
  BY DEF CommitAnalysis
<1>7. TypeOK'
  BY <1>2, <1>5, <1>6, DeliveryTypes DEF TypeOK
<1> QED
  BY <1>2, <1>5, <1>6, <1>7, DeliveryStep

\* The steps of a delivery.
LEMMA DeliveryInductive ==
  ASSUME IInv, NEW w \in Worker,
         \/ \E id \in Epoch : Deliver(w, id)
         \/ MarkDelivered(w) \/ ClaimExecution(w) \/ ReadCase(w) \/ CallAnalyst(w)
         \/ CommitAnalysis(w) \/ MarkExecution(w) \/ WorkerStops(w)
  PROVE  IInv'
<1>1. TypeOK
  BY DEF IInv
<1>2. claims \in [Epoch -> Worker \cup {None}]
  BY <1>1 DEF TypeOK
<1> USE <1>1, <1>2, TypeParts
<1>3. ASSUME NEW id \in Epoch, Deliver(w, id) PROVE IInv'
  <2>1. PICK pc \in {"mark", "claim"} :
          worker' = [worker EXCEPT ![w] = [pc |-> pc, id |-> id, seen |-> case]]
    BY <1>3 DEF Deliver
  <2>2. [pc |-> pc, id |-> id, seen |-> case] \in Delivery
    BY DEF Delivery
  <2>3. /\ worker' \in WorkerType
        /\ worker'[w].seen = case
        /\ \A v \in Worker \ {w} : worker'[v] = worker[v]
    BY <2>1, <2>2 DEF WorkerType
  <2>4. UNCHANGED <<stored, outside, handler>>
    BY <1>3 DEF Deliver
  <2>5. TypeOK'
    BY <2>3, <2>4, DeliveryTypes DEF stored
  <2> QED
    BY <2>3, <2>4, <2>5, DeliveryWithoutCommit DEF stored
<1>4. CASE MarkDelivered(w)
  <2>1. worker[w].pc # "idle" /\ worker[w].seen \in FixtureRecord /\ worker[w].id \in Epoch
    BY <1>4, DeliveryTyped DEF MarkDelivered
  <2>2. /\ worker' \in WorkerType
        /\ worker'[w].pc = "claim"
        /\ \A v \in Worker \ {w} : worker'[v] = worker[v]
    BY <1>4, <2>1, WorkerGoesOn DEF MarkDelivered, Point
  <2>3. rows' \in RowsType /\ UNCHANGED <<case, claims, outside, handler>>
    BY <1>4, <2>1, DispatchedTyped DEF MarkDelivered
  <2>4. TypeOK'
    BY <2>2, <2>3, DeliveryTypes
  <2> QED
    BY <2>2, <2>3, <2>4, DeliveryWithoutCommit DEF Working
<1>5. CASE ClaimExecution(w)
  <2>1. worker[w].pc # "idle" /\ worker[w].seen \in FixtureRecord /\ worker[w].id \in Epoch
    BY <1>5, DeliveryTyped DEF ClaimExecution
  <2>2. PICK pc \in {"run", "recover"} : WorkerAt(w, pc, worker[w].seen)
    BY <1>5 DEF ClaimExecution
  <2>3. /\ worker' \in WorkerType
        /\ worker'[w].pc = pc
        /\ \A v \in Worker \ {w} : worker'[v] = worker[v]
    BY <2>1, <2>2, WorkerGoesOn DEF Point
  <2>4. /\ claims' = [claims EXCEPT ![worker[w].id] = w]
        /\ UNCHANGED <<case, rows, outside, handler>>
    BY <1>5 DEF ClaimExecution
  <2>5. \A id \in Epoch : claims'[id] \in {claims[id], w}
    BY <2>4
  <2>6. TypeOK'
    BY <2>3, <2>4, DeliveryTypes
  <2>7. PacketOfThisEpoch'
    BY <2>4 DEF IInv, PacketOfThisEpoch
  <2>8. \A v \in Worker \ {w} : claims'[worker[v].id] = v => claims[worker[v].id] = v
    BY <2>4
  <2> QED
    BY <2>3, <2>4, <2>6, <2>7, <2>8, DeliveryStep DEF Working
<1>6. CASE ReadCase(w)
  <2>1. worker[w].pc # "idle"
    BY <1>6 DEF ReadCase
  <2>2. NextStep(worker[w].pc) \in Point
    BY NextStepIsPoint
  <2>3. /\ worker' \in WorkerType
        /\ worker'[w].seen = case
        /\ \A v \in Worker \ {w} : worker'[v] = worker[v]
    BY <1>6, <2>1, <2>2, WorkerGoesOn DEF ReadCase
  <2>4. UNCHANGED <<stored, outside, handler>>
    BY <1>6 DEF ReadCase
  <2>5. TypeOK'
    BY <2>3, <2>4, DeliveryTypes DEF stored
  <2> QED
    BY <2>3, <2>4, <2>5, DeliveryWithoutCommit DEF stored
<1>7. CASE CallAnalyst(w)
  <2>1. /\ worker[w].pc # "idle"
        /\ worker[w].pc \in Working
        /\ worker[w].seen \in FixtureRecord
    BY <1>7, DeliveryTyped DEF CallAnalyst, Working
  <2>2. PICK pc \in {"propose", "review"} : WorkerAt(w, pc, worker[w].seen)
    BY <1>7 DEF CallAnalyst
  <2>3. /\ worker' \in WorkerType
        /\ worker'[w].id = worker[w].id
        /\ worker'[w].seen = worker[w].seen
        /\ \A v \in Worker \ {w} : worker'[v] = worker[v]
    BY <2>1, <2>2, WorkerGoesOn DEF Point
  <2>4. UNCHANGED <<stored, outside, handler>>
    BY <1>7 DEF CallAnalyst
  <2>5. TypeOK'
    BY <2>3, <2>4, DeliveryTypes DEF stored
  <2> QED
    BY <2>1, <2>3, <2>4, <2>5, DeliveryWithoutCommit DEF stored
<1>8. CASE CommitAnalysis(w)
  BY <1>8, CommitInductive
<1>9. CASE MarkExecution(w) \/ WorkerStops(w)
  <2>1. worker' = [worker EXCEPT ![w] = Idle]
    BY <1>9 DEF MarkExecution, WorkerStops
  <2>2. /\ worker' \in WorkerType
        /\ worker'[w].pc \notin Working
        /\ \A v \in Worker \ {w} : worker'[v] = worker[v]
    BY <2>1 DEF WorkerType, Idle, Working
  <2>3. rows' \in RowsType /\ UNCHANGED <<case, claims, outside, handler>>
    BY <1>9 DEF MarkExecution, WorkerStops, RowsType, stored
  <2>4. TypeOK'
    BY <2>2, <2>3, DeliveryTypes
  <2> QED
    BY <2>2, <2>3, <2>4, DeliveryWithoutCommit
<1> QED
  BY <1>3, <1>4, <1>5, <1>6, <1>7, <1>8, <1>9

LEMMA AcknowledgeInductive ==
  ASSUME IInv, NEW id \in Epoch, Acknowledge(id)
  PROVE  IInv'
<1>1. TypeOK'
  BY DEF IInv, TypeOK, Acknowledge, stored
<1>2. UNCHANGED <<claims, worker>> /\ case' = case
  BY DEF Acknowledge, stored
<1>3. QED BY <1>1, <1>2, RequestStep

LEMMA StutterInductive == IInv /\ UNCHANGED vars => IInv'
  BY DEF IInv, TypeOK, PacketOfThisEpoch, ClaimSeesEpoch, vars

LEMMA NextInductive == IInv /\ [Next]_vars => IInv'
<1> SUFFICES ASSUME IInv, [Next]_vars PROVE IInv'
  OBVIOUS
<1>1. CASE ResetDemo
  BY <1>1, ResetInductive
<1>2. CASE Upload
  BY <1>2, UploadInductive
<1>3. ASSUME NEW h \in Handler,
             \/ RequestAnalysis(h) \/ ReadRefs(h) \/ PacketReady(h) \/ Reread(h)
             \/ QueueAnalysis(h) \/ CreateTask(h) \/ MarkPublished(h) \/ HandlerStops(h)
      PROVE  IInv'
  BY <1>3, RequestInductive
<1>4. ASSUME NEW w \in Worker,
             \/ \E id \in Epoch : Deliver(w, id)
             \/ MarkDelivered(w) \/ ClaimExecution(w) \/ ReadCase(w) \/ CallAnalyst(w)
             \/ CommitAnalysis(w) \/ MarkExecution(w) \/ WorkerStops(w)
      PROVE  IInv'
  BY <1>4, DeliveryInductive
<1>5. CASE UNCHANGED vars
  BY <1>5, StutterInductive
<1>6. ASSUME NEW id \in Epoch, Acknowledge(id) PROVE IInv'
  BY <1>6, AcknowledgeInductive
<1> QED
  BY <1>1, <1>2, <1>3, <1>4, <1>5, <1>6 DEF Next

-----------------------------------------------------------------------------
(* The theorems *)

LEMMA Inductive == Spec => []IInv
  BY InitInductive, NextInductive, PTL DEF Spec

\* The case, its rows and claims and all that is under way keep their types
\* through any number of resets.
THEOREM TypeCorrect == Spec => []TypeOK
<1>1. IInv => TypeOK
  BY DEF IInv
<1> QED
  BY <1>1, Inductive, PTL

\* The candidates of the demo case rest on evidence of its own epoch, however
\* late the analyst answers and however often versions repeat.
THEOREM PacketHolds == Spec => []PacketOfThisEpoch
<1>1. IInv => PacketOfThisEpoch
  BY DEF IInv
<1> QED
  BY <1>1, Inductive, PTL

-----------------------------------------------------------------------------
(* One command per case *)

\* Within one epoch the state of the case determines its version.
VersionOf(state) ==
  CASE state = "RECEIVED" -> 1
    [] state = "EVIDENCE_READY" -> 2
    [] state = "ANALYZING" -> 3
    [] state \in {"CANDIDATES_READY", "MANUAL_REVIEW"} -> 4
    [] OTHER -> 5

VersionFits == case.version = VersionOf(case.state)

\* Nothing under way is of an epoch that is still to come, and what is marked or
\* delivered was created.
RequestFits(request) ==
  request.pc # "idle" =>
    /\ request.seen.epoch <= case.epoch
    /\ request.pc = "queue" => request.seen.version = 2
    /\ request.pc \in {"publish", "mark"} => request.id <= case.epoch
    /\ request.pc = "mark" => request.id \in created

DeliveryFits(delivery) == delivery.pc # "idle" => delivery.id \in created

AllFit ==
  /\ \A h \in Handler : RequestFits(handler[h])
  /\ \A w \in Worker : DeliveryFits(worker[w])

\* The name of the present epoch is taken by a task that will still be delivered, or
\* whose work is done.
NamesFit ==
  /\ \A id \in created : id <= case.epoch
  /\ case.epoch \in created => case.epoch \in owed \/ rows[case.epoch] = "DONE"

\* What is done stays done within an epoch.
DoneStays == \A id \in Epoch : rows[id] = "DONE" => rows'[id] = "DONE"

\* A case has one command from the request of its analysis on.
OneCommand ==
  IF case.state \in Analysed
  THEN \E id \in Epoch : \A other \in Epoch : rows[other] # None <=> other = id
  ELSE \A id \in Epoch : rows[id] = None

RowsFit ==
  \A id \in Epoch :
    /\ claims[id] # None => rows[id] # None
    /\ rows[id] # None => id <= case.epoch
    /\ rows[id] = "DISPATCHED" => id \in created

AfreshInv == IInv /\ VersionFits /\ AllFit /\ NamesFit /\ OneCommand /\ RowsFit

\* What keeps everything under way in order: no epoch is taken back and no task
\* is forgotten.
LEMMA FitsKept ==
  ASSUME TypeOK, case'.epoch \in Nat, case.epoch <= case'.epoch, created \subseteq created'
  PROVE  /\ \A h \in Handler : RequestFits(handler[h]) /\ handler'[h] = handler[h] =>
                                 RequestFits(handler[h])'
         /\ \A w \in Worker : DeliveryFits(worker[w]) /\ worker'[w] = worker[w] =>
                                DeliveryFits(worker[w])'
<1>1. case.epoch \in Nat /\ handler \in HandlerType
  BY TypeParts DEF Epoch
<1>2. ASSUME NEW h \in Handler, RequestFits(handler[h]), handler'[h] = handler[h]
      PROVE  RequestFits(handler[h])'
  <2>1. CASE handler[h].pc = "idle"
    BY <1>2, <2>1 DEF RequestFits
  <2>2. CASE handler[h].pc # "idle"
    <3>1. /\ handler[h].seen.epoch \in Nat
          /\ handler[h].pc \in {"publish", "mark"} => handler[h].id \in Nat
      BY <1>1, <2>2, RequestTyped DEF FixtureRecord, Epoch
    <3>2. QED BY <1>1, <1>2, <3>1 DEF RequestFits
  <2>3. QED BY <2>1, <2>2
<1>3. ASSUME NEW w \in Worker, DeliveryFits(worker[w]), worker'[w] = worker[w]
      PROVE  DeliveryFits(worker[w])'
  BY <1>3 DEF DeliveryFits
<1>4. QED BY <1>2, <1>3

\* One request takes a step, or one delivery, or none.
LEMMA AllFitKept ==
  ASSUME TypeOK, AllFit, case'.epoch \in Nat, case.epoch <= case'.epoch,
         created \subseteq created',
         \/ handler' = handler
         \/ \E h \in Handler : /\ \A g \in Handler \ {h} : handler'[g] = handler[g]
                               /\ RequestFits(handler[h])',
         \/ worker' = worker
         \/ \E w \in Worker : /\ \A v \in Worker \ {w} : worker'[v] = worker[v]
                              /\ DeliveryFits(worker[w])'
  PROVE  AllFit'
<1>1. \A h \in Handler : handler'[h] = handler[h] => RequestFits(handler[h])'
  BY FitsKept DEF AllFit
<1>2. \A w \in Worker : worker'[w] = worker[w] => DeliveryFits(worker[w])'
  BY FitsKept DEF AllFit
<1>3. \A h \in Handler : RequestFits(handler[h])'
  BY <1>1
<1>4. \A w \in Worker : DeliveryFits(worker[w])'
  BY <1>2
<1>5. QED BY <1>3, <1>4 DEF AllFit

LEMMA AfreshParts ==
  ASSUME AfreshInv
  PROVE  /\ TypeOK /\ case.epoch \in Nat /\ case.epoch <= case.epoch
         /\ VersionFits /\ AllFit /\ NamesFit /\ OneCommand /\ RowsFit
BY TypeParts DEF AfreshInv, IInv, Epoch

LEMMA NamesKept ==
  ASSUME AfreshInv, case'.epoch = case.epoch, UNCHANGED <<created, owed>>, DoneStays
  PROVE  NamesFit'
<1>1. case.epoch \in Epoch
  BY AfreshParts, TypeParts
<1>2. QED BY <1>1, AfreshParts DEF NamesFit, DoneStays

\* A step that keeps the case and the names: what is left is the rows.
LEMMA QuietKeeps ==
  ASSUME AfreshInv, UNCHANGED <<case, created, owed>>, DoneStays
  PROVE  VersionFits' /\ NamesFit'
BY NamesKept, AfreshParts DEF VersionFits

LEMMA RowsUntouched ==
  ASSUME AfreshInv, UNCHANGED <<case, rows, claims>>, created \subseteq created'
  PROVE  OneCommand' /\ RowsFit'
BY AfreshParts DEF OneCommand, RowsFit

LEMMA AfreshInit == Init => AfreshInv
<1> SUFFICES ASSUME Init PROVE AfreshInv
  OBVIOUS
<1>1. IInv
  BY InitInductive
<1>2. case.epoch = 1 /\ case.state = "RECEIVED" /\ case.version = 1 /\ created = {}
  BY DEF Init, FixtureCase
<1>3. /\ \A id \in Epoch : rows[id] = None /\ claims[id] = None
      /\ \A h \in Handler : handler[h].pc = "idle"
      /\ \A w \in Worker : worker[w].pc = "idle"
  BY DEF Init, NoRows, Idle
<1>5. QED
  BY <1>1, <1>2, <1>3, NoneAssumption DEF AfreshInv, VersionFits, VersionOf, AllFit, RequestFits, DeliveryFits,
     NamesFit, OneCommand, Analysed, RowsFit

\* No task of the epoch to come was created.
LEMMA ResetAfresh ==
  ASSUME AfreshInv, ResetDemo
  PROVE  VersionFits' /\ AllFit' /\ NamesFit' /\ OneCommand' /\ RowsFit'
<1>1. case.epoch + 1 \in Epoch /\ case.epoch \in Nat
  BY AfreshParts, TypeParts, MaxEpochAssumption DEF Epoch, ResetDemo
<1>2. case'.epoch = case.epoch + 1 /\ case'.state = "RECEIVED" /\ case'.version = 1
  BY DEF ResetDemo, FixtureCase
<1>3. UNCHANGED <<created, handler, worker>>
  BY DEF ResetDemo, outside
<1>4. AllFit'
  BY <1>1, <1>2, <1>3, AfreshParts, AllFitKept
<1>5. created \subseteq Epoch
  BY AfreshParts DEF TypeOK
<1>6. NamesFit'
  <2>1. \A id \in created : id <= case.epoch /\ id \in Nat
    BY <1>5, AfreshParts DEF NamesFit, Epoch
  <2>2. \A id \in created : id <= case.epoch + 1 /\ id # case.epoch + 1
    BY <1>1, <2>1
  <2>3. QED BY <1>2, <1>3, <2>2 DEF NamesFit
<1>7. \A id \in Epoch : rows'[id] = None /\ claims'[id] = None
  BY DEF ResetDemo, NoRows
<1>8. OneCommand' /\ RowsFit'
  BY <1>2, <1>7, NoneAssumption DEF OneCommand, RowsFit, Analysed
<1>9. QED BY <1>2, <1>4, <1>6, <1>8 DEF VersionFits, VersionOf

\* A request that goes on to publish serves a row that is there.
LEMMA GoesOnFits ==
  ASSUME AfreshInv, NEW h \in Handler, GoesOn(h), UNCHANGED <<stored, outside, worker>>
  PROVE  RequestFits(handler[h])' /\ \A g \in Handler \ {h} : handler'[g] = handler[g]
<1>1. handler \in HandlerType /\ UNCHANGED <<case, created>>
  BY AfreshParts, TypeParts DEF stored, outside
<1>2. CASE case.state = "EVIDENCE_READY" /\ HandlerAt(h, "queue", case, None)
  <2>1. case.version = 2
    BY <1>2, AfreshParts DEF VersionFits, VersionOf
  <2>2. QED
    BY <1>1, <1>2, <2>1, AfreshParts DEF HandlerAt, HandlerType, RequestFits
<1>3. ASSUME NEW id \in Epoch, rows[id] = "PENDING", HandlerAt(h, "publish", case, id)
      PROVE  RequestFits(handler[h])' /\ \A g \in Handler \ {h} : handler'[g] = handler[g]
  <2>1. id <= case.epoch
    BY <1>3, AfreshParts, NoneAssumption DEF RowsFit
  <2>2. QED
    BY <1>1, <1>3, <2>1, AfreshParts DEF HandlerAt, HandlerType, RequestFits
<1>4. QED BY <1>2, <1>3 DEF GoesOn

\* A request that reads, or stops.
LEMMA ReadsAfresh ==
  ASSUME AfreshInv, NEW h \in Handler,
         RequestAnalysis(h) \/ ReadRefs(h) \/ Reread(h) \/ HandlerStops(h)
  PROVE  VersionFits' /\ AllFit' /\ NamesFit' /\ OneCommand' /\ RowsFit'
<1>1. UNCHANGED <<stored, outside, worker>> /\ handler \in HandlerType
  BY AfreshParts, TypeParts DEF RequestAnalysis, ReadRefs, Reread, HandlerStops
<1>2. RequestFits(handler[h])' /\ \A g \in Handler \ {h} : handler'[g] = handler[g]
  <2>1. CASE GoesOn(h)
    BY <1>1, <2>1, GoesOnFits
  <2>2. CASE HandlerAt(h, "refs", case, None)
    BY <1>1, <2>2, AfreshParts DEF HandlerAt, HandlerType, RequestFits, stored
  <2>3. CASE ReadRefs(h)
    <3>1. handler[h].seen.epoch <= case.epoch
      BY <2>3, AfreshParts DEF AllFit, RequestFits, ReadRefs
    <3>2. QED BY <1>1, <2>3, <3>1 DEF ReadRefs, HandlerAt, HandlerType, RequestFits, stored
  <2>4. CASE HandlerStops(h)
    BY <1>1, <2>4 DEF HandlerStops, HandlerEnds, HandlerType, RequestFits, Idle
  <2>5. QED BY <2>1, <2>2, <2>3, <2>4 DEF RequestAnalysis, Reread
<1>3. AllFit'
  BY <1>1, <1>2, AfreshParts, AllFitKept DEF stored, outside
<1>4. UNCHANGED <<case, rows, claims, created, owed>> /\ DoneStays
  BY <1>1 DEF stored, outside, DoneStays
<1>5. QED BY <1>3, <1>4, QuietKeeps, RowsUntouched

\* What a transaction of this case can be: the version tells the states apart.
LEMMA MovesTo ==
  ASSUME AfreshInv, NEW seen, NEW target \in FixtureState, NEW packet, Moves(seen, target, packet)
  PROVE  /\ case'.epoch = case.epoch /\ case'.state = target
         /\ case'.version = case.version + 1
         /\ target = "EVIDENCE_READY" => case.state = "RECEIVED"
         /\ target = "ANALYZING" /\ seen.version = 2 => case.state = "EVIDENCE_READY"
         /\ target \in {"CANDIDATES_READY", "MANUAL_REVIEW"} => case.state = "ANALYZING"
         /\ target = "CLARIFICATION_REQUIRED" => case.state = "CANDIDATES_READY"
<1>1. /\ case'.epoch = case.epoch /\ case'.state = target /\ case'.version = case.version + 1
      /\ case.version = seen.version /\ <<case.state, target>> \in AllowedTransitions
  BY DEF Moves, TransitionAllowed
<1>2. case.state \in FixtureState /\ case.version = VersionOf(case.state)
  BY AfreshParts, TypeParts DEF FixtureRecord, VersionFits
<1>3. target = "ANALYZING" => case.state \in {"EVIDENCE_READY", "CLARIFICATION_REQUIRED",
                                              "MANUAL_REVIEW"}
  BY <1>1, <1>2 DEF AllowedTransitions, FixtureState
<1>4. /\ target = "EVIDENCE_READY" => case.state = "RECEIVED"
      /\ target \in {"CANDIDATES_READY", "MANUAL_REVIEW"} => case.state = "ANALYZING"
      /\ target = "CLARIFICATION_REQUIRED" => case.state = "CANDIDATES_READY"
  BY <1>1, <1>2 DEF AllowedTransitions, FixtureState
<1>5. QED BY <1>1, <1>2, <1>3, <1>4 DEF VersionOf

LEMMA PacketAfresh ==
  ASSUME AfreshInv, NEW h \in Handler, PacketReady(h)
  PROVE  VersionFits' /\ AllFit' /\ NamesFit' /\ OneCommand' /\ RowsFit'
<1>1. /\ case'.epoch = case.epoch /\ case'.state = "EVIDENCE_READY"
      /\ case'.version = case.version + 1 /\ case.state = "RECEIVED"
  BY MovesTo DEF PacketReady, FixtureState
<1>2. UNCHANGED <<rows, claims, created, owed, worker>> /\ handler \in HandlerType
  BY AfreshParts, TypeParts DEF PacketReady, outside
<1>3. RequestFits(handler[h])' /\ \A g \in Handler \ {h} : handler'[g] = handler[g]
  BY <1>1, <1>2, AfreshParts DEF PacketReady, HandlerAt, HandlerType, RequestFits
<1>4. AllFit'
  BY <1>1, <1>2, <1>3, AfreshParts, AllFitKept
<1>5. VersionFits'
  BY <1>1, AfreshParts DEF VersionFits, VersionOf
<1>6. NamesFit'
  BY <1>1, <1>2, NamesKept DEF DoneStays
<1>7. OneCommand' /\ RowsFit'
  BY <1>1, <1>2, AfreshParts DEF OneCommand, RowsFit, Analysed
<1>8. QED BY <1>4, <1>5, <1>6, <1>7

\* The case has no command yet, and gets the one of the epoch the request read.
LEMMA QueueAfresh ==
  ASSUME AfreshInv, NEW h \in Handler, QueueAnalysis(h)
  PROVE  VersionFits' /\ AllFit' /\ NamesFit' /\ OneCommand' /\ RowsFit'
<1> DEFINE seen == handler[h].seen
           id == RowId(seen)
<1>1. /\ handler \in HandlerType /\ rows \in RowsType /\ case.epoch \in Nat
      /\ handler[h].pc = "queue" /\ seen \in FixtureRecord
  BY AfreshParts, TypeParts, RequestTyped DEF QueueAnalysis
<1>2. seen.version = 2 /\ seen.epoch <= case.epoch /\ id = seen.epoch /\ id \in Epoch
  BY <1>1, AfreshParts DEF AllFit, RequestFits, RowId, FixtureRecord
<1>3. /\ case'.epoch = case.epoch /\ case'.state = "ANALYZING"
      /\ case'.version = case.version + 1 /\ case.state = "EVIDENCE_READY"
  BY <1>2, MovesTo DEF QueueAnalysis, FixtureState
<1>4. /\ rows' = [rows EXCEPT ![id] = "PENDING"] /\ HandlerAt(h, "publish", case', id)
      /\ UNCHANGED <<claims, created, owed, worker>>
  BY DEF QueueAnalysis, outside
<1> HIDE DEF id, seen
<1>5. RequestFits(handler[h])' /\ \A g \in Handler \ {h} : handler'[g] = handler[g]
  BY <1>1, <1>2, <1>3, <1>4, AfreshParts DEF HandlerAt, HandlerType, RequestFits
<1>6. AllFit'
  BY <1>3, <1>4, <1>5, AfreshParts, AllFitKept
<1>7. VersionFits' /\ NamesFit'
  <2>1. DoneStays
    <3>1. \A other \in Epoch : rows[other] = None
      BY <1>3, AfreshParts DEF OneCommand, Analysed
    <3>2. QED BY <3>1, NoneAssumption DEF DoneStays
  <2>2. NamesFit'
    BY <1>3, <1>4, <2>1, NamesKept
  <2>3. QED BY <1>3, <2>2, AfreshParts DEF VersionFits, VersionOf
<1>8. rows'[id] = "PENDING" /\ \A other \in Epoch \ {id} : rows'[other] = None
  <2>1. \A other \in Epoch : rows[other] = None
    BY <1>3, AfreshParts DEF OneCommand, Analysed
  <2>2. QED BY <1>1, <1>2, <1>4, <2>1 DEF RowsType
<1>9. OneCommand'
  BY <1>2, <1>3, <1>8, NoneAssumption DEF OneCommand, Analysed
<1>10. RowsFit'
  <2>1. \A other \in Epoch : claims'[other] = None
    BY <1>3, <1>4, AfreshParts DEF OneCommand, Analysed, RowsFit
  <2>2. QED BY <1>2, <1>3, <1>8, <2>1, NoneAssumption DEF RowsFit
<1>11. QED BY <1>6, <1>7, <1>9, <1>10

LEMMA CreateAfresh ==
  ASSUME AfreshInv, NEW h \in Handler, CreateTask(h)
  PROVE  VersionFits' /\ AllFit' /\ NamesFit' /\ OneCommand' /\ RowsFit'
<1> DEFINE id == handler[h].id
<1>1. /\ handler \in HandlerType /\ handler[h].pc = "publish" /\ case.epoch \in Nat
      /\ RequestFits(handler[h])
  BY AfreshParts, TypeParts DEF CreateTask, AllFit
<1>2. id <= case.epoch /\ handler[h].seen.epoch <= case.epoch
  BY <1>1 DEF RequestFits
<1>3. /\ created' = created \cup {id} /\ UNCHANGED <<stored, worker>>
      /\ owed' = owed \cup ({id} \ created)
      /\ HandlerAt(h, "mark", handler[h].seen, id)
  BY DEF CreateTask
<1> HIDE DEF id
<1>4. RequestFits(handler[h])' /\ \A g \in Handler \ {h} : handler'[g] = handler[g]
  BY <1>1, <1>2, <1>3 DEF HandlerAt, HandlerType, RequestFits, stored
<1>5. AllFit'
  BY <1>3, <1>4, AfreshParts, AllFitKept DEF stored
<1>6. NamesFit'
  <2>1. NamesFit /\ case' = case
    BY <1>3, AfreshParts DEF stored
  <2>2. \A name \in created' : name <= case.epoch
    BY <1>2, <1>3, <2>1 DEF NamesFit
  <2>3. case.epoch \in created' => case.epoch \in owed' \/ rows[case.epoch] = "DONE"
    BY <1>3, <2>1 DEF NamesFit
  <2>4. rows' = rows
    BY <1>3 DEF stored
  <2>5. QED BY <2>1, <2>2, <2>3, <2>4 DEF NamesFit
<1>7. VersionFits'
  BY <1>3, AfreshParts DEF VersionFits, stored
<1>8. OneCommand' /\ RowsFit'
  BY <1>3, RowsUntouched DEF stored
<1>9. QED BY <1>5, <1>6, <1>7, <1>8

\* A row is marked whose task was created.
LEMMA DispatchedAfresh ==
  ASSUME AfreshInv, NEW id \in created, Dispatched(id), UNCHANGED <<case, claims, created>>
  PROVE  OneCommand' /\ RowsFit' /\ DoneStays
<1>1. id \in Epoch /\ rows \in RowsType
  BY AfreshParts, TypeParts DEF TypeOK
<1>2. /\ rows[id] # None /\ rows'[id] \in {rows[id], "DISPATCHED"}
      /\ \A other \in Epoch \ {id} : rows'[other] = rows[other]
  BY <1>1 DEF Dispatched, RowsType
<1>3. \A other \in Epoch : rows'[other] = None <=> rows[other] = None
  BY <1>2, NoneAssumption
<1>4. OneCommand'
  BY <1>3, AfreshParts DEF OneCommand
<1>5. RowsFit'
  BY <1>2, <1>3, AfreshParts DEF RowsFit
<1>6. DoneStays
  BY <1>1, <1>2 DEF DoneStays, Dispatched, RowsType
<1>7. QED BY <1>4, <1>5, <1>6

LEMMA PublishedAfresh ==
  ASSUME AfreshInv, NEW h \in Handler, MarkPublished(h)
  PROVE  VersionFits' /\ AllFit' /\ NamesFit' /\ OneCommand' /\ RowsFit'
<1>1. handler \in HandlerType /\ handler[h].pc = "mark" /\ RequestFits(handler[h])
  BY AfreshParts, TypeParts DEF MarkPublished, AllFit
<1>2. handler[h].id \in created
  BY <1>1 DEF RequestFits
<1>3. /\ Dispatched(handler[h].id) /\ HandlerEnds(h)
      /\ UNCHANGED <<case, claims, created, owed, worker>>
  BY DEF MarkPublished, outside
<1>4. RequestFits(handler[h])' /\ \A g \in Handler \ {h} : handler'[g] = handler[g]
  BY <1>1, <1>3 DEF HandlerEnds, HandlerType, RequestFits, Idle
<1>5. AllFit'
  BY <1>3, <1>4, AfreshParts, AllFitKept
<1>6. QED BY <1>2, <1>3, <1>5, QuietKeeps, DispatchedAfresh

\* A delivery that goes on keeps serving its task.
LEMMA DeliveryFitsOn ==
  ASSUME AfreshInv, NEW w \in Worker, worker[w].pc # "idle",
         NEW pc \in Point, NEW seen \in FixtureRecord, WorkerAt(w, pc, seen), created' = created
  PROVE  DeliveryFits(worker[w])' /\ \A v \in Worker \ {w} : worker'[v] = worker[v]
<1>1. worker'[w].id = worker[w].id /\ \A v \in Worker \ {w} : worker'[v] = worker[v]
  BY AfreshParts, TypeParts, WorkerGoesOn
<1>2. worker[w].id \in created
  BY AfreshParts DEF AllFit, DeliveryFits
<1>3. QED BY <1>1, <1>2 DEF DeliveryFits

LEMMA DeliveriesAfresh ==
  ASSUME AfreshInv, NEW w \in Worker,
         \/ \E id \in Epoch : Deliver(w, id)
         \/ MarkDelivered(w) \/ ClaimExecution(w) \/ ReadCase(w) \/ CallAnalyst(w)
         \/ MarkExecution(w) \/ WorkerStops(w)
  PROVE  VersionFits' /\ AllFit' /\ NamesFit' /\ OneCommand' /\ RowsFit'
<1>1. /\ worker \in WorkerType /\ rows \in RowsType /\ case \in FixtureRecord
      /\ claims \in [Epoch -> Worker \cup {None}]
  BY AfreshParts, TypeParts DEF TypeOK
<1>2. UNCHANGED <<case, created, owed, handler>>
  BY DEF Deliver, MarkDelivered, ClaimExecution, ReadCase, CallAnalyst, MarkExecution,
     WorkerStops, stored, outside
<1>3. worker[w].pc # "idle" => worker[w].id \in created /\ worker[w].seen \in FixtureRecord
                               /\ worker[w].id \in Epoch
  BY <1>1, AfreshParts, DeliveryTyped DEF AllFit, DeliveryFits
<1>4. DeliveryFits(worker[w])' /\ \A v \in Worker \ {w} : worker'[v] = worker[v]
  <2>1. ASSUME NEW id \in Epoch, Deliver(w, id)
        PROVE  DeliveryFits(worker[w])' /\ \A v \in Worker \ {w} : worker'[v] = worker[v]
    BY <1>1, <1>2, <2>1 DEF Deliver, WorkerType, DeliveryFits
  <2>2. CASE MarkDelivered(w)
    BY <1>2, <1>3, <2>2, DeliveryFitsOn DEF MarkDelivered, Point
  <2>3. CASE ClaimExecution(w)
    <3>1. PICK pc \in {"run", "recover"} : WorkerAt(w, pc, worker[w].seen)
      BY <2>3 DEF ClaimExecution
    <3>2. worker[w].pc # "idle" /\ pc \in Point
      BY <2>3 DEF ClaimExecution, Point
    <3>3. QED BY <1>2, <1>3, <3>1, <3>2, DeliveryFitsOn
  <2>4. CASE ReadCase(w)
    <3>1. worker[w].pc # "idle" /\ WorkerAt(w, NextStep(worker[w].pc), case)
      BY <2>4 DEF ReadCase
    <3>2. NextStep(worker[w].pc) \in Point
      BY NextStepIsPoint
    <3>3. QED BY <1>1, <1>2, <3>1, <3>2, DeliveryFitsOn
  <2>5. CASE CallAnalyst(w)
    <3>1. PICK pc \in {"propose", "review"} : WorkerAt(w, pc, worker[w].seen)
      BY <2>5 DEF CallAnalyst
    <3>2. worker[w].pc # "idle" /\ pc \in Point
      BY <2>5 DEF CallAnalyst, Point
    <3>3. QED BY <1>2, <1>3, <3>1, <3>2, DeliveryFitsOn
  <2>6. CASE MarkExecution(w) \/ WorkerStops(w)
    BY <1>1, <2>6 DEF MarkExecution, WorkerStops, WorkerType, DeliveryFits, Idle
  <2>7. QED BY <2>1, <2>2, <2>3, <2>4, <2>5, <2>6
<1>5. AllFit'
  BY <1>2, <1>4, AfreshParts, AllFitKept
<1>6. OneCommand' /\ RowsFit' /\ DoneStays
  <2>1. CASE UNCHANGED <<rows, claims>>
    BY <1>2, <2>1, RowsUntouched DEF DoneStays
  <2>2. CASE MarkDelivered(w)
    <3>1. worker[w].id \in created /\ Dispatched(worker[w].id) /\ claims' = claims
      BY <1>3, <2>2 DEF MarkDelivered
    <3>2. QED BY <1>2, <3>1, DispatchedAfresh
  <2>3. CASE ClaimExecution(w)
    <3>1. worker[w].id \in Epoch /\ rows[worker[w].id] # None
      BY <1>3, <2>3, NoneAssumption DEF ClaimExecution
    <3>2. rows' = rows /\ \A id \in Epoch \ {worker[w].id} : claims'[id] = claims[id]
      BY <1>1, <2>3, <3>1 DEF ClaimExecution
    <3>3. QED BY <1>2, <3>1, <3>2, AfreshParts DEF OneCommand, RowsFit, DoneStays
  <2>4. CASE MarkExecution(w)
    <3>1. /\ worker[w].id \in Epoch /\ claims[worker[w].id] # None
          /\ rows' = [rows EXCEPT ![worker[w].id] = "DONE"] /\ claims' = claims
      BY <1>3, <2>4, NoneApart DEF MarkExecution, OwnsClaim
    <3>2. rows[worker[w].id] # None
      BY <3>1, AfreshParts DEF RowsFit
    <3>3. /\ \A id \in Epoch : rows'[id] = None <=> rows[id] = None
          /\ \A id \in Epoch : rows'[id] \in {rows[id], "DONE"}
      BY <1>1, <3>1, <3>2, NoneAssumption DEF RowsType
    <3>4. OneCommand'
      BY <1>2, <3>3, AfreshParts DEF OneCommand
    <3>5. RowsFit' /\ DoneStays
      BY <1>2, <3>1, <3>3, AfreshParts DEF RowsFit, DoneStays
    <3>6. QED BY <3>4, <3>5
  <2>5. QED BY <2>1, <2>2, <2>3, <2>4 DEF Deliver, ReadCase, CallAnalyst, WorkerStops, stored
<1>7. QED BY <1>2, <1>5, <1>6, QuietKeeps

LEMMA ResultAfresh ==
  ASSUME AfreshInv, NEW w \in Worker, CommitAnalysis(w)
  PROVE  VersionFits' /\ AllFit' /\ NamesFit' /\ OneCommand' /\ RowsFit'
<1>1. /\ worker[w].pc # "idle" /\ worker[w].seen \in FixtureRecord
  BY AfreshParts, TypeParts, DeliveryTyped DEF CommitAnalysis
<1>2. UNCHANGED <<rows, claims, created, owed, handler>>
  BY DEF CommitAnalysis, outside
<1>3. PICK pc \in {"reread", "finish"} : WorkerAt(w, pc, worker[w].seen)
  BY DEF CommitAnalysis
<1>4. DeliveryFits(worker[w])' /\ \A v \in Worker \ {w} : worker'[v] = worker[v]
  BY <1>1, <1>2, <1>3, DeliveryFitsOn DEF Point
<1>5. /\ case'.epoch = case.epoch /\ case'.version = VersionOf(case'.state)
      /\ case.state \in Analysed /\ case'.state \in Analysed
  <2>1. CASE worker[w].pc = "propose"
    <3>1. Moves(worker[w].seen, "CANDIDATES_READY", worker[w].seen.epoch)
      BY <2>1 DEF CommitAnalysis
    <3>2. QED BY <3>1, MovesTo, AfreshParts DEF FixtureState, VersionFits, VersionOf, Analysed
  <2>2. CASE worker[w].pc = "ask"
    <3>1. Moves(worker[w].seen, "CLARIFICATION_REQUIRED", case.packet)
      BY <2>2 DEF CommitAnalysis
    <3>2. QED BY <3>1, MovesTo, AfreshParts DEF FixtureState, VersionFits, VersionOf, Analysed
  <2>3. CASE worker[w].pc = "review"
    <3>1. Moves(worker[w].seen, "MANUAL_REVIEW", None)
      BY <2>3 DEF CommitAnalysis
    <3>2. QED BY <3>1, MovesTo, AfreshParts DEF FixtureState, VersionFits, VersionOf, Analysed
  <2>4. QED BY <2>1, <2>2, <2>3 DEF CommitAnalysis
<1>6. AllFit'
  BY <1>2, <1>4, <1>5, AfreshParts, AllFitKept
<1>7. NamesFit'
  BY <1>2, <1>5, NamesKept DEF DoneStays
<1>8. QED
  BY <1>2, <1>5, <1>6, <1>7, AfreshParts DEF VersionFits, OneCommand, RowsFit

LEMMA AcknowledgedAfresh ==
  ASSUME AfreshInv, NEW id \in Epoch, Acknowledge(id)
  PROVE  VersionFits' /\ AllFit' /\ NamesFit' /\ OneCommand' /\ RowsFit'
<1>1. /\ UNCHANGED <<case, rows, claims, created, handler, worker>>
      /\ rows[id] = "DONE" /\ owed' = owed \ {id}
  BY DEF Acknowledge, stored
<1>2. AllFit'
  BY <1>1, AfreshParts, AllFitKept
<1>3. NamesFit' /\ VersionFits'
  BY <1>1, AfreshParts DEF NamesFit, VersionFits
<1>4. QED BY <1>1, <1>2, <1>3, RowsUntouched

LEMMA AfreshNext == AfreshInv /\ [Next]_vars => AfreshInv'
<1> SUFFICES ASSUME AfreshInv, [Next]_vars PROVE AfreshInv'
  OBVIOUS
<1>1. IInv'
  BY NextInductive DEF AfreshInv
<1>2. VersionFits' /\ AllFit' /\ NamesFit' /\ OneCommand' /\ RowsFit'
  <2>1. CASE ResetDemo
    BY <2>1, ResetAfresh
  <2>2. CASE Upload \/ UNCHANGED vars
    <3>1. UNCHANGED <<case, rows, claims, created, owed, handler, worker>>
      BY <2>2 DEF Upload, vars, stored
    <3>2. AllFit'
      BY <3>1, AfreshParts, AllFitKept
    <3>3. UNCHANGED <<created, owed>>
      BY <2>2 DEF Upload, vars
    <3>4. QED BY <3>1, <3>2, <3>3, QuietKeeps, RowsUntouched DEF DoneStays
  <2>3. ASSUME NEW h \in Handler,
               \/ RequestAnalysis(h) \/ ReadRefs(h) \/ PacketReady(h) \/ Reread(h)
               \/ QueueAnalysis(h) \/ CreateTask(h) \/ MarkPublished(h) \/ HandlerStops(h)
        PROVE  VersionFits' /\ AllFit' /\ NamesFit' /\ OneCommand' /\ RowsFit'
    BY <2>3, ReadsAfresh, PacketAfresh, QueueAfresh, CreateAfresh, PublishedAfresh
  <2>4. ASSUME NEW w \in Worker,
               \/ \E id \in Epoch : Deliver(w, id)
               \/ MarkDelivered(w) \/ ClaimExecution(w) \/ ReadCase(w) \/ CallAnalyst(w)
               \/ CommitAnalysis(w) \/ MarkExecution(w) \/ WorkerStops(w)
        PROVE  VersionFits' /\ AllFit' /\ NamesFit' /\ OneCommand' /\ RowsFit'
    BY <2>4, DeliveriesAfresh, ResultAfresh
  <2>5. ASSUME NEW id \in Epoch, Acknowledge(id)
        PROVE  VersionFits' /\ AllFit' /\ NamesFit' /\ OneCommand' /\ RowsFit'
    BY <2>5, AcknowledgedAfresh
  <2>6. QED BY <2>1, <2>2, <2>3, <2>4, <2>5 DEF Next
<1>3. QED BY <1>1, <1>2 DEF AfreshInv

LEMMA AfreshImplies == AfreshInv => OneCommandPerCase
<1> SUFFICES ASSUME AfreshInv PROVE OneCommandPerCase
  OBVIOUS
<1> DEFINE present == {id \in Epoch : rows[id] # None}
<1>1. Cardinality(present) = IF case.state \in Analysed THEN 1 ELSE 0
  <2>1. CASE case.state \in Analysed
    <3>1. PICK id \in Epoch : \A other \in Epoch : rows[other] # None <=> other = id
      BY <2>1, AfreshParts DEF OneCommand
    <3>2. present = {id}
      BY <3>1
    <3>3. QED BY <2>1, <3>2, FS_Singleton
  <2>2. CASE case.state \notin Analysed
    <3>1. present = {}
      BY <2>2, AfreshParts DEF OneCommand
    <3>2. QED BY <2>2, <3>1, FS_EmptySet
  <2>3. QED BY <2>1, <2>2
<1>2. ASSUME NEW id \in Epoch, rows[id] = "DISPATCHED"
      PROVE  id \in owed \/ id < case.epoch
  <2>1. id \in created /\ id \in Nat /\ case.epoch \in Nat
    BY <1>2, AfreshParts DEF RowsFit, Epoch
  <2>2. id <= case.epoch /\ (id = case.epoch => id \in owed \/ rows[id] = "DONE")
    BY <2>1, AfreshParts DEF NamesFit
  <2>3. QED BY <1>2, <2>1, <2>2
<1>3. QED BY <1>1, <1>2, AfreshParts DEF OneCommandPerCase, RowsFit

\* However many resets, requests, publications and deliveries cross, the case has one
\* command exactly when it asked for its analysis, claims are of rows, and a dispatched
\* command without a task is one that a request of an earlier epoch brought back
\* (replace_synthetic_fixture, make_outbox, apply_mutation, which compares no epoch).
THEOREM CommandsAcrossResets == Spec => []OneCommandPerCase
BY AfreshInit, AfreshNext, AfreshImplies, PTL DEF Spec
=============================================================================
