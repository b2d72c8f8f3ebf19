------------------------- MODULE ItemPassportProofs -------------------------
(***************************************************************************)
(* Proofs about ItemPassport for any number of handlers and keys and any   *)
(* limit of wrong answers.  The inductive invariant says what the version  *)
(* check is worth: a snapshot with the current version is the current      *)
(* case.  A decision taken on a snapshot is therefore still good when its  *)
(* transaction is accepted.                                                *)
(***************************************************************************)
EXTENDS ItemPassport, TLAPS

\* Who calls Relay Post or brings its answer serves a relay row.
RelayArguments ==
  \A h \in Handler :
    handler[h] # None /\ handler[h].op \in {"relay", "callback"} =>
      handler[h].arg \in {"RESERVE", "RELEASE"}

IInv == TypeOK /\ SnapshotsCurrent /\ GatesAhead /\ ReleaseGates /\ RelayArguments

\* What a mutation may write.
Records ==
  [case : PassportRecord, handoff : HandoffRecord,
   tokens : [Purpose -> {"ABSENT", "UNUSED", "USED"}], outbox : [Kind -> OutboxRow]]

\* It takes back nothing the release policy was decided on.
PolicyKept(c) ==
  /\ c.risk = passport.risk /\ c.wrong = passport.wrong
  /\ passport.accepted => c.accepted
  /\ passport.identity => c.identity
  /\ passport.approval => c.approval

\* How a handler goes on after a commit: not at all, or to a step that reads
\* again before it writes a case or a handoff.
GoesOn(a, next) == \/ next = None
                   \/ \E pc \in {"reread", "complete", "fail"} : next = [a EXCEPT !.pc = pc]

\* Where a mutation may lead: nowhere, forward, or to a reservation its handler
\* has decided.
MayLeadTo(a, target) == \/ target = a.seen.state
                        \/ target \notin {"EXPIRED", "RESERVE_REQUESTED"}
                        \/ target = "RESERVE_REQUESTED" /\ a.op = "reserve"

-----------------------------------------------------------------------------
(* The state graph and the policy *)

LEMMA GrantedIsKept ==
  ASSUME NEW from \in Granted, NEW to, NEW fact, TransitionAllowed(from, to, fact),
         to # "EXPIRED"
  PROVE  to \in Granted
BY DEF Granted, Releasing, TransitionAllowed, AllowedTransitions

LEMMA GrantedFromReservation ==
  ASSUME NEW from, NEW to \in Granted, NEW fact, TransitionAllowed(from, to, fact),
         to # "RESERVE_REQUESTED"
  PROVE  from \in Granted
BY DEF Granted, Releasing, TransitionAllowed, AllowedTransitions

LEMMA PolicyMonotonic ==
  ASSUME NEW c, NEW d, ReleasePolicy(c) = "ALLOW_HANDOFF",
         d.risk = c.risk, d.wrong = c.wrong, c.accepted => d.accepted,
         c.identity => d.identity, c.approval => d.approval
  PROVE  ReleasePolicy(d) = "ALLOW_HANDOFF"
BY DEF ReleasePolicy

-----------------------------------------------------------------------------
(* Types *)

LEMMA NoHandoffType == NoHandoff \in HandoffRecord
BY DEF NoHandoff, HandoffRecord, HandoffStatus

LEMMA PassportUpdate ==
  ASSUME NEW p \in PassportRecord, NEW s \in CustodyState, NEW n \in Nat
  PROVE  [p EXCEPT !.state = s, !.version = n] \in PassportRecord
BY DEF PassportRecord

LEMMA ActivityFields ==
  ASSUME NEW a \in Activity
  PROVE  /\ a.key \in Source /\ a.arg \in Argument
         /\ a.seen \in PassportRecord /\ a.hand \in HandoffRecord
         /\ a.seen.version \in Nat /\ a.seen.state \in CustodyState
         /\ \A pc \in Pc : [a EXCEPT !.pc = pc] \in Activity
BY DEF Activity, PassportRecord

LEMMA RefusedShape ==
  ASSUME NEW a \in Activity
  PROVE  Refused(a) = None \/ Refused(a) = [a EXCEPT !.pc = "failed"]
BY DEF Refused

LEMMA NewRowType ==
  ASSUME NEW a \in Activity
  PROVE  NewRow(a) \in OutboxRow
BY ActivityFields DEF NewRow, OutboxRow

LEMMA MutationFields ==
  ASSUME NEW a \in Activity, NEW name \in KeyName, NEW event \in EventType, NEW target
  PROVE  /\ Mutation(name, a, event, target).target = target
         /\ Mutation(name, a, event, target).event \in EventType
         /\ Mutation(name, a, event, target).key \in KeyName \X Source
BY ActivityFields DEF Mutation

-----------------------------------------------------------------------------
(* One mutation *)

LEMMA MutationType ==
  ASSUME TypeOK, NEW h \in Handler, handler[h] \in Activity,
         NEW m, m.target \in CustodyState, m.event \in EventType,
         m.key \in KeyName \X Source,
         NEW w \in Records, NEW next, GoesOn(handler[h], next),
         ApplyMutation(h, m, w, next)
  PROVE  TypeOK'
<1>1. /\ w.case \in PassportRecord /\ w.handoff \in HandoffRecord
      /\ w.tokens \in [Purpose -> {"ABSENT", "UNUSED", "USED"}]
      /\ w.outbox \in [Kind -> OutboxRow]
  BY DEF Records
<1>2. passport.version + 1 \in Nat /\ passport.state \in CustodyState
  BY DEF TypeOK, PassportRecord
<1>3. passport' \in PassportRecord
  <2>1. \/ passport' = [w.case EXCEPT !.state = m.target, !.version = passport.version + 1]
        \/ passport' = passport
    BY DEF ApplyMutation, NextVersion, data
  <2>2. [w.case EXCEPT !.state = m.target, !.version = passport.version + 1]
          \in PassportRecord
    BY <1>1, <1>2, PassportUpdate
  <2> QED BY <2>1, <2>2 DEF TypeOK
<1>4. log' \in Seq(EventRecord)
  <2> DEFINE e == [event |-> m.event, from |-> passport.state, to |-> m.target, key |-> m.key]
  <2>1. e \in EventRecord
    BY <1>2 DEF EventRecord
  <2>2. log' = Append(log, e) \/ log' = log
    BY DEF ApplyMutation, data
  <2> QED BY <2>1, <2>2 DEF TypeOK
<1>5. /\ handoff' \in HandoffRecord
      /\ tokens' \in [Purpose -> {"ABSENT", "UNUSED", "USED"}]
      /\ outbox' \in [Kind -> OutboxRow]
      /\ remote' \subseteq {"RESERVE", "RELEASE"}
  BY <1>1 DEF ApplyMutation, TypeOK, data
<1>6. handler' \in [Handler -> Activity \cup {None}]
  <2>1. \A pc \in {"reread", "complete", "fail", "failed"} :
          [handler[h] EXCEPT !.pc = pc] \in Activity
    BY ActivityFields DEF Pc
  <2>2. next \in Activity \cup {None}
    BY <2>1 DEF GoesOn
  <2>3. Refused(handler[h]) \in Activity \cup {None}
    BY <2>1, RefusedShape
  <2> QED BY <2>2, <2>3 DEF ApplyMutation, TypeOK
<1> QED BY <1>3, <1>4, <1>5, <1>6 DEF TypeOK
\* What an accepted mutation and what a refused one do, without the records.
LEMMA MutationOutcome ==
  ASSUME NEW h \in Handler, NEW m, NEW w, NEW next, ApplyMutation(h, m, w, next)
  PROVE  /\ \/ /\ MutationAccepted(handler[h], m)
               /\ passport' = [w.case EXCEPT !.state = m.target,
                                             !.version = passport.version + 1]
               /\ handler' = [handler EXCEPT ![h] = next]
            \/ /\ passport' = passport /\ handoff' = handoff
               /\ \/ handler' = [handler EXCEPT ![h] = next]
                  \/ handler' = [handler EXCEPT ![h] = Refused(handler[h])]
         /\ remote' = remote
BY DEF ApplyMutation, NextVersion, data

LEMMA MutationSnapshots ==
  ASSUME IInv, NEW h \in Handler, handler[h] \in Activity, handler[h] # None,
         NEW m, NEW w \in Records, NEW next, GoesOn(handler[h], next),
         ApplyMutation(h, m, w, next)
  PROVE  SnapshotsCurrent'
<1> DEFINE a == handler[h]
<1>1. \A pc \in {"reread", "complete", "fail", "failed"} :
        [a EXCEPT !.pc = pc].seen = a.seen /\ [a EXCEPT !.pc = pc].pc # "commit"
  BY DEF Activity
<1>2. \/ next = None
      \/ next.seen = a.seen /\ next.pc # "commit"
  BY <1>1 DEF GoesOn
<1>3. \/ Refused(a) = None
      \/ Refused(a).seen = a.seen /\ Refused(a).pc # "commit"
  BY <1>1, RefusedShape
<1>4. w.case \in PassportRecord /\ passport.version \in Nat
  BY DEF IInv, TypeOK, Records, PassportRecord
<1>5. \A g \in Handler : handler[g] # None => handler[g].seen.version \in Nat
  BY ActivityFields DEF IInv, TypeOK
<1>6. CASE passport' = passport /\ handoff' = handoff
  <2>1. \A g \in Handler : handler'[g] # None =>
          /\ handler[g] # None
          /\ handler'[g].seen = handler[g].seen
          /\ handler'[g] = handler[g] \/ handler'[g].pc # "commit"
    <3>1. \/ handler' = [handler EXCEPT ![h] = next]
          \/ handler' = [handler EXCEPT ![h] = Refused(a)]
      BY MutationOutcome
    <3>2. TAKE g \in Handler
    <3>3. CASE g # h
      BY <3>1, <3>3 DEF IInv, TypeOK
    <3>4. CASE g = h
      BY <1>2, <1>3, <3>1, <3>4 DEF IInv, TypeOK
    <3> QED BY <3>3, <3>4
  <2> QED BY <1>6, <2>1 DEF IInv, SnapshotsCurrent
<1>7. CASE /\ passport' = [w.case EXCEPT !.state = m.target, !.version = passport.version + 1]
           /\ handler' = [handler EXCEPT ![h] = next]
  <2>1. passport'.version = passport.version + 1
    BY <1>4, <1>7 DEF PassportRecord
  <2>2. \A g \in Handler : handler'[g] # None => handler'[g].seen.version <= passport.version
                                                  /\ handler'[g].seen.version \in Nat
    BY <1>2, <1>5, <1>7 DEF IInv, TypeOK, SnapshotsCurrent
  <2>3. \A g \in Handler : handler'[g] # None => handler'[g].seen.version < passport'.version
    BY <1>4, <2>1, <2>2
  <2> QED BY <1>4, <2>1, <2>2, <2>3 DEF SnapshotsCurrent
<1> QED BY <1>6, <1>7, MutationOutcome

LEMMA MutationGates ==
  ASSUME IInv, NEW h \in Handler, handler[h] \in Activity, handler[h] # None,
         NEW m, NEW w \in Records, NEW next, GoesOn(handler[h], next),
         MayLeadTo(handler[h], m.target), PolicyKept(w.case),
         ApplyMutation(h, m, w, next)
  PROVE  ReleaseGates' /\ GatesAhead' /\ RelayArguments'
<1> DEFINE a == handler[h]
           Same(b, c) == b.seen = c.seen /\ b.op = c.op /\ b.arg = c.arg
<1>1. \A pc \in {"reread", "complete", "fail", "failed"} : Same([a EXCEPT !.pc = pc], a)
  BY DEF Activity
<1>2. \A g \in Handler : handler'[g] # None => handler[g] # None /\ Same(handler'[g], handler[g])
  <2>1. next = None \/ Same(next, a)
    BY <1>1 DEF GoesOn
  <2>2. Refused(a) = None \/ Same(Refused(a), a)
    BY <1>1, RefusedShape
  <2>3. \/ handler' = [handler EXCEPT ![h] = next]
        \/ handler' = [handler EXCEPT ![h] = Refused(a)]
    BY MutationOutcome
  <2>4. TAKE g \in Handler
  <2>5. CASE g # h
    BY <2>3, <2>5 DEF IInv, TypeOK
  <2>6. CASE g = h
    BY <2>1, <2>2, <2>3, <2>6 DEF IInv, TypeOK
  <2> QED BY <2>5, <2>6
<1>3. (passport.state \in Granted => passport'.state \in Granted)
        /\ (passport'.state \in Granted => ReleasePolicy(passport') = "ALLOW_HANDOFF")
  <2>1. CASE passport' = passport
    BY <2>1 DEF IInv, ReleaseGates
  <2>2. CASE /\ MutationAccepted(a, m)
             /\ passport' = [w.case EXCEPT !.state = m.target,
                                           !.version = passport.version + 1]
    <3>1. /\ passport'.state = m.target
          /\ passport'.risk = w.case.risk /\ passport'.wrong = w.case.wrong
          /\ passport'.accepted = w.case.accepted /\ passport'.identity = w.case.identity
          /\ passport'.approval = w.case.approval
      BY <2>2 DEF Records, PassportRecord
    <3>2. ReleasePolicy(passport) = "ALLOW_HANDOFF" => ReleasePolicy(passport') = "ALLOW_HANDOFF"
      BY <3>1, PolicyMonotonic DEF PolicyKept
    <3>3. /\ a.seen = passport
          /\ TransitionAllowed(passport.state, m.target, m.fact)
      BY <2>2 DEF IInv, SnapshotsCurrent, MutationAccepted
    <3>4. CASE m.target = a.seen.state
      BY <3>1, <3>2, <3>3, <3>4 DEF IInv, ReleaseGates
    <3>5. CASE m.target \notin {"EXPIRED", "RESERVE_REQUESTED"}
      BY <3>1, <3>2, <3>3, <3>5, GrantedIsKept, GrantedFromReservation DEF IInv, ReleaseGates
    <3>6. CASE m.target = "RESERVE_REQUESTED" /\ a.op = "reserve"
      <4>1. ReleasePolicy(passport) = "ALLOW_HANDOFF"
        BY <3>3, <3>6 DEF IInv, GatesAhead
      <4> QED BY <3>1, <3>2, <3>6, <4>1 DEF Granted
    <3> QED BY <3>4, <3>5, <3>6 DEF MayLeadTo
  <2> QED BY <2>1, <2>2, MutationOutcome
<1>4. remote' = remote
  BY MutationOutcome
<1> QED BY <1>2, <1>3, <1>4 DEF IInv, ReleaseGates, GatesAhead, RelayArguments

\* Every mutation of the service has this shape, and keeps the invariant.
LEMMA MutationInductive ==
  ASSUME IInv, NEW h \in Handler, handler[h] \in Activity, handler[h] # None,
         NEW m, m.target \in CustodyState, m.event \in EventType,
         m.key \in KeyName \X Source, MayLeadTo(handler[h], m.target),
         NEW w \in Records, PolicyKept(w.case),
         NEW next, GoesOn(handler[h], next),
         ApplyMutation(h, m, w, next)
  PROVE  IInv'
BY MutationType, MutationSnapshots, MutationGates DEF IInv

-----------------------------------------------------------------------------
(* One step of a handler that commits nothing *)

\* What the invariant says of one activity.
Sound(a) ==
  /\ a.seen.version <= passport.version
  /\ a.seen.version = passport.version =>
       /\ a.seen = passport
       /\ a.pc = "commit" /\ a.op \in WritesHandoffBack => a.hand = handoff
  /\ a.op = "reserve" => ReleasePolicy(a.seen) = "ALLOW_HANDOFF"
  /\ a.op = "relay" => passport.state \in Granted
  /\ a.op \in {"relay", "callback"} => a.arg \in {"RESERVE", "RELEASE"}

LEMMA HandlersSound ==
  IInv <=> /\ TypeOK /\ ReleaseGates
           /\ remote # {} => passport.state \in Granted
           /\ \A g \in Handler : handler[g] # None => Sound(handler[g])
BY DEF IInv, Sound, SnapshotsCurrent, GatesAhead, RelayArguments

LEMMA HandlerStep ==
  ASSUME IInv, NEW h \in Handler, NEW next \in Activity \cup {None},
         next # None => Sound(next),
         handler' = [handler EXCEPT ![h] = next],
         UNCHANGED <<passport, handoff, tokens, log>>,
         outbox' \in [Kind -> OutboxRow], remote' \subseteq {"RESERVE", "RELEASE"},
         remote' # {} => passport.state \in Granted
  PROVE  IInv'
<1>1. TypeOK'
  BY DEF IInv, TypeOK
<1>2. ReleaseGates'
  BY DEF IInv, ReleaseGates
<1>3. \A g \in Handler : handler'[g] # None => Sound(handler'[g])
  <2>1. TAKE g \in Handler
  <2>2. CASE g # h
    BY <2>2, HandlersSound DEF IInv, TypeOK
  <2>3. CASE g = h
    BY <2>3 DEF IInv, TypeOK
  <2> QED BY <2>2, <2>3
<1>4. \A g \in Handler : handler'[g] # None => Sound(handler[g])'
  BY <1>3 DEF Sound
<1>5. remote' # {} => passport'.state \in Granted
  OBVIOUS
<1> QED BY <1>1, <1>2, <1>4, <1>5 DEF IInv, Sound, SnapshotsCurrent, GatesAhead, RelayArguments

LEMMA GotoInductive ==
  ASSUME IInv, NEW h \in Handler, NEW next \in Activity \cup {None},
         next # None => Sound(next), Goto(h, next)
  PROVE  IInv'
<1>1. /\ handler' = [handler EXCEPT ![h] = next] /\ outbox' = outbox /\ remote' = remote
      /\ UNCHANGED <<passport, handoff, tokens, log>>
  BY DEF Goto, data
<1>2. /\ outbox \in [Kind -> OutboxRow] /\ remote \subseteq {"RESERVE", "RELEASE"}
      /\ remote # {} => passport.state \in Granted
  BY DEF IInv, TypeOK, GatesAhead
<1> QED BY <1>1, <1>2, HandlerStep

LEMMA BeginInductive ==
  ASSUME IInv, NEW h \in Handler, NEW op \in Operation, NEW pc \in Pc,
         NEW k \in Source, NEW arg \in Argument,
         pc = "commit" => op \notin WritesHandoffBack,
         op = "reserve" => ReleasePolicy(passport) = "ALLOW_HANDOFF",
         op = "relay" => passport.state \in Granted,
         op \in {"relay", "callback"} => arg \in {"RESERVE", "RELEASE"},
         Begin(h, op, pc, k, arg)
  PROVE  IInv'
<1> DEFINE next == [op |-> op, pc |-> pc, key |-> k, arg |-> arg, seen |-> passport,
                    hand |-> NoHandoff]
<1>1. next \in Activity
  BY NoHandoffType DEF IInv, TypeOK, Activity
<1>2. passport.version \in Nat
  BY DEF IInv, TypeOK, PassportRecord
<1>3. Sound(next)
  BY <1>2 DEF Sound
<1>4. Goto(h, next)
  BY DEF Begin, Goto
<1> HIDE DEF next
<1> QED BY <1>1, <1>3, <1>4, GotoInductive

LEMMA StartInductive ==
  ASSUME IInv, NEW h \in Handler, Start(h)
  PROVE  IInv'
<1> USE DEF Operation, Pc, Source, Argument, Purpose, Kind, WritesHandoffBack
<1>1. ASSUME NEW k \in Key, StartAnalysis(h, k) PROVE IInv'
  BY <1>1, BeginInductive DEF StartAnalysis
<1>2. ASSUME NEW k \in Key, AttestIdentity(h, k) PROVE IInv'
  BY <1>2, BeginInductive DEF AttestIdentity
<1>3. ASSUME NEW k \in Key, BeginReservation(h, k) PROVE IInv'
  BY <1>3, BeginInductive DEF BeginReservation
<1>4. ASSUME NEW k \in Key, IssueTokens(h, k) PROVE IInv'
  BY <1>4, BeginInductive DEF IssueTokens
<1>5. ASSUME NEW k \in Key, BeginRelease(h, k) PROVE IInv'
  BY <1>5, BeginInductive DEF BeginRelease
<1>6. ASSUME NEW k \in Key, CloseCase(h, k) PROVE IInv'
  BY <1>6, BeginInductive DEF CloseCase
<1>7. ASSUME NEW k \in Key, NEW answer \in {"correct", "wrong"},
             SubmitClaimEvidence(h, k, answer)
      PROVE  IInv'
  BY <1>7, BeginInductive DEF SubmitClaimEvidence
<1>8. ASSUME NEW k \in Key, NEW verdict \in {"approve", "reject"},
             RecordApproval(h, k, verdict)
      PROVE  IInv'
  BY <1>8, BeginInductive DEF RecordApproval
<1>9. ASSUME NEW k \in Key, NEW p \in Purpose, AttestToken(h, k, p) PROVE IInv'
  BY <1>9, BeginInductive DEF AttestToken
<1>10. CASE DeliverAnalysis(h)
  BY <1>10, BeginInductive DEF DeliverAnalysis
<1>11. ASSUME NEW kind \in {"RESERVE", "RELEASE"}, DeliverRelay(h, kind) PROVE IInv'
  BY <1>11, BeginInductive DEF DeliverRelay, RequestState, Granted, Releasing
<1>12. CASE ReceiveCallback(h)
  BY <1>12, BeginInductive DEF ReceiveCallback
<1> QED
  BY <1>1, <1>2, <1>3, <1>4, <1>5, <1>6, <1>7, <1>8, <1>9, <1>10, <1>11, <1>12 DEF Start

\* The fields of an activity that goes on with another pc, case or handoff.
LEMMA ActivityUpdates ==
  ASSUME NEW a \in Activity, NEW pc \in Pc, NEW c \in PassportRecord, NEW d \in HandoffRecord
  PROVE  /\ [a EXCEPT !.pc = pc] \in Activity
         /\ [a EXCEPT !.pc = pc, !.seen = c] \in Activity
         /\ [a EXCEPT !.pc = pc, !.hand = d] \in Activity
BY DEF Activity

LEMMA ContinueInductive ==
  ASSUME IInv, NEW h \in Handler, Continue(h)
  PROVE  IInv'
<1> DEFINE a == handler[h]
<1>1. /\ a # None => a \in Activity /\ Sound(a)
      /\ passport \in PassportRecord /\ handoff \in HandoffRecord /\ passport.version \in Nat
  BY HandlersSound DEF TypeOK, PassportRecord
<1>2. CASE Reread(h)
  <2>1. a # None /\ a.pc = "reread"
    BY <1>2 DEF Reread
  <2> DEFINE commits == [a EXCEPT !.pc = "commit", !.seen = passport]
             second  == [a EXCEPT !.pc = "second", !.seen = passport]
             ends    == [a EXCEPT !.pc = "complete"]
  <2>2. \/ Goto(h, commits) /\ a.op \in {"analysis", "worker"}
        \/ Goto(h, second) /\ a.op = "identity"
        \/ Goto(h, ends)
        \/ Goto(h, None)
    BY <1>2 DEF Reread
  <2>3. commits \in Activity /\ second \in Activity /\ ends \in Activity
    BY <1>1, <2>1, ActivityUpdates DEF Pc
  <2>4. a.op \in {"analysis", "worker"} => Sound(commits)
    BY <1>1, <2>1 DEF Sound, Activity, WritesHandoffBack
  <2>5. a.op = "identity" => Sound(second)
    BY <1>1, <2>1 DEF Sound, Activity
  <2>6. Sound(ends)
    BY <1>1, <2>1 DEF Sound, Activity
  <2> HIDE DEF commits, second, ends
  <2> QED BY <2>2, <2>3, <2>4, <2>5, <2>6, GotoInductive
<1>3. CASE ReadHandoff(h)
  <2>1. a # None
    BY <1>3 DEF ReadHandoff
  <2> DEFINE next == [a EXCEPT !.pc = "commit", !.hand = handoff]
  <2>2. Goto(h, next) \/ Goto(h, None)
    BY <1>3 DEF ReadHandoff
  <2>3. next \in Activity
    BY <1>1, <2>1, ActivityUpdates DEF Pc
  <2>4. Sound(next)
    BY <1>1, <2>1 DEF Sound, Activity
  <2> HIDE DEF next
  <2> QED BY <2>2, <2>3, <2>4, GotoInductive
<1>4. CASE ReadForAttestation(h)
  <2>1. a # None
    BY <1>4 DEF ReadForAttestation
  <2> DEFINE ends  == [a EXCEPT !.pc = "complete"]
             reads == [a EXCEPT !.pc = "handoff", !.seen = passport]
             fails == [a EXCEPT !.pc = "failed"]
  <2>2. \/ Goto(h, ends)
        \/ Goto(h, reads) /\ passport.state = RequestState(a.arg)
        \/ Goto(h, fails)
        \/ Goto(h, None)
    BY <1>4 DEF ReadForAttestation
  <2>3. ends \in Activity /\ reads \in Activity /\ fails \in Activity
    BY <1>1, <2>1, ActivityUpdates DEF Pc
  <2>4. Sound(ends) /\ Sound(fails)
    BY <1>1, <2>1 DEF Sound, Activity
  <2>5. passport.state = RequestState(a.arg) => Sound(reads)
    <3>1. a.op = "reserve" => ReleasePolicy(a.seen) = "ALLOW_HANDOFF"
      BY <1>1, <2>1 DEF Sound
    <3>2. passport.state = RequestState(a.arg) => ReleasePolicy(passport) = "ALLOW_HANDOFF"
      BY DEF RequestState, IInv, ReleaseGates, Granted, Releasing
    <3> QED BY <1>1, <2>1, <3>1, <3>2 DEF Sound, Activity
  <2> HIDE DEF ends, reads, fails
  <2> QED BY <2>2, <2>3, <2>4, <2>5, GotoInductive
<1>5. CASE RelayFailed(h)
  <2>1. a # None /\ a.op = "relay"
    BY <1>5 DEF RelayFailed, At
  <2> DEFINE next == [a EXCEPT !.pc = "reconcile", !.seen = passport]
  <2>2. Goto(h, next) \/ Goto(h, None)
    BY <1>5 DEF RelayFailed
  <2>3. next \in Activity
    BY <1>1, <2>1, ActivityUpdates DEF Pc
  <2>4. Sound(next)
    BY <1>1, <2>1 DEF Sound, Activity
  <2> HIDE DEF next
  <2> QED BY <2>2, <2>3, <2>4, GotoInductive
<1>6. CASE RelayExecute(h)
  <2>1. a # None /\ a.op = "relay"
    BY <1>6 DEF RelayExecute, At
  <2>2. PICK pc \in {"attested", "failed"} : handler' = [handler EXCEPT ![h] = [a EXCEPT !.pc = pc]]
    BY <1>6 DEF RelayExecute
  <2> DEFINE next == [a EXCEPT !.pc = pc]
  <2>3. next \in Activity
    BY <1>1, <2>1, ActivityUpdates DEF Pc
  <2>4. Sound(next)
    BY <1>1, <2>1 DEF Sound, Activity
  <2>5. passport.state \in Granted /\ a.arg \in {"RESERVE", "RELEASE"}
    BY <1>1, <2>1 DEF Sound
  <2>6. remote' \subseteq {"RESERVE", "RELEASE"}
    BY <1>6, <2>5 DEF RelayExecute, IInv, TypeOK
  <2>7. outbox' \in [Kind -> OutboxRow] /\ UNCHANGED <<passport, handoff, tokens, log>>
    BY <1>6 DEF RelayExecute, data, IInv, TypeOK
  <2> HIDE DEF next
  <2> QED BY <2>2, <2>3, <2>4, <2>5, <2>6, <2>7, HandlerStep DEF next
<1>7. ASSUME NEW kind, NEW status \in {"COMPLETE", "FAILED"}, MarkOutbox(h, kind, status)
      PROVE  IInv'
  <2>1. outbox' \in [Kind -> OutboxRow]
    BY <1>7 DEF MarkOutbox, IInv, TypeOK, OutboxRow
  <2>2. /\ handler' = [handler EXCEPT ![h] = None] /\ remote' = remote
        /\ UNCHANGED <<passport, handoff, tokens, log>>
    BY <1>7 DEF MarkOutbox
  <2>3. remote \subseteq {"RESERVE", "RELEASE"} /\ (remote # {} => passport.state \in Granted)
    BY DEF IInv, TypeOK, GatesAhead
  <2> QED BY <2>1, <2>2, <2>3, HandlerStep
<1>8. CASE Abandon(h)
  BY <1>8, GotoInductive DEF Abandon
<1> QED
  BY <1>2, <1>3, <1>4, <1>5, <1>6, <1>7, <1>8 DEF Continue, MarkComplete, MarkFailed

-----------------------------------------------------------------------------
(* The commits *)

\* What Unwritten and its changes amount to.
LEMMA UnwrittenRecords ==
  ASSUME TypeOK
  PROVE  /\ Unwritten \in Records
         /\ PolicyKept(Unwritten.case)
BY DEF TypeOK, Unwritten, Records, PolicyKept

LEMMA OpensRow ==
  ASSUME TypeOK, NEW a \in Activity, NEW kind \in Kind
  PROVE  [outbox EXCEPT ![kind] = NewRow(a)] \in [Kind -> OutboxRow]
BY NewRowType DEF TypeOK

\* A handler that commits.
LEMMA Committing ==
  ASSUME IInv, NEW h \in Handler, handler[h] # None
  PROVE  handler[h] \in Activity /\ Sound(handler[h]) /\ TypeOK
BY HandlersSound DEF TypeOK

LEMMA CommitInductive ==
  ASSUME IInv, NEW h \in Handler, handler[h] # None,
         NEW name \in KeyName, NEW event \in EventType, NEW target \in CustodyState,
         MayLeadTo(handler[h], target),
         NEW w \in Records, PolicyKept(w.case),
         NEW next, GoesOn(handler[h], next),
         ApplyMutation(h, Mutation(name, handler[h], event, target), w, next)
  PROVE  IInv'
<1> DEFINE m == Mutation(name, handler[h], event, target)
<1>1. m.target = target /\ m.event \in EventType /\ m.key \in KeyName \X Source
  BY Committing, MutationFields
<1> HIDE DEF m
<1>2. ApplyMutation(h, m, w, next)
  BY DEF m
<1> QED BY <1>1, <1>2, Committing, MutationInductive

LEMMA FactInductive ==
  ASSUME IInv, NEW h \in Handler, handler[h] # None,
         NEW name \in KeyName, NEW event \in EventType,
         NEW w \in Records, PolicyKept(w.case),
         ApplyMutation(h, FactMutation(name, handler[h], event), w, None)
  PROVE  IInv'
<1> DEFINE a == handler[h]
           m == FactMutation(name, a, event)
<1>1. m.target = a.seen.state /\ m.event \in EventType /\ m.key \in KeyName \X Source
  BY Committing, ActivityFields DEF Mutation, FactMutation
<1>2. m.target \in CustodyState /\ MayLeadTo(a, m.target) /\ GoesOn(a, None)
  BY <1>1, Committing, ActivityFields DEF MayLeadTo, GoesOn
<1> HIDE DEF m
<1>3. ApplyMutation(h, m, w, None)
  BY DEF m
<1> QED BY <1>1, <1>2, <1>3, Committing, MutationInductive

LEMMA AnalysisCommits ==
  ASSUME IInv, NEW h \in Handler,
         PacketReady(h) \/ RequestAnalysis(h) \/ ProposeCandidates(h) \/ StopAnalysis(h)
           \/ AskPrivateQuestion(h)
  PROVE  IInv'
<1> DEFINE a == handler[h]
<1>1. a # None
  BY DEF At, PacketReady, RequestAnalysis, ProposeCandidates, StopAnalysis, AskPrivateQuestion
<1>2. a \in Activity /\ Sound(a) /\ TypeOK
  BY <1>1, Committing
<1>3. /\ GoesOn(a, None) /\ GoesOn(a, [a EXCEPT !.pc = "reread"])
      /\ GoesOn(a, [a EXCEPT !.pc = "complete"]) /\ GoesOn(a, [a EXCEPT !.pc = "fail"])
  BY DEF GoesOn
<1>4. \A target \in CustodyState \ {"EXPIRED", "RESERVE_REQUESTED"} : MayLeadTo(a, target)
  BY DEF MayLeadTo
<1>5. CASE PacketReady(h)
  <2>1. /\ "evidence-ready" \in KeyName /\ "EVIDENCE_PACKET_READY" \in EventType /\ "EVIDENCE_READY" \in CustodyState
        /\ MayLeadTo(a, "EVIDENCE_READY")
    BY <1>4 DEF KeyName, EventType, CustodyState
  <2>2. ApplyMutation(h, Mutation("evidence-ready", a, "EVIDENCE_PACKET_READY",
                                  "EVIDENCE_READY"), Unwritten, [a EXCEPT !.pc = "reread"])
    BY <1>5 DEF PacketReady
  <2> QED BY <1>1, <1>2, <1>3, <2>1, <2>2, UnwrittenRecords, CommitInductive
<1>6. CASE RequestAnalysis(h)
  <2> DEFINE w == [Unwritten EXCEPT !.outbox = [@ EXCEPT !["ANALYZE"] = NewRow(a)]]
  <2>1. w \in Records /\ PolicyKept(w.case)
    BY <1>2, OpensRow DEF TypeOK, Unwritten, Records, PolicyKept, Kind
  <2>2. ApplyMutation(h, Mutation("analyzing", a, "ANALYSIS_REQUESTED", "ANALYZING"), w, None)
    BY <1>6 DEF RequestAnalysis
  <2> HIDE DEF w
  <2>3. /\ "analyzing" \in KeyName /\ "ANALYSIS_REQUESTED" \in EventType /\ "ANALYZING" \in CustodyState
        /\ MayLeadTo(a, "ANALYZING")
    BY <1>4 DEF KeyName, EventType, CustodyState
  <2> QED BY <1>1, <1>3, <2>1, <2>2, <2>3, CommitInductive
<1>7. \A b \in BOOLEAN : /\ [Unwritten EXCEPT !.case.selected = b] \in Records
                         /\ PolicyKept([Unwritten EXCEPT !.case.selected = b].case)
  BY <1>2 DEF TypeOK, Unwritten, Records, PolicyKept, PassportRecord
<1>8. CASE ProposeCandidates(h)
  <2> DEFINE w == [Unwritten EXCEPT !.case.selected = TRUE]
  <2>1. ApplyMutation(h, Mutation("candidates-ready", a, "CANDIDATE_PACKET_PROPOSED",
                                  "CANDIDATES_READY"), w, [a EXCEPT !.pc = "reread"])
    BY <1>8 DEF ProposeCandidates
  <2>2. w \in Records /\ PolicyKept(w.case)
    BY <1>7
  <2> HIDE DEF w
  <2>3. /\ "candidates-ready" \in KeyName /\ "CANDIDATE_PACKET_PROPOSED" \in EventType /\ "CANDIDATES_READY" \in CustodyState
        /\ MayLeadTo(a, "CANDIDATES_READY")
    BY <1>4 DEF KeyName, EventType, CustodyState
  <2> QED BY <1>1, <1>3, <2>1, <2>2, <2>3, CommitInductive
<1>9. CASE StopAnalysis(h)
  <2> DEFINE w == [Unwritten EXCEPT !.case.selected = FALSE]
  <2>1. \/ ApplyMutation(h, Mutation("agent-abstained", a, "ANALYST_ABSTAINED",
                                     "MANUAL_REVIEW"), w, [a EXCEPT !.pc = "complete"])
        \/ ApplyMutation(h, Mutation("manual-review", a, "ANALYST_UNAVAILABLE",
                                     "MANUAL_REVIEW"), Unwritten, [a EXCEPT !.pc = "fail"])
    BY <1>9 DEF StopAnalysis
  <2>2. w \in Records /\ PolicyKept(w.case)
    BY <1>7
  <2> HIDE DEF w
  <2>3. /\ "agent-abstained" \in KeyName /\ "ANALYST_ABSTAINED" \in EventType /\ "MANUAL_REVIEW" \in CustodyState
        /\ MayLeadTo(a, "MANUAL_REVIEW")
    BY <1>4 DEF KeyName, EventType, CustodyState
  <2>4. /\ "manual-review" \in KeyName /\ "ANALYST_UNAVAILABLE" \in EventType /\ "MANUAL_REVIEW" \in CustodyState
        /\ MayLeadTo(a, "MANUAL_REVIEW")
    BY <1>4 DEF KeyName, EventType, CustodyState
  <2>5. CASE ApplyMutation(h, Mutation("agent-abstained", a, "ANALYST_ABSTAINED",
                                       "MANUAL_REVIEW"), w, [a EXCEPT !.pc = "complete"])
    BY <1>1, <1>3, <2>2, <2>3, <2>5, CommitInductive
  <2>6. CASE ApplyMutation(h, Mutation("manual-review", a, "ANALYST_UNAVAILABLE",
                                       "MANUAL_REVIEW"), Unwritten, [a EXCEPT !.pc = "fail"])
    BY <1>1, <1>2, <1>3, <2>4, <2>6, UnwrittenRecords, CommitInductive
  <2> QED BY <2>1, <2>5, <2>6
<1>10. CASE AskPrivateQuestion(h)
  <2>1. /\ "clarification-required" \in KeyName /\ "PRIVATE_EVIDENCE_REQUESTED" \in EventType /\ "CLARIFICATION_REQUIRED" \in CustodyState
        /\ MayLeadTo(a, "CLARIFICATION_REQUIRED")
    BY <1>4 DEF KeyName, EventType, CustodyState
  <2>2. ApplyMutation(h, Mutation("clarification-required", a, "PRIVATE_EVIDENCE_REQUESTED",
                                  "CLARIFICATION_REQUIRED"),
                      Unwritten, [a EXCEPT !.pc = "reread"])
    BY <1>10 DEF AskPrivateQuestion
  <2> QED BY <1>1, <1>2, <1>3, <2>1, <2>2, UnwrittenRecords, CommitInductive
<1> QED BY <1>5, <1>6, <1>8, <1>9, <1>10

LEMMA GateCommits ==
  ASSUME IInv, NEW h \in Handler,
         CommitIdentity(h) \/ RequireApproval(h) \/ CommitApproval(h) \/ CommitReservation(h)
  PROVE  IInv'
<1> DEFINE a == handler[h]
<1>1. a # None
  BY DEF At, CommitIdentity, RequireApproval, CommitApproval, CommitReservation
<1>2. a \in Activity /\ Sound(a) /\ TypeOK
  BY <1>1, Committing
<1>3. GoesOn(a, None) /\ GoesOn(a, [a EXCEPT !.pc = "reread"])
  BY DEF GoesOn
<1>4. \A target \in CustodyState \ {"EXPIRED", "RESERVE_REQUESTED"} : MayLeadTo(a, target)
  BY DEF MayLeadTo
<1>5. CASE CommitIdentity(h)
  <2> DEFINE w == [Unwritten EXCEPT !.case.identity = TRUE]
  <2>1. ApplyMutation(h, Mutation("attested", a, "IDENTITY_ATTESTED", "IDENTITY_ATTESTED"),
                      w, [a EXCEPT !.pc = "reread"])
    BY <1>5 DEF CommitIdentity
  <2>2. w \in Records /\ PolicyKept(w.case)
    BY <1>2 DEF TypeOK, Unwritten, Records, PolicyKept, PassportRecord
  <2> HIDE DEF w
  <2>3. /\ "attested" \in KeyName /\ "IDENTITY_ATTESTED" \in EventType /\ "IDENTITY_ATTESTED" \in CustodyState
        /\ MayLeadTo(a, "IDENTITY_ATTESTED")
    BY <1>4 DEF KeyName, EventType, CustodyState
  <2> QED BY <1>1, <1>3, <2>1, <2>2, <2>3, CommitInductive
<1>6. CASE RequireApproval(h)
  <2>1. /\ "approval-required" \in KeyName /\ "SUPERVISOR_APPROVAL_REQUIRED" \in EventType /\ "APPROVAL_REQUIRED" \in CustodyState
        /\ MayLeadTo(a, "APPROVAL_REQUIRED")
    BY <1>4 DEF KeyName, EventType, CustodyState
  <2>2. ApplyMutation(h, Mutation("approval-required", a, "SUPERVISOR_APPROVAL_REQUIRED",
                                  "APPROVAL_REQUIRED"), Unwritten, None)
    BY <1>6 DEF RequireApproval
  <2> QED BY <1>1, <1>2, <1>3, <2>1, <2>2, UnwrittenRecords, CommitInductive
<1>7. CASE CommitApproval(h)
  <2> DEFINE w == [Unwritten EXCEPT !.case.approval = TRUE]
  <2>1. \/ ApplyMutation(h, FactMutation("approved", a, "SUPERVISOR_APPROVED"), w, None)
        \/ ApplyMutation(h, Mutation("rejected-by-supervisor", a, "SUPERVISOR_REJECTED",
                                     "REJECTED"), Unwritten, None)
    BY <1>7 DEF CommitApproval
  <2>2. w \in Records /\ PolicyKept(w.case)
    BY <1>2 DEF TypeOK, Unwritten, Records, PolicyKept, PassportRecord
  <2> HIDE DEF w
  <2>3. CASE ApplyMutation(h, FactMutation("approved", a, "SUPERVISOR_APPROVED"), w, None)
    <3>1. "approved" \in KeyName /\ "SUPERVISOR_APPROVED" \in EventType
      BY DEF KeyName, EventType
    <3> QED BY <1>1, <2>2, <2>3, <3>1, FactInductive
  <2>4. /\ "rejected-by-supervisor" \in KeyName /\ "SUPERVISOR_REJECTED" \in EventType /\ "REJECTED" \in CustodyState
        /\ MayLeadTo(a, "REJECTED")
    BY <1>4 DEF KeyName, EventType, CustodyState
  <2>5. CASE ApplyMutation(h, Mutation("rejected-by-supervisor", a, "SUPERVISOR_REJECTED",
                                       "REJECTED"), Unwritten, None)
    BY <1>1, <1>2, <1>3, <2>4, <2>5, UnwrittenRecords, CommitInductive
  <2> QED BY <2>1, <2>3, <2>5
<1>8. CASE CommitReservation(h)
  <2> DEFINE w == [Unwritten EXCEPT !.case.handoff = TRUE,
                                    !.handoff = [NoHandoff EXCEPT !.status = "PENDING"],
                                    !.outbox = [@ EXCEPT !["RESERVE"] = NewRow(a)]]
  <2>1. ApplyMutation(h, Mutation("reserve", a, "RELAY_RESERVATION_REQUESTED",
                                  "RESERVE_REQUESTED"), w, None)
    BY <1>8 DEF CommitReservation
  <2>2. [NoHandoff EXCEPT !.status = "PENDING"] \in HandoffRecord
    BY NoHandoffType DEF HandoffRecord, HandoffStatus
  <2>3. w \in Records /\ PolicyKept(w.case)
    BY <1>2, <2>2, OpensRow DEF TypeOK, Unwritten, Records, PolicyKept, PassportRecord, Kind
  <2> HIDE DEF w
  <2>4. MayLeadTo(a, "RESERVE_REQUESTED")
    BY <1>8 DEF CommitReservation, At, MayLeadTo
  <2>5. /\ "reserve" \in KeyName /\ "RELAY_RESERVATION_REQUESTED" \in EventType /\ "RESERVE_REQUESTED" \in CustodyState
    BY DEF KeyName, EventType, CustodyState
  <2> QED BY <1>1, <1>3, <2>1, <2>3, <2>4, <2>5, CommitInductive
<1> QED BY <1>5, <1>6, <1>7, <1>8

LEMMA HandoffCommits ==
  ASSUME IInv, NEW h \in Handler,
         CommitAttestation(h) \/ RequireReconciliation(h) \/ CommitTokens(h)
           \/ CommitRelease(h) \/ CommitClose(h)
  PROVE  IInv'
<1> DEFINE a == handler[h]
<1>1. a # None
  BY DEF At, CommitAttestation, RequireReconciliation, CommitTokens, CommitRelease, CommitClose
<1>2. a \in Activity /\ Sound(a) /\ TypeOK /\ a.hand \in HandoffRecord
  BY <1>1, Committing, ActivityFields
<1>3. /\ GoesOn(a, None) /\ GoesOn(a, [a EXCEPT !.pc = "complete"])
      /\ GoesOn(a, [a EXCEPT !.pc = "fail"])
  BY DEF GoesOn
<1>4. \A target \in CustodyState \ {"EXPIRED", "RESERVE_REQUESTED"} : MayLeadTo(a, target)
  BY DEF MayLeadTo
<1>5. CASE CommitAttestation(h)
  <2> DEFINE kind   == a.arg
             target == IF kind = "RESERVE" THEN "RESERVED" ELSE "RELEASED"
             status == IF kind = "RESERVE" THEN "HELD" ELSE "RELEASED"
             m == [Mutation("relay-attestation", a, OutcomeEvent(kind), target)
                     EXCEPT !.fp = IF kind = "RESERVE" THEN <<a.op, h>> ELSE <<a.op>>]
             w == [Unwritten EXCEPT !.handoff = [a.hand EXCEPT !.status = status]]
  <2>1. ApplyMutation(h, m, w, [a EXCEPT !.pc = "complete"])
    BY <1>5 DEF CommitAttestation
  <2>2. [a.hand EXCEPT !.status = status] \in HandoffRecord
    BY <1>2 DEF HandoffRecord, HandoffStatus
  <2>3. w \in Records /\ PolicyKept(w.case)
    BY <1>2, <2>2 DEF TypeOK, Unwritten, Records, PolicyKept
  <2>4. /\ "relay-attestation" \in KeyName /\ OutcomeEvent(kind) \in EventType
        /\ target \in CustodyState /\ target \notin {"EXPIRED", "RESERVE_REQUESTED"}
    BY DEF KeyName, EventType, CustodyState, OutcomeEvent
  <2> DEFINE plain == Mutation("relay-attestation", a, OutcomeEvent(kind), target)
  <2>5. m.target = target /\ m.event = OutcomeEvent(kind) /\ m.key = plain.key
    BY DEF Mutation
  <2>6. m.key \in KeyName \X Source
    <3>1. plain.key \in KeyName \X Source
      BY <1>2, <2>4, MutationFields
    <3> QED BY <2>5, <3>1
  <2>7. MayLeadTo(a, m.target)
    BY <2>4, <2>5 DEF MayLeadTo
  <2>8. m.target \in CustodyState /\ m.event \in EventType
    BY <2>4, <2>5
  <2> HIDE DEF m, w
  <2> QED BY <1>1, <1>2, <1>3, <2>1, <2>3, <2>6, <2>7, <2>8, MutationInductive
<1>6. CASE RequireReconciliation(h)
  <2>1. /\ "reconcile" \in KeyName /\ "RELAY_RECONCILIATION_REQUIRED" \in EventType
        /\ "RECONCILIATION_REQUIRED" \in CustodyState
        /\ MayLeadTo(a, "RECONCILIATION_REQUIRED")
    BY <1>4 DEF KeyName, EventType, CustodyState
  <2>2. ApplyMutation(h, Mutation("reconcile", a, "RELAY_RECONCILIATION_REQUIRED",
                                  "RECONCILIATION_REQUIRED"), Unwritten, [a EXCEPT !.pc = "fail"])
    BY <1>6 DEF RequireReconciliation
  <2> QED BY <1>1, <1>2, <1>3, <2>1, <2>2, UnwrittenRecords, CommitInductive
<1>7. CASE CommitTokens(h)
  <2> DEFINE w == [Unwritten EXCEPT !.handoff = [a.hand EXCEPT !.issued = TRUE],
                                    !.tokens = [p \in Purpose |-> "UNUSED"]]
  <2>1. ApplyMutation(h, FactMutation("tokens", a, "ONE_TIME_CREDENTIALS_ISSUED"), w, None)
    BY <1>7 DEF CommitTokens
  <2>2. [a.hand EXCEPT !.issued = TRUE] \in HandoffRecord
    BY <1>2 DEF HandoffRecord
  <2>3. w \in Records /\ PolicyKept(w.case)
    BY <1>2, <2>2 DEF TypeOK, Unwritten, Records, PolicyKept
  <2>4. "tokens" \in KeyName /\ "ONE_TIME_CREDENTIALS_ISSUED" \in EventType
    BY DEF KeyName, EventType
  <2> HIDE DEF w
  <2> QED BY <1>1, <2>1, <2>3, <2>4, FactInductive
<1>8. CASE CommitRelease(h)
  <2> DEFINE w == [Unwritten EXCEPT !.handoff = [a.hand EXCEPT !.confirmed = TRUE],
                                    !.outbox = [@ EXCEPT !["RELEASE"] = NewRow(a)]]
  <2>1. ApplyMutation(h, Mutation("release", a, "RELAY_RELEASE_REQUESTED", "RELEASE_REQUESTED"),
                      w, None)
    BY <1>8 DEF CommitRelease
  <2>2. [a.hand EXCEPT !.confirmed = TRUE] \in HandoffRecord
    BY <1>2 DEF HandoffRecord
  <2>3. w \in Records /\ PolicyKept(w.case)
    BY <1>2, <2>2, OpensRow DEF TypeOK, Unwritten, Records, PolicyKept, Kind
  <2>4. /\ "release" \in KeyName /\ "RELAY_RELEASE_REQUESTED" \in EventType
        /\ "RELEASE_REQUESTED" \in CustodyState /\ MayLeadTo(a, "RELEASE_REQUESTED")
    BY <1>4 DEF KeyName, EventType, CustodyState
  <2> HIDE DEF w
  <2> QED BY <1>1, <1>3, <2>1, <2>3, <2>4, CommitInductive
<1>9. CASE CommitClose(h)
  <2>1. /\ "close" \in KeyName /\ "ITEM_PASSPORT_CLOSED" \in EventType
        /\ "CLOSED" \in CustodyState /\ MayLeadTo(a, "CLOSED")
    BY <1>4 DEF KeyName, EventType, CustodyState
  <2>2. ApplyMutation(h, Mutation("close", a, "ITEM_PASSPORT_CLOSED", "CLOSED"), Unwritten, None)
    BY <1>9 DEF CommitClose
  <2> QED BY <1>1, <1>2, <1>3, <2>1, <2>2, UnwrittenRecords, CommitInductive
<1> QED BY <1>5, <1>6, <1>7, <1>8, <1>9

LEMMA TokenCommits ==
  ASSUME IInv, NEW h \in Handler, ConsumeToken(h)
  PROVE  IInv'
<1> DEFINE a == handler[h]
<1>1. a # None
  BY DEF At, ConsumeToken
<1>2. a \in Activity /\ Sound(a) /\ TypeOK /\ a.seen.state \in CustodyState /\ GoesOn(a, None)
  BY <1>1, Committing, ActivityFields DEF GoesOn
<1> DEFINE target == IF a.arg = "CLAIMANT" /\ a.seen.state = "RESERVED"
                     THEN "CLAIMANT_PRESENT" ELSE a.seen.state
           m == [Mutation("token-attest", a, "TOKEN_PRESENTED", target)
                   EXCEPT !.fact = (target = passport.state)]
           w == [Unwritten EXCEPT !.handoff.attested = [@ EXCEPT ![a.arg] = TRUE],
                                  !.tokens = [@ EXCEPT ![a.arg] = "USED"]]
<1>3. CASE Goto(h, None)
  BY <1>3, GotoInductive
<1>4. CASE ApplyMutation(h, m, w, None)
  <2>1. target \in CustodyState /\ MayLeadTo(a, target)
    BY <1>2 DEF MayLeadTo, CustodyState
  <2> DEFINE plain == Mutation("token-attest", a, "TOKEN_PRESENTED", target)
  <2>2. m.target = target /\ m.event = plain.event /\ m.key = plain.key
    BY DEF Mutation
  <2>3. m.event \in EventType /\ m.key \in KeyName \X Source
    <3>1. "token-attest" \in KeyName /\ "TOKEN_PRESENTED" \in EventType
      BY DEF KeyName, EventType
    <3>2. plain.event \in EventType /\ plain.key \in KeyName \X Source
      BY <1>2, <3>1, MutationFields
    <3> QED BY <2>2, <3>2
  <2>4. [handoff EXCEPT !.attested = [@ EXCEPT ![a.arg] = TRUE]] \in HandoffRecord
    BY <1>2 DEF TypeOK, HandoffRecord
  <2>5. [tokens EXCEPT ![a.arg] = "USED"] \in [Purpose -> {"ABSENT", "UNUSED", "USED"}]
    BY <1>2 DEF TypeOK
  <2>6. w \in Records /\ PolicyKept(w.case)
    BY <1>2, <2>4, <2>5 DEF TypeOK, Unwritten, Records, PolicyKept
  <2>7. m.target \in CustodyState /\ MayLeadTo(a, m.target)
    BY <2>1, <2>2
  <2> HIDE DEF m, w, target
  <2> QED BY <1>1, <1>2, <1>4, <2>3, <2>6, <2>7, MutationInductive
<1> QED BY <1>3, <1>4 DEF ConsumeToken

\* The batch of an answer: never empty, and it ends where no reservation is near.
ClaimStep == [name : KeyName, event : EventType, to : CustodyState]
AfterClaim == {"CLAIM_EVIDENCE_ACCEPTED", "CLARIFICATION_REQUIRED", "MANUAL_REVIEW"}

LEMMA ClaimStepsShape ==
  ASSUME NEW a
  PROVE  /\ ClaimSteps(a) \in Seq(ClaimStep)
         /\ Len(ClaimSteps(a)) \in Nat \ {0}
         /\ ClaimSteps(a)[Len(ClaimSteps(a))].to \in AfterClaim
<1> DEFINE S(name, event, to) == [name |-> name, event |-> event, to |-> to]
<1>1. /\ S("received", "PRIVATE_EVIDENCE_RECEIVED", "ANALYZING") \in ClaimStep
      /\ S("rechecked", "CANDIDATE_PACKET_RECHECKED", "CANDIDATES_READY") \in ClaimStep
      /\ S("accepted", "CLAIM_EVIDENCE_ACCEPTED", "CLAIM_EVIDENCE_ACCEPTED") \in ClaimStep
  BY DEF ClaimStep, KeyName, EventType, CustodyState
<1>2. /\ S("rejected", "CLAIM_EVIDENCE_REJECTED", "CLARIFICATION_REQUIRED") \in ClaimStep
      /\ S("attempt-limit", "CLAIM_ATTEMPT_LIMIT_REACHED", "ANALYZING") \in ClaimStep
      /\ S("claim-review", "MANUAL_REVIEW_REQUIRED", "MANUAL_REVIEW") \in ClaimStep
  BY DEF ClaimStep, KeyName, EventType, CustodyState
<1>3. CASE a.arg = "correct"
  BY <1>1, <1>3 DEF ClaimSteps, AfterClaim
<1>4. CASE a.arg # "correct"
  BY <1>2, <1>4 DEF ClaimSteps, AfterClaim
<1> QED BY <1>3, <1>4

LEMMA ClaimCommits ==
  ASSUME IInv, NEW h \in Handler, CommitClaimEvidence(h)
  PROVE  IInv'
<1> DEFINE a == handler[h]
           steps == ClaimSteps(a)
           n == Len(steps)
<1>1. a # None /\ a \in Activity /\ TypeOK
  BY Committing DEF At, CommitClaimEvidence
<1>2. /\ a.seen.wrong \in Nat /\ a.key \in Source
      /\ passport \in PassportRecord /\ passport.version \in Nat
      /\ passport.state \in CustodyState
  BY <1>1, ActivityFields DEF TypeOK, PassportRecord
<1>3. /\ handler' = [handler EXCEPT ![h] = None] /\ remote' = remote
      /\ handler \in [Handler -> Activity \cup {None}]
  BY <1>1 DEF CommitClaimEvidence, TypeOK
<1>4. CASE UNCHANGED data
  <2>1. Goto(h, None)
    BY <1>3, <1>4 DEF Goto
  <2> QED BY <2>1, GotoInductive
<1>5. CASE ~UNCHANGED data
  <2>1. /\ passport.state = "CLARIFICATION_REQUIRED"
        /\ \E c \in BOOLEAN, wrong \in Nat :
             passport' = [passport EXCEPT !.state = steps[n].to, !.version = @ + n,
                                          !.accepted = c, !.wrong = wrong]
        /\ UNCHANGED <<handoff, tokens, outbox>>
    <3>1. passport.accepted \in BOOLEAN /\ passport.wrong \in Nat
      BY <1>2 DEF PassportRecord
    <3>2. /\ passport.state = "CLARIFICATION_REQUIRED"
          /\ passport' = [passport EXCEPT !.state = steps[n].to, !.version = @ + n,
                !.accepted = @ \/ a.arg = "correct",
                !.wrong = IF a.arg = "correct" THEN @ ELSE a.seen.wrong + 1]
          /\ UNCHANGED <<handoff, tokens, outbox>>
      BY <1>5 DEF CommitClaimEvidence
    <3> DEFINE c == passport.accepted \/ a.arg = "correct"
               wrong == IF a.arg = "correct" THEN passport.wrong ELSE a.seen.wrong + 1
    <3>3. c \in BOOLEAN /\ wrong \in Nat
      BY <1>2, <3>1
    <3>4. passport' = [passport EXCEPT !.state = steps[n].to, !.version = @ + n,
                                       !.accepted = c, !.wrong = wrong]
      BY <3>2
    <3> HIDE DEF c, wrong
    <3> QED BY <3>2, <3>3, <3>4
  <2>2. log' = log \o [i \in 1..n |->
                 [event |-> steps[i].event,
                  from |-> IF i = 1 THEN passport.state ELSE steps[i - 1].to,
                  to |-> steps[i].to, key |-> <<steps[i].name, a.key>>]]
    BY <1>5 DEF CommitClaimEvidence
  <2>3. /\ steps \in Seq(ClaimStep) /\ n \in Nat \ {0} /\ steps[n].to \in AfterClaim
    BY ClaimStepsShape
  <2> HIDE DEF steps, n
  <2>4. /\ passport' \in PassportRecord /\ passport'.state \in AfterClaim
        /\ passport'.version = passport.version + n
    <3>1. PICK c \in BOOLEAN, wrong \in Nat :
             passport' = [passport EXCEPT !.state = steps[n].to, !.version = @ + n,
                                          !.accepted = c, !.wrong = wrong]
      BY <2>1
    <3>2. steps[n].to \in CustodyState /\ passport.version + n \in Nat
      BY <1>2, <2>3 DEF AfterClaim, CustodyState
    <3> DEFINE q == [passport EXCEPT !.state = steps[n].to, !.version = passport.version + n]
    <3>3. q \in PassportRecord
      BY <1>2, <3>2, PassportUpdate
    <3>4. /\ passport' = [q EXCEPT !.accepted = c, !.wrong = wrong]
          /\ q.state = steps[n].to /\ q.version = passport.version + n
      BY <1>2, <3>1 DEF PassportRecord
    <3> HIDE DEF q
    <3> QED BY <2>3, <3>3, <3>4 DEF PassportRecord
  <2>5. log' \in Seq(EventRecord)
    <3> DEFINE e(i) == [event |-> steps[i].event,
                        from |-> IF i = 1 THEN passport.state ELSE steps[i - 1].to,
                        to |-> steps[i].to, key |-> <<steps[i].name, a.key>>]
               batch == [i \in 1..n |-> e(i)]
    <3>1. n = Len(steps)
      BY DEF n
    <3>2. \A i \in 1..n : e(i) \in EventRecord
      <4>1. TAKE i \in 1..n
      <4>2. steps[i] \in ClaimStep
        BY <2>3, <3>1
      <4>3. i # 1 => steps[i - 1] \in ClaimStep
        BY <2>3, <3>1
      <4>4. <<steps[i].name, a.key>> \in KeyName \X Source
        BY <1>2, <4>2 DEF ClaimStep
      <4> QED BY <1>2, <4>2, <4>3, <4>4 DEF ClaimStep, EventRecord
    <3> HIDE DEF e
    <3>3. batch \in Seq(EventRecord)
      BY <2>3, <3>2
    <3>4. log' = log \o batch
      BY <2>2 DEF e
    <3> HIDE DEF batch
    <3> QED BY <1>1, <3>3, <3>4 DEF TypeOK
  <2>6. TypeOK'
    BY <1>1, <1>3, <2>1, <2>4, <2>5 DEF TypeOK
  <2>7. passport.state \notin Granted /\ passport'.state \notin Granted
    BY <2>1, <2>4 DEF Granted, Releasing, AfterClaim
  <2>8. remote = {} /\ \A g \in Handler : handler'[g] # None =>
                        handler'[g] = handler[g] /\ handler[g] # None /\ handler[g].op # "relay"
    BY <1>3, <2>7 DEF IInv, GatesAhead
  <2>9. ReleaseGates' /\ GatesAhead' /\ RelayArguments'
    BY <1>3, <2>7, <2>8 DEF IInv, ReleaseGates, GatesAhead, RelayArguments
  <2>10. SnapshotsCurrent'
    <3>1. \A g \in Handler : handler[g] # None => /\ handler[g].seen.version \in Nat
                                                  /\ handler[g].seen.version <= passport.version
      BY <1>1, ActivityFields DEF IInv, SnapshotsCurrent, TypeOK
    <3>2. \A g \in Handler : handler'[g] # None => handler'[g].seen.version < passport'.version
      BY <1>2, <2>3, <2>4, <2>8, <3>1
    <3>3. \A g \in Handler : handler'[g] # None => handler'[g].seen.version \in Nat
      BY <2>8, <3>1
    <3> QED BY <1>2, <2>3, <2>4, <3>2, <3>3 DEF SnapshotsCurrent
  <2> QED BY <2>6, <2>9, <2>10 DEF IInv
<1> QED BY <1>4, <1>5

LEMMA CommitsInductive ==
  ASSUME IInv, NEW h \in Handler, Commit(h)
  PROVE  IInv'
BY AnalysisCommits, GateCommits, HandoffCommits, TokenCommits, ClaimCommits DEF Commit

-----------------------------------------------------------------------------
(* The theorems *)

LEMMA InitInvariant == Init => IInv
<1> SUFFICES ASSUME Init PROVE IInv
  OBVIOUS
<1>1. passport \in PassportRecord /\ passport.state = "RECEIVED"
  BY DEF Init, PassportRecord, CustodyState, RiskTier
<1>2. log \in Seq(EventRecord)
  <2> DEFINE e == [event |-> "ITEM_PASSPORT_CREATED", from |-> "RECEIVED",
                   to |-> "RECEIVED", key |-> <<"create", "intake">>]
  <2>1. <<"create", "intake">> \in KeyName \X Source
    BY DEF KeyName, Source
  <2>2. e \in EventRecord
    BY <2>1 DEF EventRecord, EventType, CustodyState
  <2>3. log = <<e>>
    BY DEF Init
  <2> HIDE DEF e
  <2> QED BY <2>2, <2>3
<1>3. outbox \in [Kind -> OutboxRow] /\ tokens \in [Purpose -> {"ABSENT", "UNUSED", "USED"}]
  BY DEF Init, OutboxRow
<1>4. TypeOK
  BY <1>1, <1>2, <1>3, NoHandoffType DEF Init, TypeOK
<1>5. /\ remote = {} /\ \A h \in Handler : handler[h] = None
      /\ passport.state \notin Granted
  BY <1>1 DEF Init, Granted, Releasing
<1> QED BY <1>4, <1>5 DEF IInv, SnapshotsCurrent, GatesAhead, ReleaseGates, RelayArguments

LEMMA NextInvariant == IInv /\ [Next]_vars => IInv'
<1> SUFFICES ASSUME IInv, [Next]_vars PROVE IInv'
  OBVIOUS
<1>1. CASE Next
  BY <1>1, StartInductive, CommitsInductive, ContinueInductive DEF Next
<1>2. CASE UNCHANGED vars
  BY <1>2 DEF vars, data, IInv, TypeOK, SnapshotsCurrent, GatesAhead, ReleaseGates, RelayArguments
<1> QED BY <1>1, <1>2

LEMMA Invariant == Spec => []IInv
BY InitInvariant, NextInvariant, PTL DEF Spec

\* Every record the service stores keeps the shape its model declares, whatever
\* handlers overlap, repeat or stop (repository.py, apply_mutation).
THEOREM TypeCorrect == Spec => []TypeOK
BY Invariant, PTL DEF IInv

\* What the expected-version check of apply_mutation is worth: a snapshot that
\* passes it is the current case, and the handoff written back with it is the
\* current handoff, for any number of overlapping handlers.
THEOREM SnapshotsAreCurrent == Spec => []SnapshotsCurrent
BY Invariant, PTL DEF IInv

\* No reservation is requested and nothing is called at Relay Post for a case
\* that does not satisfy every gate of evaluate_release_policy now, although
\* begin_reservation evaluates the policy before its transaction.
THEOREM GatesHold == Spec => []ReleaseGates
BY Invariant, PTL DEF IInv

\* The decision comes first: every handler that is about to reserve decided on a
\* case with all gates, every worker that may call Relay Post serves a case
\* whose reservation was requested.
THEOREM GatesHoldAhead == Spec => []GatesAhead
BY Invariant, PTL DEF IInv
=============================================================================
