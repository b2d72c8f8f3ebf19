------------------------- MODULE CustodyHistoryProofs -------------------------
(***************************************************************************)
(* More proofs about ItemPassport, for any number of handlers and keys and *)
(* any limit of wrong answers: the event log is the history of the case,   *)
(* and case, handoff, credentials, outbox rows and relay agree with it.    *)
(* ItemPassportProofs shows that a transaction which is accepted finds the *)
(* case its handler read.  So each commit is one of a few steps of the     *)
(* records, which no longer mention what any handler read.                 *)
(***************************************************************************)
EXTENDS ItemPassportProofs, FiniteSetTheorems

FactEvents ==
  {"SUPERVISOR_APPROVED", "ONE_TIME_CREDENTIALS_ISSUED", "TOKEN_PRESENTED",
   "CLAIM_EVIDENCE_REJECTED"}

\* The key suffixes of the events of an answer, which share one receipt.
AnswerName ==
  {"received", "rechecked", "accepted", "rejected", "attempt-limit", "claim-review"}

\* The receipt that stands for the key of an event.
ReceiptKey(key) == IF key[1] \in AnswerName THEN <<"claim", key[2]>> ELSE key

\* Every event but the first was committed under a receipt.
KeysReceipted ==
  \A i \in DOMAIN log :
    log[i].key[1] = "create" \/ \E r \in receipts : r.key = ReceiptKey(log[i].key)

\* What a receipt lets a repeated step of a worker conclude.
ReceiptsTold ==
  \A r \in receipts :
    /\ r.key[1] = "relay-attestation" => Logged(OutcomeEvent(r.key[2]))
    /\ r.key[1] = "reconcile" => passport.state = "RECONCILIATION_REQUIRED"
    /\ r.key[1] = "agent-abstained" => Logged("ANALYST_ABSTAINED")
    /\ r.key[1] = "manual-review" => Logged("ANALYST_UNAVAILABLE")

\* What the state of the case says of the other records.
StateFits ==
  /\ passport.state = "CLARIFICATION_REQUIRED" => Logged("PRIVATE_EVIDENCE_REQUESTED")
  /\ passport.state = "CLAIM_EVIDENCE_ACCEPTED" => passport.accepted
  /\ passport.state \in {"IDENTITY_ATTESTED", "APPROVAL_REQUIRED"} =>
       passport.accepted /\ passport.identity
  /\ passport.state \notin Granted => handoff = NoHandoff
  /\ ~handoff.issued => \A p \in Purpose : tokens[p] = "ABSENT"
  /\ passport.state \notin Granted \ {"RESERVE_REQUESTED"} => ~Logged("RELAY_RESERVED")
  /\ passport.state \notin {"RELEASED", "CLOSED"} => ~Logged("RELAY_RELEASED")

\* The item is on its way out, or an operator has to look for it.
ReleaseUnderWay ==
  /\ passport.state \in Releasing \cup {"RECONCILIATION_REQUIRED"}
  /\ handoff.confirmed
  /\ BothAttested(handoff)

\* What a handler that has come so far knows.
Knows(a) ==
  /\ a.op = "approval" => a.seen.state = "APPROVAL_REQUIRED"
  /\ a.op = "tokens" => /\ a.seen.state = "RESERVED"
                        /\ a.pc = "commit" => ~a.hand.issued
  /\ a.op = "attest" => /\ a.seen.state \in {"RESERVED", "CLAIMANT_PRESENT"}
                        /\ a.arg \in Purpose
  /\ a.op = "release" /\ a.pc = "commit" => BothAttested(a.hand)
  /\ a.op \in {"relay", "callback"} =>
       /\ a.key = a.arg
       /\ a.arg = "RELEASE" => ReleaseUnderWay
       /\ a.pc \in {"attested", "handoff", "commit"} => a.arg \in remote
       /\ a.pc \in {"handoff", "commit"} => a.seen.state = RequestState(a.arg)
       /\ a.pc = "complete" => Logged(OutcomeEvent(a.arg))
       /\ a.pc = "fail" => passport.state = "RECONCILIATION_REQUIRED"
  /\ a.op = "worker" =>
       /\ a.arg = "ANALYZE"
       /\ a.pc = "complete" =>
            Logged("PRIVATE_EVIDENCE_REQUESTED") \/ Logged("ANALYST_ABSTAINED")
       /\ a.pc = "fail" => Logged("ANALYST_UNAVAILABLE")
  /\ a.pc \in {"complete", "fail"} => a.op \in {"worker", "relay", "callback"}
  /\ a.pc = "attested" => a.op \in {"relay", "callback"}

HandlersKnow == \A h \in Handler : handler[h] # None => Knows(handler[h])

RecordsFit ==
  /\ HandoffEvidence /\ RelayAgreement /\ OutboxTruth /\ WrongAnswersCounted /\ StateFits

HistoryInv ==
  /\ IInv
  /\ EventLedger /\ KeysReceipted /\ ReceiptsTold
  /\ RecordsFit
  /\ HandlersKnow

-----------------------------------------------------------------------------
(* The log *)

\* Events are told after the ones that were.
Grows(n) ==
  /\ log' \in Seq(EventRecord)
  /\ Len(log') = Len(log) + n
  /\ \A i \in 1..Len(log) : log'[i] = log[i]

Told(n) == Len(log) + 1 .. Len(log) + n

Count(event) == Cardinality(Occurrences(event))

\* A step that tells these events and no others.
Tells(events) ==
  \A event \in EventType :
    /\ Logged(event)' <=> Logged(event) \/ event \in events
    /\ Count(event)' = Count(event) + IF event \in events THEN 1 ELSE 0

LEMMA LogLength ==
  ASSUME TypeOK
  PROVE  Len(log) \in Nat /\ DOMAIN log = 1..Len(log)
BY DEF TypeOK

LEMMA OccurrencesFinite ==
  ASSUME TypeOK, NEW event
  PROVE  IsFiniteSet(Occurrences(event)) /\ Count(event) \in Nat
<1>1. Occurrences(event) \subseteq 1..Len(log) /\ Len(log) \in Nat
  BY LogLength DEF Occurrences
<1>2. IsFiniteSet(1..Len(log))
  BY <1>1, FS_Interval
<1>3. IsFiniteSet(Occurrences(event))
  BY <1>1, <1>2, FS_Subset
<1>4. QED BY <1>3, FS_CardinalityType DEF Count

LEMMA LoggedCounts ==
  ASSUME TypeOK, NEW event
  PROVE  Logged(event) <=> Count(event) # 0
<1>1. Logged(event) <=> Occurrences(event) # {}
  BY DEF Logged, Occurrences
<1>2. QED BY <1>1, OccurrencesFinite, FS_EmptySet DEF Count

LEMMA AppendGrows ==
  ASSUME TypeOK, NEW e \in EventRecord, log' = Append(log, e)
  PROVE  Grows(1) /\ log'[Len(log) + 1] = e
BY DEF TypeOK, Grows

\* A batch tells each event it holds, once.
LEMMA GrowsTells ==
  ASSUME TypeOK, NEW n \in Nat, Grows(n), NEW events,
         \A i \in Told(n) : log'[i].event \in events,
         \A event \in events : \E i \in Told(n) : log'[i].event = event,
         \A i, j \in Told(n) : log'[i].event = log'[j].event => i = j
  PROVE  Tells(events)
<1> SUFFICES ASSUME NEW event \in EventType
             PROVE  /\ Logged(event)' <=> Logged(event) \/ event \in events
                    /\ Count(event)' = Count(event) + IF event \in events THEN 1 ELSE 0
  BY DEF Tells
<1>1. /\ Len(log) \in Nat /\ DOMAIN log = 1..Len(log)
      /\ DOMAIN log' = 1..Len(log) + n
  BY LogLength DEF Grows
<1>2. DOMAIN log' = DOMAIN log \cup Told(n) /\ \A i \in DOMAIN log : i \notin Told(n)
  BY <1>1 DEF Told
<1>3. \A i \in DOMAIN log : log'[i].event = log[i].event
  BY <1>1 DEF Grows
<1>4. CASE event \notin events
  <2>1. Occurrences(event)' = Occurrences(event)
    BY <1>2, <1>3, <1>4 DEF Occurrences
  <2>2. Logged(event)' <=> Logged(event)
    BY <1>2, <1>3, <1>4 DEF Logged
  <2>3. Count(event) \in Nat
    BY OccurrencesFinite
  <2>4. QED BY <1>4, <2>1, <2>2, <2>3 DEF Count
<1>5. CASE event \in events
  <2>1. PICK i \in Told(n) : log'[i].event = event
    BY <1>5
  <2>2. \A j \in Told(n) : log'[j].event = event => j = i
    BY <2>1
  <2>3. Occurrences(event)' = Occurrences(event) \cup {i} /\ i \notin Occurrences(event)
    BY <1>2, <1>3, <2>1, <2>2 DEF Occurrences
  <2>4. IsFiniteSet(Occurrences(event))
    BY OccurrencesFinite
  <2>5. Count(event)' = Count(event) + 1
    BY <2>3, <2>4, FS_AddElement DEF Count
  <2>6. Logged(event)'
    BY <1>2, <2>1 DEF Logged
  <2>7. QED BY <1>5, <2>5, <2>6
<1>6. QED BY <1>4, <1>5

LEMMA SameTells ==
  ASSUME TypeOK, log' = log
  PROVE  Tells({})
<1>1. Grows(0) /\ Told(0) = {}
  BY LogLength DEF Grows, Told, TypeOK
<1>2. QED BY <1>1, GrowsTells

\* The log stays the history of the case when a batch continues it.
LEMMA LedgerGrows ==
  ASSUME TypeOK, EventLedger, NEW n \in Nat \ {0}, Grows(n),
         passport'.version = passport.version + n,
         log'[Len(log) + n].to = passport'.state,
         \A i \in Told(n) :
           /\ log'[i].from = IF i = Len(log) + 1 THEN passport.state ELSE log'[i - 1].to
           /\ TransitionAllowed(log'[i].from, log'[i].to, log'[i].event \in FactEvents)
           /\ \A j \in 1..Len(log) + n : log'[i].key = log'[j].key => i = j
  PROVE  EventLedger'
<1>1. /\ Len(log) \in Nat /\ DOMAIN log = 1..Len(log) /\ Len(log') = Len(log) + n
      /\ DOMAIN log' = 1..Len(log) + n
  BY LogLength DEF Grows
<1>2. Len(log) = passport.version /\ log[Len(log)].to = passport.state
  BY DEF EventLedger
<1>3. ASSUME NEW i \in 2..Len(log) + n
      PROVE  /\ log'[i].from = log'[i - 1].to
             /\ TransitionAllowed(log'[i].from, log'[i].to, log'[i].event \in FactEvents)
  <2>1. CASE i \in Told(n) /\ i # Len(log) + 1
    BY <2>1
  <2>2. CASE i = Len(log) + 1
    <3>1. i \in Told(n) /\ Len(log) \in 1..Len(log)
      BY <1>1, <2>2 DEF Told
    <3>2. log'[i - 1] = log[Len(log)]
      BY <1>1, <2>2, <3>1 DEF Grows
    <3>3. QED BY <1>2, <2>2, <3>1, <3>2
  <2>3. CASE i \in 2..Len(log)
    <3>1. log'[i] = log[i] /\ log'[i - 1] = log[i - 1]
      BY <1>1, <2>3 DEF Grows
    <3>2. QED BY <2>3, <3>1 DEF EventLedger, FactEvents
  <2>4. QED BY <1>1, <2>1, <2>2, <2>3 DEF Told
<1>4. ASSUME NEW i \in 1..Len(log) + n, NEW j \in 1..Len(log) + n, log'[i].key = log'[j].key
      PROVE  i = j
  <2>1. CASE i \in Told(n) \/ j \in Told(n)
    BY <1>4, <2>1
  <2>2. CASE i \in 1..Len(log) /\ j \in 1..Len(log)
    <3>1. log'[i] = log[i] /\ log'[j] = log[j]
      BY <2>2 DEF Grows
    <3>2. QED BY <1>1, <1>4, <2>2, <3>1 DEF EventLedger
  <2>3. QED BY <1>1, <2>1, <2>2 DEF Told
<1>5. Len(log)' = passport'.version
  BY <1>1, <1>2
<1>6. log'[Len(log')].to = passport'.state
  BY <1>1
<1>7. QED BY <1>1, <1>3, <1>4, <1>5, <1>6 DEF EventLedger, FactEvents

LEMMA ReceiptedGrows ==
  ASSUME TypeOK, KeysReceipted, NEW n \in Nat, Grows(n), receipts \subseteq receipts',
         \A i \in Told(n) : \E r \in receipts' : r.key = ReceiptKey(log'[i].key)
  PROVE  KeysReceipted'
<1> SUFFICES ASSUME NEW i \in DOMAIN log'
             PROVE  \/ log'[i].key[1] = "create"
                    \/ \E r \in receipts' : r.key = ReceiptKey(log'[i].key)
  BY DEF KeysReceipted, ReceiptKey
<1>1. /\ Len(log) \in Nat /\ DOMAIN log = 1..Len(log)
      /\ DOMAIN log' = 1..Len(log) + n
  BY LogLength DEF Grows
<1>2. CASE i \in Told(n)
  BY <1>2
<1>3. CASE i \in 1..Len(log)
  <2>1. log'[i] = log[i]
    BY <1>3 DEF Grows
  <2>2. QED BY <1>1, <1>3, <2>1 DEF KeysReceipted
<1>4. QED BY <1>1, <1>2, <1>3 DEF Told

\* A key without a receipt was not used by an event.
LEMMA FreshKey ==
  ASSUME TypeOK, KeysReceipted, NEW key, key[1] # "create",
         \A r \in receipts : r.key # ReceiptKey(key)
  PROVE  \A i \in 1..Len(log) : log[i].key # key
BY LogLength DEF KeysReceipted

-----------------------------------------------------------------------------
(* One event *)

\* A mutation is accepted: one event, its receipt, the next version.
Committed(event, to, key) ==
  /\ log' = Append(log, [event |-> event, from |-> passport.state, to |-> to, key |-> key])
  /\ passport'.state = to /\ passport'.version = passport.version + 1
  /\ TransitionAllowed(passport.state, to, event \in FactEvents)
  /\ \A r \in receipts : r.key # key
  /\ \E fp : receipts' = receipts \cup {[key |-> key, fp |-> fp]}
  /\ remote' = remote

LEMMA CommittedHistory ==
  ASSUME TypeOK, EventLedger, KeysReceipted,
         NEW event \in EventType, NEW to \in CustodyState,
         NEW name \in KeyName \ (AnswerName \cup {"create"}), NEW k \in Source,
         Committed(event, to, <<name, k>>)
  PROVE  EventLedger' /\ KeysReceipted' /\ Tells({event})
<1> DEFINE key == <<name, k>>
           e == [event |-> event, from |-> passport.state, to |-> to, key |-> key]
<1>1. key[1] = name /\ key \in KeyName \X Source /\ ReceiptKey(key) = key
  BY DEF ReceiptKey
<1>2. e \in EventRecord
  BY <1>1 DEF EventRecord, TypeOK, PassportRecord
<1>3. /\ e.event = event /\ e.from = passport.state /\ e.to = to /\ e.key = key
      /\ log' = Append(log, e)
  BY DEF Committed
<1>4. \A r \in receipts : r.key # key
  BY DEF Committed
<1> HIDE DEF e, key
<1>5. Grows(1) /\ log'[Len(log) + 1] = e
  BY <1>2, <1>3, AppendGrows
<1>6. Told(1) = {Len(log) + 1} /\ Len(log) \in Nat
  BY LogLength DEF Told
<1>7. \A i \in 1..Len(log) : log[i].key # key
  BY <1>1, <1>4, FreshKey
<1>8. \A i \in Told(1) :
        /\ log'[i].from = IF i = Len(log) + 1 THEN passport.state ELSE log'[i - 1].to
        /\ TransitionAllowed(log'[i].from, log'[i].to, log'[i].event \in FactEvents)
        /\ \A j \in 1..Len(log) + 1 : log'[i].key = log'[j].key => i = j
  <2>1. TransitionAllowed(passport.state, to, event \in FactEvents)
    BY DEF Committed
  <2>2. \A j \in 1..Len(log) : log'[j] = log[j]
    BY <1>5 DEF Grows
  <2>3. QED BY <1>3, <1>5, <1>6, <1>7, <2>1, <2>2
<1>9. EventLedger'
  <2>1. passport'.version = passport.version + 1 /\ log'[Len(log) + 1].to = passport'.state
    BY <1>3, <1>5 DEF Committed
  <2>2. QED BY <1>5, <1>8, <2>1, LedgerGrows
<1>10. KeysReceipted'
  <2>1. /\ receipts \subseteq receipts'
        /\ \E r \in receipts' : r.key = key
    <3>1. PICK fp : receipts' = receipts \cup {[key |-> <<name, k>>, fp |-> fp]}
      BY DEF Committed
    <3>2. [key |-> <<name, k>>, fp |-> fp].key = key
      BY DEF key
    <3>3. QED BY <3>1, <3>2
  <2>2. \A i \in Told(1) : \E r \in receipts' : r.key = ReceiptKey(log'[i].key)
    BY <1>1, <1>3, <1>5, <1>6, <2>1
  <2>3. QED BY <1>5, <2>1, <2>2, ReceiptedGrows
<1>11. Tells({event})
  BY <1>3, <1>5, <1>6, GrowsTells
<1>12. QED BY <1>9, <1>10, <1>11

\* What the receipt of an event lets a repetition conclude is true after it.
LEMMA CommittedReceipts ==
  ASSUME ReceiptsTold, passport.state # "RECONCILIATION_REQUIRED",
         NEW event \in EventType, NEW to, NEW name, NEW k,
         Committed(event, to, <<name, k>>), Tells({event}),
         name = "relay-attestation" => event = OutcomeEvent(k),
         name = "reconcile" => to = "RECONCILIATION_REQUIRED",
         name = "agent-abstained" => event = "ANALYST_ABSTAINED",
         name = "manual-review" => event = "ANALYST_UNAVAILABLE"
  PROVE  ReceiptsTold'
<1>1. \A r \in receipts' : r \in receipts \/ r.key = <<name, k>>
  BY DEF Committed
<1>2. \A e \in EventType : (Logged(e) => Logged(e)') /\ (e = event => Logged(e)')
  BY DEF Tells
<1>3. /\ "ANALYST_ABSTAINED" \in EventType /\ "ANALYST_UNAVAILABLE" \in EventType
      /\ \A kind : OutcomeEvent(kind) \in EventType
  BY DEF EventType, OutcomeEvent
<1>4. passport'.state = to
  BY DEF Committed
<1> SUFFICES ASSUME NEW r \in receipts'
             PROVE  /\ r.key[1] = "relay-attestation" => Logged(OutcomeEvent(r.key[2]))'
                    /\ r.key[1] = "reconcile" => passport'.state = "RECONCILIATION_REQUIRED"
                    /\ r.key[1] = "agent-abstained" => Logged("ANALYST_ABSTAINED")'
                    /\ r.key[1] = "manual-review" => Logged("ANALYST_UNAVAILABLE")'
  BY DEF ReceiptsTold, OutcomeEvent
<1>5. CASE r \in receipts
  BY <1>2, <1>3, <1>5 DEF ReceiptsTold
<1>6. CASE r.key = <<name, k>>
  <2>1. r.key[1] = name /\ r.key[2] = k
    BY <1>6
  <2>2. QED BY <1>2, <1>3, <1>4, <2>1
<1>7. QED BY <1>1, <1>5, <1>6

\* What handlers know stays true.
Forward ==
  /\ remote \subseteq remote'
  /\ \A event \in EventType : Logged(event) => Logged(event)'
  /\ passport.state = "RECONCILIATION_REQUIRED" => passport'.state = passport.state
  /\ ReleaseUnderWay => ReleaseUnderWay'

RecordsKept ==
  EventLedger' /\ KeysReceipted' /\ ReceiptsTold' /\ RecordsFit' /\ Forward

SameClaim ==
  /\ passport'.risk = passport.risk /\ passport'.wrong = passport.wrong
  /\ passport'.accepted = passport.accepted
  /\ passport'.identity = passport.identity /\ passport'.approval = passport.approval

OnlyOpens(kind) ==
  /\ \A other \in Kind \ {kind} : outbox'[other] = outbox[other]
  /\ outbox'[kind].status = "OPEN"

LEMMA EventNames ==
  /\ {"TOKEN_PRESENTED", "CLAIM_EVIDENCE_REJECTED", "RELAY_RESERVED", "RELAY_RELEASED",
      "PRIVATE_EVIDENCE_REQUESTED", "ANALYST_ABSTAINED", "ANALYST_UNAVAILABLE",
      "RELAY_RESERVATION_REQUESTED", "RELAY_RECONCILIATION_REQUIRED",
      "ONE_TIME_CREDENTIALS_ISSUED", "RELAY_RELEASE_REQUESTED",
      "ITEM_PASSPORT_CLOSED"} \subseteq EventType
  /\ OutcomeEvent("RESERVE") = "RELAY_RESERVED" /\ OutcomeEvent("RELEASE") = "RELAY_RELEASED"
BY DEF EventType, OutcomeEvent

\* The outcomes of rows that are left as they are stay true.
LEMMA RowsStay ==
  ASSUME TypeOK, OutboxTruth, NEW events, Tells(events),
         "RELAY_RESERVED" \notin events, "RELAY_RELEASED" \notin events,
         \A kind \in Kind : outbox'[kind] = outbox[kind] \/ outbox'[kind].status = "OPEN",
         passport.state = "RECONCILIATION_REQUIRED" => passport'.state = passport.state
  PROVE  OutboxTruth'
<1>1. /\ (Logged("PRIVATE_EVIDENCE_REQUESTED") => Logged("PRIVATE_EVIDENCE_REQUESTED")')
      /\ (Logged("ANALYST_ABSTAINED") => Logged("ANALYST_ABSTAINED")')
      /\ (Logged("ANALYST_UNAVAILABLE") => Logged("ANALYST_UNAVAILABLE")')
  BY EventNames DEF Tells
<1>2. ASSUME NEW kind \in {"RESERVE", "RELEASE"}
      PROVE  /\ (Logged(OutcomeEvent(kind)) => Logged(OutcomeEvent(kind))')
             /\ Count(OutcomeEvent(kind))' = Count(OutcomeEvent(kind)) + 0
  BY EventNames DEF Tells
<1>3. "ANALYZE" \in Kind /\ {"RESERVE", "RELEASE"} \subseteq Kind
  BY DEF Kind
<1>4. ASSUME NEW kind \in {"RESERVE", "RELEASE"}
      PROVE  /\ outbox'[kind].status = "COMPLETE" => Logged(OutcomeEvent(kind))'
             /\ outbox'[kind].status = "FAILED" => passport'.state = "RECONCILIATION_REQUIRED"
             /\ Cardinality(Occurrences(OutcomeEvent(kind)))' <= 1
  <2>1. outbox'[kind] = outbox[kind] \/ outbox'[kind].status = "OPEN"
    BY <1>3
  <2>2. Count(OutcomeEvent(kind))' = Count(OutcomeEvent(kind))
    BY <1>2, OccurrencesFinite
  <2>3. Count(OutcomeEvent(kind)) <= 1
    BY DEF OutboxTruth, Count
  <2>4. Cardinality(Occurrences(OutcomeEvent(kind)))' <= 1
    BY <2>2, <2>3 DEF Count
  <2>5. /\ outbox[kind].status = "COMPLETE" => Logged(OutcomeEvent(kind))
        /\ outbox[kind].status = "FAILED" => passport.state = "RECONCILIATION_REQUIRED"
    BY DEF OutboxTruth
  <2>6. QED BY <1>2, <2>1, <2>4, <2>5
<1>5. /\ outbox'["ANALYZE"].status = "COMPLETE" =>
           Logged("PRIVATE_EVIDENCE_REQUESTED")' \/ Logged("ANALYST_ABSTAINED")'
      /\ outbox'["ANALYZE"].status = "FAILED" => Logged("ANALYST_UNAVAILABLE")'
  BY <1>1, <1>3 DEF OutboxTruth
<1>6. QED BY <1>4, <1>5 DEF OutboxTruth, OutcomeEvent

LEMMA RowsKept ==
  ASSUME TypeOK, OutboxTruth, NEW event \in EventType, Tells({event}),
         event \notin {"RELAY_RESERVED", "RELAY_RELEASED"},
         \A kind \in Kind : outbox'[kind] = outbox[kind] \/ outbox'[kind].status = "OPEN",
         passport.state = "RECONCILIATION_REQUIRED" => passport'.state = passport.state
  PROVE  OutboxTruth'
BY RowsStay

\* The counts behind the credentials and the answers.
LEMMA CountsKept ==
  ASSUME TypeOK, NEW event \in EventType, Tells({event})
  PROVE  /\ event # "TOKEN_PRESENTED" =>
              Count("TOKEN_PRESENTED")' = Count("TOKEN_PRESENTED")
         /\ event # "CLAIM_EVIDENCE_REJECTED" =>
              Count("CLAIM_EVIDENCE_REJECTED")' = Count("CLAIM_EVIDENCE_REJECTED")
         /\ Count("TOKEN_PRESENTED") \in Nat
         /\ event = "TOKEN_PRESENTED" =>
              Count("TOKEN_PRESENTED")' = Count("TOKEN_PRESENTED") + 1
BY EventNames, OccurrencesFinite DEF Tells

-----------------------------------------------------------------------------
(* The steps of the records *)

\* A step before a reservation is requested, other than an answer.
DecidesOn(event, name, to) ==
  /\ event \notin {"TOKEN_PRESENTED", "CLAIM_EVIDENCE_REJECTED", "RELAY_RESERVED", "RELAY_RELEASED"}
  /\ name \notin AnswerName \cup {"create", "relay-attestation", "reconcile"}
  /\ name = "agent-abstained" => event = "ANALYST_ABSTAINED"
  /\ name = "manual-review" => event = "ANALYST_UNAVAILABLE"
  /\ to \notin Granted \cup {"CLAIM_EVIDENCE_ACCEPTED"}
  /\ to = "CLARIFICATION_REQUIRED" => event = "PRIVATE_EVIDENCE_REQUESTED"
  /\ to = "APPROVAL_REQUIRED" => passport.state \in {"IDENTITY_ATTESTED", "APPROVAL_REQUIRED"}
  /\ to = "IDENTITY_ATTESTED" =>
       passport.state = "CLAIM_EVIDENCE_ACCEPTED" /\ passport'.identity

\* The gates a step may establish.
Attests(to) ==
  \/ passport'.identity = passport.identity /\ passport'.approval = passport.approval
  \/ /\ passport.state = "CLAIM_EVIDENCE_ACCEPTED" /\ to = "IDENTITY_ATTESTED"
     /\ passport'.identity /\ passport'.approval = passport.approval
  \/ /\ passport.state = "APPROVAL_REQUIRED" /\ to = "APPROVAL_REQUIRED"
     /\ passport'.approval /\ passport'.identity = passport.identity

Decides ==
  \E event \in EventType, name \in KeyName, to \in CustodyState, k \in Source :
    /\ Committed(event, to, <<name, k>>)
    /\ passport.state \notin Granted \cup Stopped
    /\ DecidesOn(event, name, to)
    /\ passport'.risk = passport.risk /\ passport'.wrong = passport.wrong
    /\ passport'.accepted = passport.accepted
    /\ Attests(to)
    /\ UNCHANGED <<handoff, tokens>>
    /\ \A kind \in Kind : outbox'[kind] = outbox[kind] \/ outbox'[kind].status = "OPEN"

\* No relay effect and no credential before a reservation is requested.
LEMMA BeforeRequest ==
  ASSUME HistoryInv, passport.state \notin Granted
  PROVE  /\ remote = {} /\ handoff = NoHandoff
         /\ ~handoff.issued /\ ~handoff.confirmed
         /\ \A p \in Purpose : ~handoff.attested[p] /\ tokens[p] = "ABSENT"
         /\ ~ReleaseUnderWay
BY DEF HistoryInv, IInv, GatesAhead, RecordsFit, StateFits, NoHandoff, Granted, Releasing,
       ReleaseUnderWay

LEMMA InvParts ==
  ASSUME HistoryInv
  PROVE  /\ IInv /\ TypeOK /\ EventLedger /\ KeysReceipted /\ ReceiptsTold
         /\ HandoffEvidence /\ RelayAgreement /\ OutboxTruth /\ WrongAnswersCounted /\ StateFits
BY DEF HistoryInv, IInv, RecordsFit

LEMMA DecidesKeeps ==
  ASSUME HistoryInv, Decides
  PROVE  RecordsKept
<1> PICK event \in EventType, name \in KeyName, to \in CustodyState, k \in Source :
      /\ Committed(event, to, <<name, k>>)
      /\ passport.state \notin Granted \cup Stopped
      /\ DecidesOn(event, name, to)
      /\ passport'.risk = passport.risk /\ passport'.wrong = passport.wrong
      /\ passport'.accepted = passport.accepted
      /\ Attests(to)
      /\ UNCHANGED <<handoff, tokens>>
      /\ \A kind \in Kind : outbox'[kind] = outbox[kind] \/ outbox'[kind].status = "OPEN"
  BY DEF Decides
<1>1. /\ event \notin {"TOKEN_PRESENTED", "CLAIM_EVIDENCE_REJECTED", "RELAY_RESERVED", "RELAY_RELEASED"}
      /\ to \notin Granted \cup {"CLAIM_EVIDENCE_ACCEPTED"}
  BY DEF DecidesOn
<1>2. EventLedger' /\ KeysReceipted' /\ Tells({event})
  BY InvParts, CommittedHistory DEF DecidesOn
<1>3. ReceiptsTold'
  BY <1>2, InvParts, CommittedReceipts DEF DecidesOn, Stopped
<1>4. /\ passport'.state = to /\ remote' = remote /\ remote = {}
      /\ passport.state # "RECONCILIATION_REQUIRED"
  BY BeforeRequest DEF Committed, Stopped
<1>5. \A e \in EventType : (Logged(e) => Logged(e)') /\ (Logged(e)' => Logged(e) \/ e = event)
  BY <1>2 DEF Tells
<1>6. HandoffEvidence'
  <2>1. ReleaseEvidenced'
    BY <1>1, <1>4 DEF ReleaseEvidenced, Granted
  <2>2. AttestationsMatchTokens'
    <3>1. Count("TOKEN_PRESENTED")' = Count("TOKEN_PRESENTED")
      BY <1>1, <1>2, InvParts, CountsKept
    <3>2. AttestationsMatchTokens
      BY InvParts DEF HandoffEvidence
    <3>3. handoff' = handoff /\ tokens' = tokens
      OBVIOUS
    <3>4. QED BY <3>1, <3>2, <3>3 DEF AttestationsMatchTokens, Count
  <2>3. QED BY <2>1, <2>2 DEF HandoffEvidence
<1>7. RelayAgreement'
  BY <1>1, <1>4 DEF RelayAgreement, Granted, Releasing
<1>8. OutboxTruth'
  BY <1>1, <1>2, <1>4, InvParts, RowsKept
<1>9. WrongAnswersCounted'
  <2>1. Count("CLAIM_EVIDENCE_REJECTED")' = Count("CLAIM_EVIDENCE_REJECTED")
    BY <1>1, <1>2, InvParts, CountsKept
  <2>2. ~(passport.wrong > WrongAnswerLimit) /\ passport.wrong = Count("CLAIM_EVIDENCE_REJECTED")
    BY InvParts DEF WrongAnswersCounted, Stopped, Count
  <2>3. QED BY <2>1, <2>2 DEF WrongAnswersCounted, Count
<1>10. StateFits'
  <2>1. to = "CLARIFICATION_REQUIRED" => Logged("PRIVATE_EVIDENCE_REQUESTED")'
    BY <1>2, EventNames DEF DecidesOn, Tells
  <2>2. to \in {"IDENTITY_ATTESTED", "APPROVAL_REQUIRED"} => passport'.accepted /\ passport'.identity
    BY InvParts DEF StateFits, DecidesOn, Attests
  <2>3. ~Logged("RELAY_RESERVED")' /\ ~Logged("RELAY_RELEASED")'
    <3>1. ~Logged("RELAY_RESERVED") /\ ~Logged("RELAY_RELEASED")
      BY InvParts DEF StateFits, Granted, Releasing
    <3>2. QED BY <1>1, <1>5, <3>1, EventNames
  <2>4. handoff' = NoHandoff /\ \A p \in Purpose : tokens'[p] = "ABSENT"
    BY BeforeRequest
  <2>5. QED BY <1>1, <1>4, <2>1, <2>2, <2>3, <2>4 DEF StateFits
<1>11. Forward
  BY <1>4, <1>5, BeforeRequest DEF Forward
<1>12. QED
  BY <1>2, <1>3, <1>6, <1>7, <1>8, <1>9, <1>10, <1>11 DEF RecordsKept, RecordsFit

\* The steps from the reservation request on change no part of the claim.
LEMMA CustodyCommitted ==
  ASSUME HistoryInv, NEW event \in EventType \ {"CLAIM_EVIDENCE_REJECTED"},
         NEW name \in {"reserve", "relay-attestation", "reconcile", "tokens", "token-attest",
                       "release", "close"},
         NEW k \in Source, NEW to \in CustodyState,
         Committed(event, to, <<name, k>>), SameClaim,
         passport.state \notin Stopped,
         name = "relay-attestation" => event = OutcomeEvent(k),
         name = "reconcile" => to = "RECONCILIATION_REQUIRED"
  PROVE  /\ EventLedger' /\ KeysReceipted' /\ ReceiptsTold' /\ Tells({event})
         /\ WrongAnswersCounted'
         /\ passport'.state = to /\ remote' = remote
         /\ \A e \in EventType : (Logged(e) => Logged(e)') /\ (Logged(e)' => Logged(e) \/ e = event)
<1>1. name \in KeyName \ (AnswerName \cup {"create"})
  BY DEF KeyName, AnswerName
<1>2. EventLedger' /\ KeysReceipted' /\ Tells({event})
  BY <1>1, InvParts, CommittedHistory
<1>3. ReceiptsTold'
  BY <1>2, InvParts, CommittedReceipts DEF Stopped
<1>4. WrongAnswersCounted'
  <2>1. Count("CLAIM_EVIDENCE_REJECTED")' = Count("CLAIM_EVIDENCE_REJECTED")
    BY <1>2, InvParts, CountsKept
  <2>2. ~(passport.wrong > WrongAnswerLimit) /\ passport.wrong = Count("CLAIM_EVIDENCE_REJECTED")
    BY InvParts DEF WrongAnswersCounted, Stopped, Count
  <2>3. QED BY <2>1, <2>2 DEF WrongAnswersCounted, Count, SameClaim
<1>5. \A e \in EventType : (Logged(e) => Logged(e)') /\ (Logged(e)' => Logged(e) \/ e = event)
  BY <1>2 DEF Tells
<1>6. QED BY <1>2, <1>3, <1>4, <1>5 DEF Committed

\* begin_reservation commits.
Requests ==
  \E k \in Source :
    /\ Committed("RELAY_RESERVATION_REQUESTED", "RESERVE_REQUESTED", <<"reserve", k>>)
    /\ passport.state \in {"IDENTITY_ATTESTED", "APPROVAL_REQUIRED"}
    /\ ReleasePolicy(passport) = "ALLOW_HANDOFF"
    /\ SameClaim
    /\ handoff' = [NoHandoff EXCEPT !.status = "PENDING"] /\ tokens' = tokens
    /\ OnlyOpens("RESERVE")

LEMMA RequestsKeeps ==
  ASSUME HistoryInv, Requests
  PROVE  RecordsKept
<1> PICK k \in Source :
      /\ Committed("RELAY_RESERVATION_REQUESTED", "RESERVE_REQUESTED", <<"reserve", k>>)
      /\ passport.state \in {"IDENTITY_ATTESTED", "APPROVAL_REQUIRED"}
      /\ SameClaim
      /\ handoff' = [NoHandoff EXCEPT !.status = "PENDING"] /\ tokens' = tokens
      /\ OnlyOpens("RESERVE")
  BY DEF Requests
<1> DEFINE event == "RELAY_RESERVATION_REQUESTED"
<1>1. /\ event \in EventType \ {"CLAIM_EVIDENCE_REJECTED"} /\ "RESERVE_REQUESTED" \in CustodyState
      /\ event \notin {"RELAY_RESERVED", "RELAY_RELEASED", "TOKEN_PRESENTED"}
      /\ passport.state \notin Granted \cup Stopped
  BY DEF EventType, CustodyState, Granted, Releasing, Stopped
<1>2. /\ EventLedger' /\ KeysReceipted' /\ ReceiptsTold' /\ Tells({event}) /\ WrongAnswersCounted'
      /\ passport'.state = "RESERVE_REQUESTED" /\ remote' = remote
      /\ \A e \in EventType : (Logged(e) => Logged(e)') /\ (Logged(e)' => Logged(e) \/ e = event)
  BY <1>1, CustodyCommitted
<1>3. /\ remote = {} /\ ~ReleaseUnderWay
      /\ \A p \in Purpose : tokens[p] = "ABSENT"
  BY <1>1, BeforeRequest
<1>4. \A p \in Purpose : ~handoff'.attested[p]
  BY DEF NoHandoff
<1>5. HandoffEvidence'
  <2>1. ReleaseEvidenced'
    BY <1>2, <1>3 DEF ReleaseEvidenced, Releasing
  <2>2. Count("TOKEN_PRESENTED")' = Count("TOKEN_PRESENTED")
    BY <1>1, <1>2, InvParts, CountsKept
  <2>3. AttestationsMatchTokens
    BY InvParts DEF HandoffEvidence
  <2>4. AttestationsMatchTokens'
    BY <1>3, <1>4, <2>2, <2>3 DEF AttestationsMatchTokens, Count
  <2>5. QED BY <2>1, <2>4 DEF HandoffEvidence
<1>6. RelayAgreement'
  BY <1>2, <1>3 DEF RelayAgreement, Releasing
<1>7. OutboxTruth'
  BY <1>1, <1>2, InvParts, RowsKept DEF OnlyOpens, Stopped
<1>8. StateFits'
  <2>1. ~Logged("RELAY_RESERVED")' /\ ~Logged("RELAY_RELEASED")'
    <3>1. ~Logged("RELAY_RESERVED") /\ ~Logged("RELAY_RELEASED")
      BY <1>1, InvParts DEF StateFits, Granted, Releasing
    <3>2. QED BY <1>1, <1>2, <3>1, EventNames
  <2>2. "RESERVE_REQUESTED" \in Granted
    BY DEF Granted
  <2>3. QED BY <1>2, <1>3, <2>1, <2>2 DEF StateFits
<1>9. Forward
  BY <1>1, <1>2, <1>3 DEF Forward, Stopped
<1>10. QED
  BY <1>2, <1>5, <1>6, <1>7, <1>8, <1>9 DEF RecordsKept, RecordsFit

\* commit_relay_attestation commits what Relay Post did.
RelayActed(kind) ==
  /\ Committed(OutcomeEvent(kind), IF kind = "RESERVE" THEN "RESERVED" ELSE "RELEASED",
               <<"relay-attestation", kind>>)
  /\ passport.state = RequestState(kind)
  /\ kind \in remote /\ (kind = "RELEASE" => ReleaseUnderWay)
  /\ SameClaim
  /\ \E status : handoff' = [handoff EXCEPT !.status = status]
  /\ UNCHANGED <<tokens, outbox>>

LEMMA SamePresented ==
  ASSUME HistoryInv, handoff'.attested = handoff.attested, tokens' = tokens,
         Count("TOKEN_PRESENTED")' = Count("TOKEN_PRESENTED")
  PROVE  AttestationsMatchTokens'
<1>1. AttestationsMatchTokens
  BY InvParts DEF HandoffEvidence
<1>2. QED BY <1>1 DEF AttestationsMatchTokens, Count

LEMMA RelayActedKeeps ==
  ASSUME HistoryInv, NEW kind \in {"RESERVE", "RELEASE"}, RelayActed(kind)
  PROVE  RecordsKept
<1> DEFINE event == OutcomeEvent(kind)
           to == IF kind = "RESERVE" THEN "RESERVED" ELSE "RELEASED"
<1>1. /\ event \in EventType \ {"CLAIM_EVIDENCE_REJECTED", "TOKEN_PRESENTED"} /\ to \in CustodyState
      /\ event = IF kind = "RESERVE" THEN "RELAY_RESERVED" ELSE "RELAY_RELEASED"
      /\ kind \in Source /\ passport.state \notin Stopped
  BY DEF EventType, CustodyState, Stopped, RelayActed, RequestState, OutcomeEvent, Source, Kind
<1>2. Committed(event, to, <<"relay-attestation", kind>>) /\ SameClaim
  BY DEF RelayActed
<1>3. /\ EventLedger' /\ KeysReceipted' /\ ReceiptsTold' /\ Tells({event}) /\ WrongAnswersCounted'
      /\ passport'.state = to /\ remote' = remote
      /\ \A e \in EventType : (Logged(e) => Logged(e)') /\ (Logged(e)' => Logged(e) \/ e = event)
  <2> HIDE DEF event, to
  <2>1. QED BY <1>1, <1>2, CustodyCommitted DEF event
<1>4. /\ passport.state = IF kind = "RESERVE" THEN "RESERVE_REQUESTED" ELSE "RELEASE_REQUESTED"
      /\ kind \in remote /\ (kind = "RELEASE" => ReleaseUnderWay)
      /\ tokens' = tokens /\ outbox' = outbox
  BY DEF RelayActed, RequestState
<1>5. /\ handoff'.attested = handoff.attested /\ handoff'.confirmed = handoff.confirmed
      /\ handoff'.issued = handoff.issued
  BY InvParts DEF RelayActed, TypeOK, HandoffRecord
<1> HIDE DEF event
<1>6. HandoffEvidence'
  <2>1. ReleaseEvidenced'
    BY <1>3, <1>4, <1>5, InvParts DEF ReleaseEvidenced, HandoffEvidence, Releasing, ReleaseUnderWay, BothAttested
  <2>2. Count("TOKEN_PRESENTED")' = Count("TOKEN_PRESENTED")
    BY <1>1, <1>3, InvParts, CountsKept
  <2>3. QED BY <1>4, <1>5, <2>1, <2>2, SamePresented DEF HandoffEvidence
<1>7. RelayAgreement'
  BY <1>3, <1>4, InvParts DEF RelayAgreement, Releasing
<1>8. ~Logged(event) /\ (kind = "RESERVE" => ~Logged("RELAY_RELEASED"))
  BY <1>1, <1>4, InvParts DEF StateFits
<1>9. OutboxTruth'
  <2>1. Count(event) = 0
    BY <1>8, InvParts, LoggedCounts
  <2>2. ASSUME NEW other \in {"RESERVE", "RELEASE"}
        PROVE  Cardinality(Occurrences(OutcomeEvent(other)))' <= 1
    <3>1. Count(OutcomeEvent(other))' =
            Count(OutcomeEvent(other)) + IF OutcomeEvent(other) = event THEN 1 ELSE 0
      BY <1>3, EventNames DEF Tells
    <3>2. Count(OutcomeEvent(other)) <= 1 /\ Count(OutcomeEvent(other)) \in Nat
      BY InvParts, OccurrencesFinite DEF OutboxTruth, Count
    <3>3. Count(OutcomeEvent(other))' <= 1
      BY <2>1, <3>1, <3>2
    <3>4. QED BY <3>3 DEF Count
  <2>3. OutboxTruth
    BY InvParts
  <2>4. \A other \in {"RESERVE", "RELEASE"} : outbox[other].status # "FAILED"
    BY <1>4, <2>3 DEF OutboxTruth
  <2>5. \A other \in {"RESERVE", "RELEASE"} :
           outbox[other].status = "COMPLETE" => Logged(OutcomeEvent(other))'
    BY <1>3, <2>3, EventNames DEF OutboxTruth
  <2>6. /\ outbox["ANALYZE"].status = "COMPLETE" =>
             Logged("PRIVATE_EVIDENCE_REQUESTED")' \/ Logged("ANALYST_ABSTAINED")'
        /\ outbox["ANALYZE"].status = "FAILED" => Logged("ANALYST_UNAVAILABLE")'
    BY <1>3, <2>3, EventNames DEF OutboxTruth
  <2>7. QED BY <1>4, <2>2, <2>4, <2>5, <2>6 DEF OutboxTruth, OutcomeEvent
<1>10. StateFits'
  <2>1. kind = "RESERVE" => ~Logged("RELAY_RELEASED")'
    BY <1>1, <1>3, <1>8, EventNames
  <2>2. ~handoff'.issued => \A p \in Purpose : tokens'[p] = "ABSENT"
    BY <1>4, <1>5, InvParts DEF StateFits
  <2>3. to \in Granted \ {"RESERVE_REQUESTED"}
    BY DEF Granted, Releasing
  <2>4. QED BY <1>3, <2>1, <2>2, <2>3 DEF StateFits
<1>11. Forward
  <2>1. passport.state # "RECONCILIATION_REQUIRED"
    BY <1>4
  <2>2. ReleaseUnderWay => ReleaseUnderWay'
    BY <1>3, <1>4, <1>5 DEF ReleaseUnderWay, Releasing, BothAttested
  <2>3. QED BY <1>3, <2>1, <2>2 DEF Forward
<1>12. QED
  BY <1>3, <1>6, <1>7, <1>9, <1>10, <1>11 DEF RecordsKept, RecordsFit

\* The outcomes of rows and the state's facts when no relay outcome is told.
LEMMA QuietStateFits ==
  ASSUME HistoryInv, NEW event \in EventType \ {"RELAY_RESERVED", "RELAY_RELEASED"},
         Tells({event}), passport.state \in Granted \ {"RELEASED", "CLOSED"},
         passport'.state \in Granted \ {"RESERVE_REQUESTED", "RELEASED", "CLOSED"},
         ~handoff'.issued => \A p \in Purpose : tokens'[p] = "ABSENT"
  PROVE  StateFits'
<1>1. ~Logged("RELAY_RELEASED")
  BY InvParts DEF StateFits
<1>2. ~Logged("RELAY_RELEASED")'
  BY <1>1, EventNames DEF Tells
<1>3. passport'.state \in {"RESERVED", "CLAIMANT_PRESENT", "RECONCILIATION_REQUIRED",
                          "RELEASE_REQUESTED"}
  BY DEF Granted, Releasing
<1>4. QED BY <1>2, <1>3 DEF StateFits, Granted, Releasing

\* _process_relay hands the case to an operator.
Reconciles(kind) ==
  /\ Committed("RELAY_RECONCILIATION_REQUIRED", "RECONCILIATION_REQUIRED", <<"reconcile", kind>>)
  /\ passport.state \in {"RESERVE_REQUESTED", "RELEASE_REQUESTED"}
  /\ SameClaim
  /\ UNCHANGED <<handoff, tokens, outbox>>

LEMMA ReconcilesKeeps ==
  ASSUME HistoryInv, NEW kind \in {"RESERVE", "RELEASE"}, Reconciles(kind)
  PROVE  RecordsKept
<1> DEFINE event == "RELAY_RECONCILIATION_REQUIRED"
<1>1. /\ event \in EventType \ {"CLAIM_EVIDENCE_REJECTED"}
      /\ event \notin {"RELAY_RESERVED", "RELAY_RELEASED", "TOKEN_PRESENTED"}
      /\ "RECONCILIATION_REQUIRED" \in CustodyState
      /\ kind \in Source /\ passport.state \notin Stopped
      /\ passport.state \in {"RESERVE_REQUESTED", "RELEASE_REQUESTED"}
  BY DEF EventType, CustodyState, Stopped, Reconciles, Source, Kind
<1>2. /\ EventLedger' /\ KeysReceipted' /\ ReceiptsTold' /\ Tells({event}) /\ WrongAnswersCounted'
      /\ passport'.state = "RECONCILIATION_REQUIRED" /\ remote' = remote
      /\ \A e \in EventType : (Logged(e) => Logged(e)') /\ (Logged(e)' => Logged(e) \/ e = event)
  BY <1>1, CustodyCommitted DEF Reconciles
<1>3. UNCHANGED <<handoff, tokens, outbox>>
  BY DEF Reconciles
<1>4. HandoffEvidence'
  <2>1. ReleaseEvidenced'
    <3>1. ReleaseEvidenced
      BY InvParts DEF HandoffEvidence
    <3>2. QED BY <1>2, <1>3, <3>1 DEF ReleaseEvidenced, Releasing
  <2>2. Count("TOKEN_PRESENTED")' = Count("TOKEN_PRESENTED")
    BY <1>1, <1>2, InvParts, CountsKept
  <2>3. QED BY <1>3, <2>1, <2>2, SamePresented DEF HandoffEvidence
<1>5. RelayAgreement'
  BY <1>2, InvParts DEF RelayAgreement, Releasing
<1>6. OutboxTruth'
  BY <1>1, <1>2, <1>3, InvParts, RowsKept DEF Stopped
<1>7. StateFits'
  <2>1. ~Logged("RELAY_RELEASED")'
    <3>1. ~Logged("RELAY_RELEASED")
      BY <1>1, InvParts DEF StateFits
    <3>2. QED BY <1>1, <1>2, <3>1, EventNames
  <2>2. "RECONCILIATION_REQUIRED" \in Granted \ {"RESERVE_REQUESTED"}
    BY DEF Granted
  <2>3. ~handoff.issued => \A p \in Purpose : tokens[p] = "ABSENT"
    BY InvParts DEF StateFits
  <2>4. QED BY <1>2, <1>3, <2>1, <2>2, <2>3 DEF StateFits
<1>8. Forward
  BY <1>1, <1>2, <1>3 DEF Forward, ReleaseUnderWay, BothAttested
<1>9. QED
  BY <1>2, <1>4, <1>5, <1>6, <1>7, <1>8 DEF RecordsKept, RecordsFit

\* issue_tokens commits.
Issues ==
  \E k \in Source :
    /\ Committed("ONE_TIME_CREDENTIALS_ISSUED", "RESERVED", <<"tokens", k>>)
    /\ passport.state = "RESERVED" /\ ~handoff.issued
    /\ SameClaim
    /\ handoff' = [handoff EXCEPT !.issued = TRUE]
    /\ tokens' = [p \in Purpose |-> "UNUSED"] /\ outbox' = outbox

LEMMA IssuesKeeps ==
  ASSUME HistoryInv, Issues
  PROVE  RecordsKept
<1> DEFINE event == "ONE_TIME_CREDENTIALS_ISSUED"
<1>1. /\ event \in EventType \ {"CLAIM_EVIDENCE_REJECTED"}
      /\ event \notin {"RELAY_RESERVED", "RELAY_RELEASED", "TOKEN_PRESENTED"}
      /\ "RESERVED" \in CustodyState
      /\ passport.state \notin Stopped
      /\ "RESERVED" \in Granted \ {"RESERVE_REQUESTED", "RELEASED", "CLOSED"}
      /\ passport.state = "RESERVED" /\ ~handoff.issued
  BY DEF EventType, CustodyState, Stopped, Issues, Granted
<1>2. /\ EventLedger' /\ KeysReceipted' /\ ReceiptsTold' /\ Tells({event}) /\ WrongAnswersCounted'
      /\ passport'.state = "RESERVED" /\ remote' = remote
      /\ \A e \in EventType : (Logged(e) => Logged(e)') /\ (Logged(e)' => Logged(e) \/ e = event)
  <2>1. PICK k \in Source :
          Committed(event, "RESERVED", <<"tokens", k>>) /\ SameClaim
    BY DEF Issues
  <2>2. QED BY <1>1, <2>1, CustodyCommitted
<1>3. /\ handoff'.attested = handoff.attested /\ handoff'.confirmed = handoff.confirmed
      /\ handoff'.issued
      /\ \A p \in Purpose : tokens'[p] = "UNUSED" /\ tokens[p] = "ABSENT"
      /\ outbox' = outbox
  BY <1>1, InvParts DEF Issues, TypeOK, HandoffRecord, StateFits
<1>4. HandoffEvidence'
  <2>1. ReleaseEvidenced'
    <3>1. ReleaseEvidenced /\ RelayAgreement
      BY InvParts DEF HandoffEvidence
    <3>2. QED BY <1>1, <1>2, <1>3, <3>1 DEF ReleaseEvidenced, Releasing, RelayAgreement
  <2>2. Count("TOKEN_PRESENTED")' = Count("TOKEN_PRESENTED")
    BY <1>1, <1>2, InvParts, CountsKept
  <2>3. AttestationsMatchTokens
    BY InvParts DEF HandoffEvidence
  <2>4. AttestationsMatchTokens'
    <3>1. {p \in Purpose : tokens'[p] = "USED"} = {p \in Purpose : tokens[p] = "USED"}
      BY <1>3
    <3>2. QED BY <1>3, <2>2, <2>3, <3>1 DEF AttestationsMatchTokens, Count
  <2>5. QED BY <2>1, <2>4 DEF HandoffEvidence
<1>5. RelayAgreement'
  BY <1>1, <1>2, InvParts DEF RelayAgreement, Releasing
<1>6. OutboxTruth'
  BY <1>1, <1>2, <1>3, InvParts, RowsKept DEF Stopped
<1>7. StateFits'
  BY <1>1, <1>2, <1>3, QuietStateFits
<1>8. Forward
  BY <1>1, <1>2 DEF Forward, ReleaseUnderWay, Releasing
<1>9. QED
  BY <1>2, <1>4, <1>5, <1>6, <1>7, <1>8 DEF RecordsKept, RecordsFit

\* consume_token commits.
Presents(p) ==
  \E k \in Source, to \in {"RESERVED", "CLAIMANT_PRESENT"} :
    /\ Committed("TOKEN_PRESENTED", to, <<"token-attest", k>>)
    /\ passport.state \in {"RESERVED", "CLAIMANT_PRESENT"}
    /\ tokens[p] = "UNUSED"
    /\ SameClaim
    /\ handoff' = [handoff EXCEPT !.attested = [@ EXCEPT ![p] = TRUE]]
    /\ tokens' = [tokens EXCEPT ![p] = "USED"] /\ outbox' = outbox

LEMMA PresentsKeeps ==
  ASSUME HistoryInv, NEW p \in Purpose, Presents(p)
  PROVE  RecordsKept
<1> PICK k \in Source, to \in {"RESERVED", "CLAIMANT_PRESENT"} :
      /\ Committed("TOKEN_PRESENTED", to, <<"token-attest", k>>)
      /\ passport.state \in {"RESERVED", "CLAIMANT_PRESENT"}
      /\ tokens[p] = "UNUSED"
      /\ SameClaim
      /\ handoff' = [handoff EXCEPT !.attested = [@ EXCEPT ![p] = TRUE]]
      /\ tokens' = [tokens EXCEPT ![p] = "USED"] /\ outbox' = outbox
  BY DEF Presents
<1> DEFINE event == "TOKEN_PRESENTED"
<1>1. /\ event \in EventType \ {"CLAIM_EVIDENCE_REJECTED"}
      /\ event \notin {"RELAY_RESERVED", "RELAY_RELEASED"}
      /\ to \in CustodyState
      /\ passport.state \notin Stopped
      /\ {"RESERVED", "CLAIMANT_PRESENT"} \subseteq Granted \ {"RESERVE_REQUESTED", "RELEASED", "CLOSED"}
  BY DEF EventType, CustodyState, Stopped, Granted
<1>2. /\ EventLedger' /\ KeysReceipted' /\ ReceiptsTold' /\ Tells({event}) /\ WrongAnswersCounted'
      /\ passport'.state = to /\ remote' = remote
      /\ \A e \in EventType : (Logged(e) => Logged(e)') /\ (Logged(e)' => Logged(e) \/ e = event)
  BY <1>1, CustodyCommitted
<1>3. /\ handoff'.attested = [handoff.attested EXCEPT ![p] = TRUE]
      /\ handoff'.issued = handoff.issued
      /\ handoff.attested \in [Purpose -> BOOLEAN]
      /\ tokens \in [Purpose -> {"ABSENT", "UNUSED", "USED"}]
  BY InvParts DEF TypeOK, HandoffRecord
<1>4. /\ handoff'.attested[p] /\ tokens'[p] = "USED"
      /\ \A q \in Purpose \ {p} : /\ handoff'.attested[q] = handoff.attested[q]
                                  /\ tokens'[q] = tokens[q]
  BY <1>3
<1>5. handoff'.issued
  BY <1>3, InvParts DEF StateFits
<1>6. HandoffEvidence'
  <2>1. ReleaseEvidenced'
    <3>1. RelayAgreement
      BY InvParts
    <3>2. QED BY <1>2, <3>1 DEF ReleaseEvidenced, Releasing, RelayAgreement
  <2>2. /\ Count("TOKEN_PRESENTED")' = Count("TOKEN_PRESENTED") + 1
    BY <1>1, <1>2, InvParts, CountsKept
  <2>3. AttestationsMatchTokens
    BY InvParts DEF HandoffEvidence
  <2> DEFINE used == {q \in Purpose : tokens[q] = "USED"}
  <2>4. {q \in Purpose : tokens'[q] = "USED"} = used \cup {p} /\ p \notin used
    BY <1>4
  <2>5. IsFiniteSet(used)
    <3>1. IsFiniteSet({"CLAIMANT"}) /\ IsFiniteSet({"CUSTODIAN"})
      BY FS_Singleton
    <3>2. IsFiniteSet({"CLAIMANT"} \cup {"CUSTODIAN"})
      BY <3>1, FS_Union
    <3>3. used \subseteq {"CLAIMANT"} \cup {"CUSTODIAN"}
      BY DEF Purpose
    <3>4. QED BY <3>2, <3>3, FS_Subset
  <2>6. Cardinality({q \in Purpose : tokens'[q] = "USED"}) = Cardinality(used) + 1
    BY <2>4, <2>5, FS_AddElement
  <2>7. AttestationsMatchTokens'
    BY <1>4, <2>2, <2>3, <2>6 DEF AttestationsMatchTokens, Count
  <2>8. QED BY <2>1, <2>7 DEF HandoffEvidence
<1>7. RelayAgreement'
  BY <1>2, InvParts DEF RelayAgreement, Releasing
<1>8. OutboxTruth'
  BY <1>1, <1>2, InvParts, RowsKept DEF Stopped
<1>9. StateFits'
  BY <1>1, <1>2, <1>5, QuietStateFits
<1>10. Forward
  BY <1>1, <1>2 DEF Forward, ReleaseUnderWay, Releasing, Stopped
<1>11. QED
  BY <1>2, <1>6, <1>7, <1>8, <1>9, <1>10 DEF RecordsKept, RecordsFit

\* begin_release commits.
Confirms ==
  \E k \in Source :
    /\ Committed("RELAY_RELEASE_REQUESTED", "RELEASE_REQUESTED", <<"release", k>>)
    /\ passport.state = "CLAIMANT_PRESENT" /\ BothAttested(handoff)
    /\ SameClaim
    /\ handoff' = [handoff EXCEPT !.confirmed = TRUE] /\ tokens' = tokens
    /\ OnlyOpens("RELEASE")

LEMMA ConfirmsKeeps ==
  ASSUME HistoryInv, Confirms
  PROVE  RecordsKept
<1> PICK k \in Source :
      /\ Committed("RELAY_RELEASE_REQUESTED", "RELEASE_REQUESTED", <<"release", k>>)
      /\ passport.state = "CLAIMANT_PRESENT" /\ BothAttested(handoff)
      /\ SameClaim
      /\ handoff' = [handoff EXCEPT !.confirmed = TRUE] /\ tokens' = tokens
      /\ OnlyOpens("RELEASE")
  BY DEF Confirms
<1> DEFINE event == "RELAY_RELEASE_REQUESTED"
<1>1. /\ event \in EventType \ {"CLAIM_EVIDENCE_REJECTED"}
      /\ event \notin {"RELAY_RESERVED", "RELAY_RELEASED", "TOKEN_PRESENTED"}
      /\ "RELEASE_REQUESTED" \in CustodyState
      /\ passport.state \notin Stopped
      /\ {"RELEASE_REQUESTED", "CLAIMANT_PRESENT"} \subseteq Granted \ {"RESERVE_REQUESTED", "RELEASED", "CLOSED"}
  BY DEF EventType, CustodyState, Stopped, Granted, Releasing
<1>2. /\ EventLedger' /\ KeysReceipted' /\ ReceiptsTold' /\ Tells({event}) /\ WrongAnswersCounted'
      /\ passport'.state = "RELEASE_REQUESTED" /\ remote' = remote
      /\ \A e \in EventType : (Logged(e) => Logged(e)') /\ (Logged(e)' => Logged(e) \/ e = event)
  BY <1>1, CustodyCommitted
<1>3. /\ handoff'.attested = handoff.attested /\ handoff'.confirmed
      /\ handoff'.issued = handoff.issued
  BY InvParts DEF TypeOK, HandoffRecord
<1>4. HandoffEvidence'
  <2>1. ReleaseEvidenced'
    BY <1>3 DEF ReleaseEvidenced, BothAttested
  <2>2. Count("TOKEN_PRESENTED")' = Count("TOKEN_PRESENTED")
    BY <1>1, <1>2, InvParts, CountsKept
  <2>3. QED BY <1>3, <2>1, <2>2, SamePresented DEF HandoffEvidence
<1>5. RelayAgreement'
  BY <1>2, InvParts DEF RelayAgreement, Releasing
<1>6. OutboxTruth'
  BY <1>1, <1>2, InvParts, RowsKept DEF OnlyOpens, Stopped
<1>7. StateFits'
  <2>1. ~handoff'.issued => \A p \in Purpose : tokens'[p] = "ABSENT"
    BY <1>3, InvParts DEF StateFits
  <2>2. QED BY <1>1, <1>2, <2>1, QuietStateFits
<1>8. Forward
  BY <1>1, <1>2 DEF Forward, ReleaseUnderWay, Releasing, Stopped
<1>9. QED
  BY <1>2, <1>4, <1>5, <1>6, <1>7, <1>8 DEF RecordsKept, RecordsFit

\* close_case commits.
Closes ==
  \E k \in Source :
    /\ Committed("ITEM_PASSPORT_CLOSED", "CLOSED", <<"close", k>>)
    /\ passport.state = "RELEASED"
    /\ SameClaim
    /\ UNCHANGED <<handoff, tokens, outbox>>

LEMMA ClosesKeeps ==
  ASSUME HistoryInv, Closes
  PROVE  RecordsKept
<1> PICK k \in Source :
      /\ Committed("ITEM_PASSPORT_CLOSED", "CLOSED", <<"close", k>>)
      /\ passport.state = "RELEASED"
      /\ SameClaim
      /\ UNCHANGED <<handoff, tokens, outbox>>
  BY DEF Closes
<1> DEFINE event == "ITEM_PASSPORT_CLOSED"
<1>1. /\ event \in EventType \ {"CLAIM_EVIDENCE_REJECTED"}
      /\ event \notin {"RELAY_RESERVED", "RELAY_RELEASED", "TOKEN_PRESENTED"}
      /\ "CLOSED" \in CustodyState
      /\ passport.state \notin Stopped
      /\ {"RELEASED", "CLOSED"} \subseteq Granted \ {"RESERVE_REQUESTED"}
      /\ {"RELEASED", "CLOSED"} \subseteq Releasing
  BY DEF EventType, CustodyState, Stopped, Granted, Releasing
<1>2. /\ EventLedger' /\ KeysReceipted' /\ ReceiptsTold' /\ Tells({event}) /\ WrongAnswersCounted'
      /\ passport'.state = "CLOSED" /\ remote' = remote
      /\ \A e \in EventType : (Logged(e) => Logged(e)') /\ (Logged(e)' => Logged(e) \/ e = event)
  BY <1>1, CustodyCommitted
<1>3. HandoffEvidence'
  <2>1. ReleaseEvidenced'
    <3>1. ReleaseEvidenced
      BY InvParts DEF HandoffEvidence
    <3>2. QED BY <1>1, <3>1 DEF ReleaseEvidenced
  <2>2. Count("TOKEN_PRESENTED")' = Count("TOKEN_PRESENTED")
    BY <1>1, <1>2, InvParts, CountsKept
  <2>3. QED BY <2>1, <2>2, SamePresented DEF HandoffEvidence
<1>4. RelayAgreement'
  BY <1>1, <1>2, InvParts DEF RelayAgreement
<1>5. OutboxTruth'
  BY <1>1, <1>2, InvParts, RowsKept DEF Stopped
<1>6. StateFits'
  <2>1. ~handoff.issued => \A p \in Purpose : tokens[p] = "ABSENT"
    BY InvParts DEF StateFits
  <2>2. QED BY <1>1, <1>2, <2>1 DEF StateFits
<1>7. Forward
  BY <1>1, <1>2 DEF Forward, ReleaseUnderWay, BothAttested, Stopped
<1>8. QED
  BY <1>2, <1>3, <1>4, <1>5, <1>6, <1>7 DEF RecordsKept, RecordsFit

-----------------------------------------------------------------------------
(* An answer: several events under one receipt *)

\* A batch of events that starts from the private question.
Chain(steps) ==
  \A i \in 1..Len(steps) :
    /\ TransitionAllowed(IF i = 1 THEN "CLARIFICATION_REQUIRED" ELSE steps[i - 1].to,
                         steps[i].to, steps[i].event \in FactEvents)
    /\ steps[i].name \in AnswerName
    /\ \A j \in 1..Len(steps) :
         steps[i].name = steps[j].name \/ steps[i].event = steps[j].event => i = j

BatchEvent(steps, k, i) ==
  [event |-> steps[i].event, from |-> IF i = 1 THEN passport.state ELSE steps[i - 1].to,
   to |-> steps[i].to, key |-> <<steps[i].name, k>>]

\* consume_claim_link_and_apply_mutations commits a batch.
Answers(steps, k) ==
  /\ passport.state = "CLARIFICATION_REQUIRED"
  /\ log' = log \o [i \in 1..Len(steps) |-> BatchEvent(steps, k, i)]
  /\ passport'.state = steps[Len(steps)].to
  /\ passport'.version = passport.version + Len(steps)
  /\ \A r \in receipts : r.key # <<"claim", k>>
  /\ \E fp : receipts' = receipts \cup {[key |-> <<"claim", k>>, fp |-> fp]}
  /\ passport'.risk = passport.risk
  /\ passport'.identity = passport.identity /\ passport'.approval = passport.approval
  /\ UNCHANGED <<handoff, tokens, outbox, remote>>

EventsOf(steps) == {steps[i].event : i \in 1..Len(steps)}

LEMMA ConcatGrows ==
  ASSUME TypeOK, NEW batch \in Seq(EventRecord), log' = log \o batch
  PROVE  Grows(Len(batch)) /\ \A i \in 1..Len(batch) : log'[Len(log) + i] = batch[i]
<1>1. log \in Seq(EventRecord) /\ Len(log) \in Nat /\ Len(batch) \in Nat
  BY DEF TypeOK
<1>2. log' \in Seq(EventRecord) /\ Len(log') = Len(log) + Len(batch)
  BY <1>1
<1>3. \A i \in 1..Len(log) : log'[i] = log[i]
  BY <1>1
<1>4. \A i \in 1..Len(batch) : log'[Len(log) + i] = batch[i]
  BY <1>1
<1>5. QED BY <1>2, <1>3, <1>4 DEF Grows

LEMMA AnswersHistory ==
  ASSUME HistoryInv, NEW steps \in Seq(ClaimStep), Len(steps) \in Nat \ {0}, Chain(steps),
         NEW k \in Source, Answers(steps, k)
  PROVE  EventLedger' /\ KeysReceipted' /\ Tells(EventsOf(steps))
<1> DEFINE n == Len(steps)
           batch == [i \in 1..n |-> BatchEvent(steps, k, i)]
<1>1. TypeOK /\ EventLedger /\ KeysReceipted /\ Len(log) \in Nat
  BY InvParts, LogLength
<1>2. \A i \in 1..n : BatchEvent(steps, k, i) \in EventRecord
  <2>1. TAKE i \in 1..n
  <2>2. steps[i] \in ClaimStep /\ (i # 1 => steps[i - 1] \in ClaimStep)
    OBVIOUS
  <2>3. <<steps[i].name, k>> \in KeyName \X Source /\ passport.state \in CustodyState
    BY <1>1, <2>2 DEF ClaimStep, TypeOK, PassportRecord
  <2>4. QED BY <2>2, <2>3 DEF ClaimStep, EventRecord, BatchEvent
<1>3. batch \in Seq(EventRecord) /\ Len(batch) = n /\ log \in Seq(EventRecord)
  BY <1>1, <1>2 DEF TypeOK
<1>4. log' = log \o batch
  BY DEF Answers
<1>5. Grows(n) /\ \A i \in 1..n : log'[Len(log) + i] = batch[i]
  <2> HIDE DEF batch, n
  <2>1. QED BY <1>1, <1>3, <1>4, ConcatGrows
<1>6. \A i \in Told(n) : /\ i - Len(log) \in 1..n
                         /\ log'[i] = BatchEvent(steps, k, i - Len(log))
  BY <1>1, <1>5 DEF Told
<1>7. \A i \in 1..n : Len(log) + i \in Told(n)
  BY <1>1 DEF Told
<1>8. \A i \in 1..n : /\ BatchEvent(steps, k, i).event = steps[i].event
                      /\ BatchEvent(steps, k, i).to = steps[i].to
                      /\ BatchEvent(steps, k, i).key = <<steps[i].name, k>>
                      /\ BatchEvent(steps, k, i).from =
                           IF i = 1 THEN passport.state ELSE steps[i - 1].to
  BY DEF BatchEvent
<1> HIDE DEF batch, n
<1>9. Tells(EventsOf(steps))
  <2>1. \A i \in Told(n) : log'[i].event \in EventsOf(steps)
    BY <1>6, <1>8 DEF EventsOf, n
  <2>2. \A event \in EventsOf(steps) : \E i \in Told(n) : log'[i].event = event
    <3>1. TAKE event \in EventsOf(steps)
    <3>2. PICK i \in 1..n : event = steps[i].event
      BY DEF EventsOf, n
    <3>3. log'[Len(log) + i].event = event
      BY <1>1, <1>6, <1>7, <1>8, <3>2
    <3>4. QED BY <1>7, <3>3
  <2>3. \A i, j \in Told(n) : log'[i].event = log'[j].event => i = j
    <3>1. TAKE i, j \in Told(n)
    <3>2. HAVE log'[i].event = log'[j].event
    <3>3. steps[i - Len(log)].event = steps[j - Len(log)].event
      BY <1>6, <1>8, <3>2
    <3>4. i - Len(log) = j - Len(log)
      BY <1>6, <3>3 DEF Chain, n
    <3>5. QED BY <1>1, <3>4 DEF Told
  <2>4. n \in Nat
    BY DEF n
  <2>5. QED BY <1>1, <1>5, <2>1, <2>2, <2>3, <2>4, GrowsTells
<1>10. \A i \in 1..Len(log) : \A j \in 1..n : log[i].key # <<steps[j].name, k>>
  <2>1. TAKE i \in 1..Len(log)
  <2>2. TAKE j \in 1..n
  <2> DEFINE key == <<steps[j].name, k>>
  <2>3. key[1] = steps[j].name /\ key[2] = k /\ steps[j].name \in AnswerName
    BY DEF Chain, n
  <2>4. ReceiptKey(key) = <<"claim", k>> /\ key[1] # "create"
    BY <2>3 DEF ReceiptKey, AnswerName
  <2>5. \A r \in receipts : r.key # ReceiptKey(key)
    BY <2>4 DEF Answers
  <2> HIDE DEF key
  <2>6. log[i].key # key
    BY <1>1, <2>4, <2>5, FreshKey
  <2>7. QED BY <2>6 DEF key
<1>11. ASSUME NEW i \in Told(n)
       PROVE  /\ log'[i].from = IF i = Len(log) + 1 THEN passport.state ELSE log'[i - 1].to
              /\ TransitionAllowed(log'[i].from, log'[i].to, log'[i].event \in FactEvents)
              /\ \A j \in 1..Len(log) + n : log'[i].key = log'[j].key => i = j
  <2> DEFINE b == i - Len(log)
  <2>1. b \in 1..n /\ log'[i] = BatchEvent(steps, k, b) /\ i = Len(log) + b
    BY <1>1, <1>6 DEF Told
  <2>2. log'[i].from = IF b = 1 THEN passport.state ELSE steps[b - 1].to
    BY <1>8, <2>1
  <2>3. b # 1 => /\ i - 1 \in Told(n) /\ (i - 1) - Len(log) = b - 1 /\ b - 1 \in 1..n
                 /\ i # Len(log) + 1
    BY <1>1, <2>1 DEF Told, n
  <2>4. b # 1 => log'[i - 1].to = steps[b - 1].to
    BY <1>6, <1>8, <2>3
  <2>5. b = 1 <=> i = Len(log) + 1
    BY <1>1, <2>1, <2>3
  <2>6. TransitionAllowed(log'[i].from, log'[i].to, log'[i].event \in FactEvents)
    <3>1. TransitionAllowed(IF b = 1 THEN "CLARIFICATION_REQUIRED" ELSE steps[b - 1].to,
                            steps[b].to, steps[b].event \in FactEvents)
      BY <2>1 DEF Chain, n
    <3>2. passport.state = "CLARIFICATION_REQUIRED"
      BY DEF Answers
    <3>3. log'[i].to = steps[b].to /\ log'[i].event = steps[b].event
      BY <1>8, <2>1
    <3>4. log'[i].from = IF b = 1 THEN "CLARIFICATION_REQUIRED" ELSE steps[b - 1].to
      BY <2>2, <3>2
    <3> HIDE DEF b
    <3>5. QED BY <3>1, <3>3, <3>4
  <2>7. ASSUME NEW j \in 1..Len(log) + n, log'[i].key = log'[j].key
        PROVE  i = j
    <3>1. log'[i].key = <<steps[b].name, k>>
      BY <1>8, <2>1
    <3>2. CASE j \in 1..Len(log)
      <4>1. log'[j] = log[j]
        BY <1>5, <3>2 DEF Grows
      <4>2. QED BY <1>10, <2>1, <2>7, <3>1, <3>2, <4>1
    <3>3. CASE j \in Told(n)
      <4>1. j - Len(log) \in 1..n /\ log'[j].key = <<steps[j - Len(log)].name, k>>
        BY <1>6, <1>8, <3>3
      <4>2. steps[b].name = steps[j - Len(log)].name
        <5>1. <<steps[b].name, k>> = <<steps[j - Len(log)].name, k>>
          BY <2>7, <3>1, <4>1
        <5>2. \A x, y : <<x, k>> = <<y, k>> => x = y
          OBVIOUS
        <5>3. QED BY <5>1, <5>2
      <4>3. b = j - Len(log)
        BY <2>1, <4>1, <4>2 DEF Chain, n
      <4>4. QED BY <1>1, <2>1, <4>3
    <3>4. QED BY <1>1, <3>2, <3>3 DEF Told, n
  <2>8. QED BY <2>2, <2>4, <2>5, <2>6, <2>7
<1>12. EventLedger'
  <2>1. n \in 1..n /\ n \in Nat \ {0}
    BY DEF n
  <2>2. log'[Len(log) + n].to = passport'.state
    <3>1. Len(log) + n \in Told(n) /\ (Len(log) + n) - Len(log) = n
      BY <1>1, <2>1 DEF Told
    <3>2. log'[Len(log) + n].to = steps[n].to
      BY <1>6, <1>8, <3>1
    <3>3. QED BY <3>2 DEF Answers, n
  <2>3. passport'.version = passport.version + n
    BY DEF Answers, n
  <2>4. QED BY <1>1, <1>5, <1>11, <2>1, <2>2, <2>3, LedgerGrows
<1>13. KeysReceipted'
  <2>1. receipts \subseteq receipts' /\ \E r \in receipts' : r.key = <<"claim", k>>
    <3>1. PICK fp : receipts' = receipts \cup {[key |-> <<"claim", k>>, fp |-> fp]}
      BY DEF Answers
    <3>2. [key |-> <<"claim", k>>, fp |-> fp].key = <<"claim", k>>
      OBVIOUS
    <3>3. QED BY <3>1, <3>2
  <2>2. \A i \in Told(n) : ReceiptKey(log'[i].key) = <<"claim", k>>
    <3>1. TAKE i \in Told(n)
    <3>2. i - Len(log) \in 1..n /\ log'[i].key = <<steps[i - Len(log)].name, k>>
      BY <1>6, <1>8
    <3>3. steps[i - Len(log)].name \in AnswerName
      BY <3>2 DEF Chain, n
    <3>4. log'[i].key[1] = steps[i - Len(log)].name /\ log'[i].key[2] = k
      BY <3>2
    <3>5. QED BY <3>3, <3>4 DEF ReceiptKey
  <2>3. n \in Nat
    BY DEF n
  <2>4. QED BY <1>1, <1>5, <2>1, <2>2, <2>3, ReceiptedGrows
<1>14. QED BY <1>9, <1>12, <1>13

\* A correct answer, and a wrong one within or beyond the limit.
AnsweredWell(steps) ==
  /\ EventsOf(steps) \subseteq {"PRIVATE_EVIDENCE_RECEIVED", "CANDIDATE_PACKET_RECHECKED",
                                "CLAIM_EVIDENCE_ACCEPTED"}
  /\ passport'.state = "CLAIM_EVIDENCE_ACCEPTED"
  /\ passport'.accepted /\ passport'.wrong = passport.wrong

AnsweredBadly(steps) ==
  /\ EventsOf(steps) \subseteq {"CLAIM_EVIDENCE_REJECTED", "CLAIM_ATTEMPT_LIMIT_REACHED",
                                "MANUAL_REVIEW_REQUIRED"}
  /\ "CLAIM_EVIDENCE_REJECTED" \in EventsOf(steps)
  /\ passport'.accepted = passport.accepted
  /\ passport'.wrong = passport.wrong + 1
  /\ passport'.state = IF passport'.wrong > WrongAnswerLimit
                       THEN "MANUAL_REVIEW" ELSE "CLARIFICATION_REQUIRED"

Answered ==
  \E steps \in Seq(ClaimStep), k \in Source :
    /\ Len(steps) \in Nat \ {0} /\ Chain(steps) /\ Answers(steps, k)
    /\ AnsweredWell(steps) \/ AnsweredBadly(steps)

LEMMA AnsweredKeeps ==
  ASSUME HistoryInv, Answered
  PROVE  RecordsKept
<1> PICK steps \in Seq(ClaimStep), k \in Source :
      /\ Len(steps) \in Nat \ {0} /\ Chain(steps) /\ Answers(steps, k)
      /\ AnsweredWell(steps) \/ AnsweredBadly(steps)
  BY DEF Answered
<1> DEFINE events == EventsOf(steps)
<1>1. EventLedger' /\ KeysReceipted' /\ Tells(events)
  BY AnswersHistory
<1>2. \A e \in EventType : (Logged(e) => Logged(e)') /\ (Logged(e)' => Logged(e) \/ e \in events)
  BY <1>1 DEF Tells
<1>3. /\ passport.state = "CLARIFICATION_REQUIRED" /\ passport.state \notin Granted
      /\ passport'.state \in {"CLAIM_EVIDENCE_ACCEPTED", "MANUAL_REVIEW", "CLARIFICATION_REQUIRED"}
      /\ passport'.state \notin Granted
      /\ UNCHANGED <<handoff, tokens, outbox, remote>>
  BY DEF Answers, AnsweredWell, AnsweredBadly, Granted, Releasing
<1>4. /\ "TOKEN_PRESENTED" \notin events
      /\ "RELAY_RESERVED" \notin events /\ "RELAY_RELEASED" \notin events
  BY DEF AnsweredWell, AnsweredBadly
<1> HIDE DEF events
<1>5. ReceiptsTold'
  <2>1. PICK fp : receipts' = receipts \cup {[key |-> <<"claim", k>>, fp |-> fp]}
    BY DEF Answers
  <2>2. [key |-> <<"claim", k>>, fp |-> fp].key[1] = "claim"
    OBVIOUS
  <2>3. \A r \in receipts' : r \in receipts \/ r.key[1] = "claim"
    BY <2>1, <2>2
  <2>4. /\ "ANALYST_ABSTAINED" \in EventType /\ "ANALYST_UNAVAILABLE" \in EventType
        /\ \A kind : OutcomeEvent(kind) \in EventType
    BY DEF EventType, OutcomeEvent
  <2>5. ReceiptsTold
    BY InvParts
  <2>6. ASSUME NEW r \in receipts'
        PROVE  /\ r.key[1] = "relay-attestation" => Logged(OutcomeEvent(r.key[2]))'
               /\ r.key[1] = "reconcile" => passport'.state = "RECONCILIATION_REQUIRED"
               /\ r.key[1] = "agent-abstained" => Logged("ANALYST_ABSTAINED")'
               /\ r.key[1] = "manual-review" => Logged("ANALYST_UNAVAILABLE")'
    <3>1. CASE r \in receipts
      BY <1>2, <1>3, <2>4, <2>5, <3>1 DEF ReceiptsTold
    <3>2. CASE r.key[1] = "claim"
      BY <3>2
    <3>3. QED BY <2>3, <3>1, <3>2
  <2>7. QED BY <2>6 DEF ReceiptsTold, OutcomeEvent
<1>6. /\ remote = {} /\ handoff = NoHandoff /\ ~ReleaseUnderWay
      /\ \A p \in Purpose : tokens[p] = "ABSENT"
  BY <1>3, BeforeRequest
<1>7. HandoffEvidence'
  <2>1. ReleaseEvidenced'
    BY <1>3, <1>6 DEF ReleaseEvidenced, Granted
  <2>2. Count("TOKEN_PRESENTED")' = Count("TOKEN_PRESENTED")
    <3>1. Count("TOKEN_PRESENTED")' = Count("TOKEN_PRESENTED") + 0
      BY <1>1, <1>4, EventNames DEF Tells
    <3>2. QED BY <3>1, InvParts, OccurrencesFinite
  <2>3. QED BY <1>3, <2>1, <2>2, SamePresented DEF HandoffEvidence
<1>8. RelayAgreement'
  BY <1>3, <1>6 DEF RelayAgreement, Granted, Releasing
<1>9. OutboxTruth'
  BY <1>1, <1>3, <1>4, InvParts, RowsStay
<1>10. WrongAnswersCounted'
  <2>1. /\ passport.wrong = Count("CLAIM_EVIDENCE_REJECTED")
        /\ ~(passport.wrong > WrongAnswerLimit)
    BY <1>3, InvParts DEF WrongAnswersCounted, Count
  <2>2. Count("CLAIM_EVIDENCE_REJECTED")' =
          Count("CLAIM_EVIDENCE_REJECTED") + IF "CLAIM_EVIDENCE_REJECTED" \in events THEN 1 ELSE 0
    BY <1>1, EventNames DEF Tells
  <2>3. CASE AnsweredWell(steps)
    <3>1. "CLAIM_EVIDENCE_REJECTED" \notin events
      BY <2>3 DEF AnsweredWell, events
    <3>2. Count("CLAIM_EVIDENCE_REJECTED")' = Count("CLAIM_EVIDENCE_REJECTED")
      BY <2>2, <3>1, InvParts, OccurrencesFinite
    <3>3. QED BY <2>1, <2>3, <3>2 DEF AnsweredWell, WrongAnswersCounted, Count
  <2>4. CASE AnsweredBadly(steps)
    BY <2>1, <2>2, <2>4 DEF AnsweredBadly, WrongAnswersCounted, Count, events
  <2>5. QED BY <2>3, <2>4
<1>11. StateFits'
  <2>1. passport'.state = "CLAIM_EVIDENCE_ACCEPTED" => passport'.accepted
    BY DEF AnsweredWell, AnsweredBadly
  <2>2. Logged("PRIVATE_EVIDENCE_REQUESTED")'
    <3>1. Logged("PRIVATE_EVIDENCE_REQUESTED")
      BY <1>3, InvParts DEF StateFits
    <3>2. QED BY <1>2, <3>1, EventNames
  <2>3. ~Logged("RELAY_RESERVED")' /\ ~Logged("RELAY_RELEASED")'
    <3>1. ~Logged("RELAY_RESERVED") /\ ~Logged("RELAY_RELEASED")
      BY <1>3, InvParts DEF StateFits, Granted, Releasing
    <3>2. QED BY <1>2, <1>4, <3>1, EventNames
  <2>4. QED BY <1>3, <1>6, <2>1, <2>2, <2>3 DEF StateFits
<1>12. Forward
  BY <1>2, <1>3, <1>6 DEF Forward
<1>13. QED
  BY <1>1, <1>5, <1>7, <1>8, <1>9, <1>10, <1>11, <1>12 DEF RecordsKept, RecordsFit

\* What the records do when a handler commits.
CaseStep ==
  \/ Decides \/ Answered \/ Requests
  \/ \E kind \in {"RESERVE", "RELEASE"} : RelayActed(kind) \/ Reconciles(kind)
  \/ Issues \/ (\E p \in Purpose : Presents(p)) \/ Confirms \/ Closes

LEMMA CaseStepKeeps ==
  ASSUME HistoryInv, CaseStep
  PROVE  RecordsKept
BY DecidesKeeps, AnsweredKeeps, RequestsKeeps, RelayActedKeeps, ReconcilesKeeps, IssuesKeeps,
   PresentsKeeps, ConfirmsKeeps, ClosesKeeps DEF CaseStep

-----------------------------------------------------------------------------
(* What handlers know *)

RecordsSame == UNCHANGED <<passport, handoff, tokens, outbox, log, receipts, remote>>

LEMMA SameForward ==
  ASSUME UNCHANGED <<passport, handoff, log>>, remote \subseteq remote'
  PROVE  Forward
BY DEF Forward, Logged, ReleaseUnderWay, BothAttested

LEMMA KnowsKept ==
  ASSUME Forward, NEW a \in Activity, Knows(a)
  PROVE  Knows(a)'
<1>1. \A kind : OutcomeEvent(kind) \in EventType
  BY DEF EventType, OutcomeEvent
<1>2. Logged(OutcomeEvent(a.arg)) => Logged(OutcomeEvent(a.arg))'
  BY <1>1 DEF Forward
<1>3. /\ Logged("PRIVATE_EVIDENCE_REQUESTED") => Logged("PRIVATE_EVIDENCE_REQUESTED")'
      /\ Logged("ANALYST_ABSTAINED") => Logged("ANALYST_ABSTAINED")'
      /\ Logged("ANALYST_UNAVAILABLE") => Logged("ANALYST_UNAVAILABLE")'
  BY EventNames DEF Forward
<1>4. /\ ReleaseUnderWay => ReleaseUnderWay'
      /\ a.arg \in remote => a.arg \in remote'
      /\ passport.state = "RECONCILIATION_REQUIRED" => passport'.state = "RECONCILIATION_REQUIRED"
  BY DEF Forward
<1>5. QED BY <1>2, <1>3, <1>4 DEF Knows, BothAttested, RequestState

\* What a handler learns when it goes on.
Learns(a, pc) ==
  /\ pc \in {"complete", "fail"} => a.op \in {"worker", "relay", "callback"}
  /\ a.op = "worker" /\ pc = "complete" =>
       Logged("PRIVATE_EVIDENCE_REQUESTED") \/ Logged("ANALYST_ABSTAINED")
  /\ a.op = "worker" /\ pc = "fail" => Logged("ANALYST_UNAVAILABLE")
  /\ a.op \in {"relay", "callback"} /\ pc = "complete" => Logged(OutcomeEvent(a.arg))
  /\ a.op \in {"relay", "callback"} /\ pc = "fail" => passport.state = "RECONCILIATION_REQUIRED"

LEMMA KnowsNext ==
  ASSUME NEW a \in Activity, Knows(a),
         NEW pc \in {"reread", "complete", "fail", "failed"}, Learns(a, pc)
  PROVE  Knows([a EXCEPT !.pc = pc])
<1> DEFINE b == [a EXCEPT !.pc = pc]
<1>1. /\ b.op = a.op /\ b.pc = pc /\ b.key = a.key /\ b.arg = a.arg /\ b.seen = a.seen
      /\ b.hand = a.hand
  BY DEF Activity
<1> HIDE DEF b
<1>2. Knows(b)
  BY <1>1 DEF Knows, Learns
<1>3. QED BY <1>2 DEF b

\* The same after a step of the records.
LEMMA KnowsThen ==
  ASSUME Forward, NEW a \in Activity, Knows(a),
         NEW pc \in {"reread", "complete", "fail", "failed"}, Learns(a, pc)'
  PROVE  Knows([a EXCEPT !.pc = pc])'
<1> DEFINE b == [a EXCEPT !.pc = pc]
<1>1. /\ b.op = a.op /\ b.pc = pc /\ b.key = a.key /\ b.arg = a.arg /\ b.seen = a.seen
      /\ b.hand = a.hand
  BY DEF Activity
<1>2. Knows(a)'
  BY KnowsKept
<1> HIDE DEF b
<1>3. Knows(b)'
  BY <1>1, <1>2 DEF Knows, Learns, BothAttested, RequestState
<1>4. QED BY <1>3 DEF b

\* A step in which one handler goes on and the records take a step or none.
Stepped(h) ==
  /\ CaseStep \/ RecordsSame
  /\ \E next \in Activity \cup {None} :
       handler' = [handler EXCEPT ![h] = next] /\ (next # None => Knows(next)')

LEMMA HandlersLearn ==
  ASSUME HistoryInv, NEW h \in Handler, Forward,
         NEW next \in Activity \cup {None}, handler' = [handler EXCEPT ![h] = next],
         next # None => Knows(next)'
  PROVE  HandlersKnow'
<1> SUFFICES ASSUME NEW g \in Handler, handler'[g] # None
             PROVE  Knows(handler[g])'
  BY DEF HandlersKnow
<1>1. handler \in [Handler -> Activity \cup {None}] /\ HandlersKnow
  BY InvParts DEF TypeOK, HistoryInv
<1>2. CASE g = h
  <2>1. handler'[g] = next
    BY <1>1, <1>2
  <2>2. QED BY <2>1 DEF Knows
<1>3. CASE g # h
  <2>1. PICK b \in Activity : b = handler[g]
    BY <1>1, <1>3
  <2>2. Knows(b) /\ handler'[g] = b
    BY <1>1, <1>3, <2>1 DEF HandlersKnow
  <2>3. Knows(b)'
    BY <2>2, KnowsKept
  <2>4. QED BY <2>2, <2>3 DEF Knows
<1>4. QED BY <1>2, <1>3

LEMMA SteppedInductive ==
  ASSUME HistoryInv, NEW h \in Handler, Stepped(h), IInv'
  PROVE  HistoryInv'
<1>1. PICK next \in Activity \cup {None} :
        handler' = [handler EXCEPT ![h] = next] /\ (next # None => Knows(next)')
  BY DEF Stepped
<1>2. CASE CaseStep
  <2>1. RecordsKept
    BY <1>2, CaseStepKeeps
  <2>2. HandlersKnow'
    BY <1>1, <2>1, HandlersLearn DEF RecordsKept
  <2>3. QED BY <2>1, <2>2 DEF RecordsKept, HistoryInv
<1>3. CASE RecordsSame
  <2>1. HandlersKnow'
    BY <1>1, <1>3, SameForward, HandlersLearn DEF RecordsSame
  <2>2. EventLedger' /\ KeysReceipted'
    BY <1>3, InvParts DEF RecordsSame, EventLedger, KeysReceipted
  <2>3. ReceiptsTold'
    BY <1>3, InvParts DEF RecordsSame, ReceiptsTold, Logged, OutcomeEvent
  <2>4. HandoffEvidence' /\ RelayAgreement'
    BY <1>3, InvParts DEF RecordsSame, HandoffEvidence, ReleaseEvidenced, AttestationsMatchTokens,
         RelayAgreement, Occurrences
  <2>5. OutboxTruth' /\ WrongAnswersCounted' /\ StateFits'
    BY <1>3, InvParts DEF RecordsSame, OutboxTruth, WrongAnswersCounted, StateFits, Occurrences,
         Logged, OutcomeEvent
  <2>6. QED BY <2>1, <2>2, <2>3, <2>4, <2>5 DEF HistoryInv, RecordsFit
<1>4. QED BY <1>2, <1>3 DEF Stepped

-----------------------------------------------------------------------------
(* One mutation *)

\* A mutation is accepted: its handler saw the case as it is.
Wrote(a, m, w) ==
  /\ a.seen = passport
  /\ a.pc = "commit" /\ a.op \in WritesHandoffBack => a.hand = handoff
  /\ \A r \in receipts : r.key # m.key
  /\ TransitionAllowed(passport.state, m.target, m.fact)
  /\ passport' = [w.case EXCEPT !.state = m.target, !.version = passport.version + 1]
  /\ handoff' = w.handoff /\ tokens' = w.tokens /\ outbox' = w.outbox
  /\ log' = Append(log, [event |-> m.event, from |-> passport.state, to |-> m.target, key |-> m.key])
  /\ receipts' = receipts \cup {[key |-> m.key, fp |-> m.fp]}
  /\ remote' = remote

LEMMA MutationCases ==
  ASSUME HistoryInv, NEW h \in Handler, NEW a \in Activity, a = handler[h], a # None,
         NEW m, NEW w, NEW next, ApplyMutation(h, m, w, next)
  PROVE  \/ Wrote(a, m, w) /\ handler' = [handler EXCEPT ![h] = next]
         \/ /\ RecordsSame /\ handler' = [handler EXCEPT ![h] = next]
            /\ [key |-> m.key, fp |-> m.fp] \in receipts
         \/ RecordsSame /\ handler' = [handler EXCEPT ![h] = Refused(a)]
<1>1. CASE MutationAccepted(a, m)
  <2>1. /\ \A r \in receipts : r.key # m.key
        /\ passport.version = a.seen.version
        /\ TransitionAllowed(passport.state, m.target, m.fact)
    BY <1>1 DEF MutationAccepted
  <2>2. SnapshotsCurrent
    BY InvParts DEF IInv
  <2>3. /\ a.seen = passport
        /\ a.pc = "commit" /\ a.op \in WritesHandoffBack => a.hand = handoff
    BY <2>1, <2>2 DEF SnapshotsCurrent
  <2>4. ~(UNCHANGED data /\ ~MutationAccepted(handler[h], m))
    BY <1>1
  <2>5. /\ passport' = [w.case EXCEPT !.state = m.target, !.version = NextVersion(m)]
        /\ handoff' = w.handoff /\ tokens' = w.tokens /\ outbox' = w.outbox
        /\ log' = Append(log, [event |-> m.event, from |-> passport.state, to |-> m.target,
                               key |-> m.key])
        /\ receipts' = receipts \cup {[key |-> m.key, fp |-> m.fp]}
        /\ handler' = [handler EXCEPT ![h] = next] /\ remote' = remote
    BY <1>1 DEF ApplyMutation
  <2>6. QED BY <2>1, <2>3, <2>5 DEF Wrote, NextVersion
<1>2. CASE ~MutationAccepted(a, m)
  <2>1. UNCHANGED data /\ remote' = remote
    BY <1>2 DEF ApplyMutation
  <2>2. RecordsSame
    BY <2>1 DEF RecordsSame, data
  <2>3. handler' = [handler EXCEPT ![h] =
          IF [key |-> m.key, fp |-> m.fp] \in receipts THEN next ELSE Refused(a)]
    BY <1>2 DEF ApplyMutation
  <2>4. QED BY <2>2, <2>3
<1>3. QED BY <1>1, <1>2

LEMMA KnowsItself ==
  ASSUME HistoryInv, NEW h \in Handler, NEW a \in Activity, a = handler[h], a # None
  PROVE  Knows(a) /\ Sound(a) /\ a.key \in Source
BY InvParts, HandlersSound, ActivityFields DEF HistoryInv, HandlersKnow

\* A commit of a handler that ends with it, or is refused.
LEMMA MutationEnds ==
  ASSUME HistoryInv, NEW h \in Handler, NEW a \in Activity, a = handler[h], a # None,
         NEW m, NEW w, ApplyMutation(h, m, w, None), Wrote(a, m, w) => CaseStep
  PROVE  Stepped(h)
<1>1. CASE handler' = [handler EXCEPT ![h] = None]
  <2>1. CaseStep \/ RecordsSame
    BY MutationCases
  <2>2. QED BY <1>1, <2>1 DEF Stepped
<1>2. CASE RecordsSame /\ handler' = [handler EXCEPT ![h] = Refused(a)]
  <2>1. CASE Refused(a) = None
    BY <1>2, <2>1 DEF Stepped
  <2>2. CASE a.op = "relay" /\ Refused(a) = [a EXCEPT !.pc = "failed"]
    <3>1. Knows(a) /\ Forward
      BY <1>2, KnowsItself, SameForward DEF RecordsSame
    <3>2. Knows([a EXCEPT !.pc = "failed"])'
      BY <3>1, KnowsThen DEF Learns
    <3>3. [a EXCEPT !.pc = "failed"] \in Activity
      BY DEF Activity, Pc
    <3>4. QED BY <1>2, <2>2, <3>2, <3>3 DEF Stepped
  <2>3. QED BY <2>1, <2>2 DEF Refused
<1>3. QED BY <1>1, <1>2, MutationCases

\* A commit after which the handler goes on, and what a replay of it concludes.
LEMMA MutationGoesOn ==
  ASSUME HistoryInv, NEW h \in Handler, NEW a \in Activity, a = handler[h], a # None,
         NEW m, NEW w, NEW pc \in {"reread", "complete", "fail"},
         ApplyMutation(h, m, w, [a EXCEPT !.pc = pc]),
         Wrote(a, m, w) => CaseStep /\ Learns(a, pc)',
         [key |-> m.key, fp |-> m.fp] \in receipts => Learns(a, pc)
  PROVE  Stepped(h)
<1> DEFINE next == [a EXCEPT !.pc = pc]
<1>1. next \in Activity /\ [a EXCEPT !.pc = "failed"] \in Activity
  BY DEF Activity, Pc
<1>2. Knows(a)
  BY KnowsItself
<1>3. CASE Wrote(a, m, w) /\ handler' = [handler EXCEPT ![h] = next]
  <2>1. CaseStep /\ Learns(a, pc)'
    BY <1>3
  <2>2. Forward
    BY <2>1, CaseStepKeeps DEF RecordsKept
  <2>3. Knows(next)'
    BY <1>2, <2>1, <2>2, KnowsThen
  <2>4. QED BY <1>1, <1>3, <2>1, <2>3 DEF Stepped
<1>4. CASE /\ RecordsSame /\ handler' = [handler EXCEPT ![h] = next]
           /\ [key |-> m.key, fp |-> m.fp] \in receipts
  <2>1. Forward /\ Knows(next)
    BY <1>2, <1>4, SameForward, KnowsNext DEF RecordsSame
  <2>2. Knows(next)'
    BY <1>1, <2>1, KnowsKept
  <2>3. QED BY <1>1, <1>4, <2>2 DEF Stepped
<1>5. CASE RecordsSame /\ handler' = [handler EXCEPT ![h] = Refused(a)]
  <2>1. CASE Refused(a) = None
    BY <1>5, <2>1 DEF Stepped
  <2>2. CASE a.op = "relay" /\ Refused(a) = [a EXCEPT !.pc = "failed"]
    <3>1. Forward
      BY <1>5, SameForward DEF RecordsSame
    <3>2. Knows([a EXCEPT !.pc = "failed"])'
      BY <1>2, <3>1, KnowsThen DEF Learns
    <3>3. QED BY <1>1, <1>5, <2>2, <3>2 DEF Stepped
  <2>3. QED BY <2>1, <2>2 DEF Refused
<1>6. QED BY <1>3, <1>4, <1>5, MutationCases

\* What an accepted mutation amounts to.
LEMMA WroteFields ==
  ASSUME HistoryInv, NEW a \in Activity, NEW m, NEW w \in Records, Wrote(a, m, w),
         m.fact => m.event \in FactEvents
  PROVE  /\ Committed(m.event, m.target, m.key) /\ a.seen = passport
         /\ passport'.risk = w.case.risk /\ passport'.wrong = w.case.wrong
         /\ passport'.accepted = w.case.accepted
         /\ passport'.identity = w.case.identity /\ passport'.approval = w.case.approval
         /\ handoff' = w.handoff /\ tokens' = w.tokens /\ outbox' = w.outbox
<1>1. w.case \in PassportRecord /\ passport' = [w.case EXCEPT !.state = m.target,
                                                             !.version = passport.version + 1]
  BY DEF Records, Wrote
<1>2. /\ passport'.state = m.target /\ passport'.version = passport.version + 1
      /\ passport'.risk = w.case.risk /\ passport'.wrong = w.case.wrong
      /\ passport'.accepted = w.case.accepted
      /\ passport'.identity = w.case.identity /\ passport'.approval = w.case.approval
  BY <1>1 DEF PassportRecord
<1>3. TransitionAllowed(passport.state, m.target, m.event \in FactEvents)
  BY DEF Wrote, TransitionAllowed
<1>4. \E fp : receipts' = receipts \cup {[key |-> m.key, fp |-> fp]}
  BY DEF Wrote
<1>5. QED BY <1>2, <1>3, <1>4 DEF Wrote, Committed

\* The same of a mutation that moves the case, and of one that only tells a fact.
LEMMA PlainFields ==
  ASSUME HistoryInv, NEW a \in Activity, NEW name, NEW event, NEW to, NEW w \in Records,
         Wrote(a, Mutation(name, a, event, to), w)
  PROVE  /\ Committed(event, to, <<name, a.key>>) /\ a.seen = passport
         /\ <<passport.state, to>> \in AllowedTransitions
         /\ passport'.risk = w.case.risk /\ passport'.wrong = w.case.wrong
         /\ passport'.accepted = w.case.accepted
         /\ passport'.identity = w.case.identity /\ passport'.approval = w.case.approval
         /\ handoff' = w.handoff /\ tokens' = w.tokens /\ outbox' = w.outbox
<1> DEFINE m == Mutation(name, a, event, to)
<1>1. m.key = <<name, a.key>> /\ m.event = event /\ m.target = to /\ m.fact = FALSE
  BY DEF Mutation
<1>2. Wrote(a, m, w)
  OBVIOUS
<1> HIDE DEF m
<1>3. <<passport.state, to>> \in AllowedTransitions
  BY <1>1, <1>2 DEF Wrote, TransitionAllowed
<1>4. QED BY <1>1, <1>2, <1>3, WroteFields

LEMMA FactFields ==
  ASSUME HistoryInv, NEW a \in Activity, NEW name, NEW event \in FactEvents, NEW w \in Records,
         Wrote(a, FactMutation(name, a, event), w)
  PROVE  /\ Committed(event, passport.state, <<name, a.key>>) /\ a.seen = passport
         /\ passport'.risk = w.case.risk /\ passport'.wrong = w.case.wrong
         /\ passport'.accepted = w.case.accepted
         /\ passport'.identity = w.case.identity /\ passport'.approval = w.case.approval
         /\ handoff' = w.handoff /\ tokens' = w.tokens /\ outbox' = w.outbox
<1> DEFINE m == FactMutation(name, a, event)
<1>1. m.key = <<name, a.key>> /\ m.event = event /\ m.target = a.seen.state /\ m.fact = TRUE
  BY DEF Mutation, FactMutation
<1>2. Wrote(a, m, w)
  OBVIOUS
<1> HIDE DEF m
<1>3. QED BY <1>1, <1>2, WroteFields

LEMMA CommittedLogged ==
  ASSUME HistoryInv, NEW event, NEW to, NEW key, Committed(event, to, key)
  PROVE  Logged(event)'
<1>1. Len(log) \in Nat /\ DOMAIN log = 1..Len(log) /\ log \in Seq(EventRecord)
  BY InvParts, LogLength DEF TypeOK
<1> DEFINE e == [event |-> event, from |-> passport.state, to |-> to, key |-> key]
<1>2. log' = Append(log, e) /\ e.event = event
  BY DEF Committed
<1> HIDE DEF e
<1>3. Len(log) + 1 \in DOMAIN log' /\ log'[Len(log) + 1] = e
  BY <1>1, <1>2
<1>4. QED BY <1>2, <1>3 DEF Logged

-----------------------------------------------------------------------------
(* The commits before a reservation *)

\* A mutation that decides and leaves the gates alone.
LEMMA PlainDecides ==
  ASSUME HistoryInv, NEW a \in Activity, NEW name \in KeyName, NEW event \in EventType,
         NEW to \in CustodyState, NEW w \in Records,
         Wrote(a, Mutation(name, a, event, to), w),
         passport.state \notin Granted \cup Stopped, DecidesOn(event, name, to),
         w.case.risk = passport.risk, w.case.wrong = passport.wrong,
         w.case.accepted = passport.accepted, w.case.identity = passport.identity,
         w.case.approval = passport.approval, w.handoff = handoff, w.tokens = tokens,
         \A kind \in Kind : w.outbox[kind] = outbox[kind] \/ w.outbox[kind].status = "OPEN"
  PROVE  CaseStep /\ Logged(event)'
<1>1. /\ Committed(event, to, <<name, a.key>>) /\ a.key \in Source
      /\ passport'.risk = w.case.risk /\ passport'.wrong = w.case.wrong
      /\ passport'.accepted = w.case.accepted
      /\ passport'.identity = w.case.identity /\ passport'.approval = w.case.approval
      /\ handoff' = w.handoff /\ tokens' = w.tokens /\ outbox' = w.outbox
  BY PlainFields, ActivityFields
<1>2. Attests(to)
  BY <1>1 DEF Attests
<1>3. Decides
  BY <1>1, <1>2 DEF Decides
<1>4. QED BY <1>1, <1>3, CommittedLogged DEF CaseStep

\* The records that are written back as they are.
LEMMA UnwrittenFields ==
  /\ Unwritten.case = passport /\ Unwritten.handoff = handoff
  /\ Unwritten.tokens = tokens /\ Unwritten.outbox = outbox
BY DEF Unwritten

LEMMA AnalysisSteps ==
  ASSUME HistoryInv, NEW h \in Handler,
         PacketReady(h) \/ RequestAnalysis(h) \/ ProposeCandidates(h) \/ StopAnalysis(h)
           \/ AskPrivateQuestion(h)
  PROVE  Stepped(h)
<1>1. TypeOK /\ handler \in [Handler -> Activity \cup {None}] /\ ReceiptsTold
  BY InvParts DEF TypeOK
<1>2. handler[h] # None
  BY DEF At, PacketReady, RequestAnalysis, ProposeCandidates, StopAnalysis, AskPrivateQuestion
<1>3. PICK a \in Activity : a = handler[h] /\ a # None
  BY <1>1, <1>2
<1>4. /\ Unwritten \in Records
      /\ \A b \in BOOLEAN : [Unwritten EXCEPT !.case.selected = b] \in Records
  BY <1>1, UnwrittenRecords DEF TypeOK, Unwritten, Records, PassportRecord
<1>5. CASE PacketReady(h)
  <2> DEFINE m == Mutation("evidence-ready", a, "EVIDENCE_PACKET_READY", "EVIDENCE_READY")
  <2>1. a.seen.state = "RECEIVED" /\ ApplyMutation(h, m, Unwritten, [a EXCEPT !.pc = "reread"])
    BY <1>3, <1>5 DEF PacketReady
  <2>2. Wrote(a, m, Unwritten) => CaseStep
    <3>1. /\ "evidence-ready" \in KeyName /\ "EVIDENCE_PACKET_READY" \in EventType
          /\ "EVIDENCE_READY" \in CustodyState
          /\ "RECEIVED" \notin Granted \cup Stopped
          /\ DecidesOn("EVIDENCE_PACKET_READY", "evidence-ready", "EVIDENCE_READY")
      BY DEF KeyName, EventType, CustodyState, Granted, Releasing, Stopped, DecidesOn, AnswerName
    <3>2. Wrote(a, m, Unwritten) => passport.state = "RECEIVED"
      BY <2>1 DEF Wrote
    <3>3. QED BY <1>4, <3>1, <3>2, UnwrittenFields, PlainDecides
  <2>3. Learns(a, "reread") /\ Learns(a, "reread")'
    BY DEF Learns
  <2> HIDE DEF m
  <2>4. QED BY <1>3, <2>1, <2>2, <2>3, MutationGoesOn
<1>6. CASE RequestAnalysis(h)
  <2> DEFINE m == Mutation("analyzing", a, "ANALYSIS_REQUESTED", "ANALYZING")
             w == [Unwritten EXCEPT !.outbox = [@ EXCEPT !["ANALYZE"] = NewRow(a)]]
  <2>1. a.seen.state = "EVIDENCE_READY" /\ ApplyMutation(h, m, w, None)
    BY <1>3, <1>6 DEF RequestAnalysis
  <2>2. /\ w.case = passport /\ w.handoff = handoff /\ w.tokens = tokens
        /\ w.outbox = [outbox EXCEPT !["ANALYZE"] = NewRow(a)]
    BY DEF Unwritten
  <2>3. w \in Records /\ outbox \in [Kind -> OutboxRow] /\ NewRow(a).status = "OPEN"
    BY <1>1, OpensRow DEF TypeOK, Unwritten, Records, Kind, NewRow
  <2>4. \A kind \in Kind : w.outbox[kind] = outbox[kind] \/ w.outbox[kind].status = "OPEN"
    BY <2>2, <2>3
  <2> HIDE DEF w
  <2>5. Wrote(a, m, w) => CaseStep
    <3>1. /\ "analyzing" \in KeyName /\ "ANALYSIS_REQUESTED" \in EventType
          /\ "ANALYZING" \in CustodyState
          /\ "EVIDENCE_READY" \notin Granted \cup Stopped
          /\ DecidesOn("ANALYSIS_REQUESTED", "analyzing", "ANALYZING")
      BY DEF KeyName, EventType, CustodyState, Granted, Releasing, Stopped, DecidesOn, AnswerName
    <3>2. Wrote(a, m, w) => passport.state = "EVIDENCE_READY"
      BY <2>1 DEF Wrote
    <3>3. /\ w.case.risk = passport.risk /\ w.case.wrong = passport.wrong
          /\ w.case.accepted = passport.accepted /\ w.case.identity = passport.identity
          /\ w.case.approval = passport.approval
      BY <2>2
    <3>4. w \in Records /\ w.handoff = handoff /\ w.tokens = tokens
      BY <2>2, <2>3
    <3>5. ASSUME Wrote(a, m, w) PROVE CaseStep
      BY <2>4, <3>1, <3>2, <3>3, <3>4, <3>5, PlainDecides
    <3>6. QED BY <3>5
  <2> HIDE DEF m
  <2>6. QED BY <1>3, <2>1, <2>5, MutationEnds
<1>7. \A b \in BOOLEAN :
        /\ [Unwritten EXCEPT !.case.selected = b].case.risk = passport.risk
        /\ [Unwritten EXCEPT !.case.selected = b].case.wrong = passport.wrong
        /\ [Unwritten EXCEPT !.case.selected = b].case.accepted = passport.accepted
        /\ [Unwritten EXCEPT !.case.selected = b].case.identity = passport.identity
        /\ [Unwritten EXCEPT !.case.selected = b].case.approval = passport.approval
        /\ [Unwritten EXCEPT !.case.selected = b].handoff = handoff
        /\ [Unwritten EXCEPT !.case.selected = b].tokens = tokens
        /\ [Unwritten EXCEPT !.case.selected = b].outbox = outbox
  BY <1>1 DEF TypeOK, PassportRecord, Unwritten
<1>8. CASE ProposeCandidates(h)
  <2> DEFINE m == Mutation("candidates-ready", a, "CANDIDATE_PACKET_PROPOSED", "CANDIDATES_READY")
             w == [Unwritten EXCEPT !.case.selected = TRUE]
  <2>1. a.seen.state = "ANALYZING" /\ ApplyMutation(h, m, w, [a EXCEPT !.pc = "reread"])
    BY <1>3, <1>8 DEF ProposeCandidates
  <2>2. Wrote(a, m, w) => CaseStep
    <3>1. /\ "candidates-ready" \in KeyName /\ "CANDIDATE_PACKET_PROPOSED" \in EventType
          /\ "CANDIDATES_READY" \in CustodyState
          /\ "ANALYZING" \notin Granted \cup Stopped
          /\ DecidesOn("CANDIDATE_PACKET_PROPOSED", "candidates-ready", "CANDIDATES_READY")
      BY DEF KeyName, EventType, CustodyState, Granted, Releasing, Stopped, DecidesOn, AnswerName
    <3>2. Wrote(a, m, w) => passport.state = "ANALYZING"
      BY <2>1 DEF Wrote
    <3>3. w \in Records /\ w.case.risk = passport.risk /\ w.case.wrong = passport.wrong
          /\ w.case.accepted = passport.accepted /\ w.case.identity = passport.identity
          /\ w.case.approval = passport.approval
          /\ w.handoff = handoff /\ w.tokens = tokens /\ w.outbox = outbox
      BY <1>4, <1>7
    <3> HIDE DEF w
    <3>4. QED BY <3>1, <3>2, <3>3, PlainDecides
  <2>3. Learns(a, "reread") /\ Learns(a, "reread")'
    BY DEF Learns
  <2> HIDE DEF m, w
  <2>4. QED BY <1>3, <2>1, <2>2, <2>3, MutationGoesOn
<1>9. CASE AskPrivateQuestion(h)
  <2> DEFINE m == Mutation("clarification-required", a, "PRIVATE_EVIDENCE_REQUESTED",
                           "CLARIFICATION_REQUIRED")
  <2>1. a.seen.state = "CANDIDATES_READY" /\ ApplyMutation(h, m, Unwritten, [a EXCEPT !.pc = "reread"])
    BY <1>3, <1>9 DEF AskPrivateQuestion
  <2>2. Wrote(a, m, Unwritten) => CaseStep
    <3>1. /\ "clarification-required" \in KeyName /\ "PRIVATE_EVIDENCE_REQUESTED" \in EventType
          /\ "CLARIFICATION_REQUIRED" \in CustodyState
          /\ "CANDIDATES_READY" \notin Granted \cup Stopped
          /\ DecidesOn("PRIVATE_EVIDENCE_REQUESTED", "clarification-required", "CLARIFICATION_REQUIRED")
      BY DEF KeyName, EventType, CustodyState, Granted, Releasing, Stopped, DecidesOn, AnswerName
    <3>2. Wrote(a, m, Unwritten) => passport.state = "CANDIDATES_READY"
      BY <2>1 DEF Wrote
    <3>3. QED BY <1>4, <3>1, <3>2, UnwrittenFields, PlainDecides
  <2>3. Learns(a, "reread") /\ Learns(a, "reread")'
    BY DEF Learns
  <2> HIDE DEF m
  <2>4. QED BY <1>3, <2>1, <2>2, <2>3, MutationGoesOn
<1>10. CASE StopAnalysis(h)
  <2> DEFINE m == Mutation("agent-abstained", a, "ANALYST_ABSTAINED", "MANUAL_REVIEW")
             w == [Unwritten EXCEPT !.case.selected = FALSE]
             n == Mutation("manual-review", a, "ANALYST_UNAVAILABLE", "MANUAL_REVIEW")
  <2>1. /\ a.seen.state = "ANALYZING" /\ a.op = "worker"
        /\ \/ ApplyMutation(h, m, w, [a EXCEPT !.pc = "complete"])
           \/ ApplyMutation(h, n, Unwritten, [a EXCEPT !.pc = "fail"])
    BY <1>3, <1>10 DEF StopAnalysis, At
  <2>2. /\ {"agent-abstained", "manual-review"} \subseteq KeyName
        /\ {"ANALYST_ABSTAINED", "ANALYST_UNAVAILABLE"} \subseteq EventType
        /\ "MANUAL_REVIEW" \in CustodyState
        /\ "ANALYZING" \notin Granted \cup Stopped
        /\ DecidesOn("ANALYST_ABSTAINED", "agent-abstained", "MANUAL_REVIEW")
        /\ DecidesOn("ANALYST_UNAVAILABLE", "manual-review", "MANUAL_REVIEW")
    BY DEF KeyName, EventType, CustodyState, Granted, Releasing, Stopped, DecidesOn, AnswerName
  <2>3. CASE ApplyMutation(h, m, w, [a EXCEPT !.pc = "complete"])
    <3>1. w \in Records /\ w.case.risk = passport.risk /\ w.case.wrong = passport.wrong
          /\ w.case.accepted = passport.accepted /\ w.case.identity = passport.identity
          /\ w.case.approval = passport.approval
          /\ w.handoff = handoff /\ w.tokens = tokens /\ w.outbox = outbox
      BY <1>4, <1>7
    <3> HIDE DEF w
    <3>2. Wrote(a, m, w) => CaseStep /\ Logged("ANALYST_ABSTAINED")'
      <4>1. Wrote(a, m, w) => passport.state = "ANALYZING"
        BY <2>1 DEF Wrote
      <4>2. QED BY <2>2, <3>1, <4>1, PlainDecides
    <3>3. Wrote(a, m, w) => Learns(a, "complete")'
      BY <2>1, <3>2 DEF Learns
    <3>4. [key |-> m.key, fp |-> m.fp] \in receipts => Learns(a, "complete")
      <4>1. m.key = <<"agent-abstained", a.key>>
        BY DEF Mutation
      <4> HIDE DEF m
      <4>2. [key |-> m.key, fp |-> m.fp].key[1] = "agent-abstained"
        BY <4>1
      <4>3. QED BY <1>1, <2>1, <4>2 DEF ReceiptsTold, Learns
    <3> HIDE DEF m
    <3>5. QED BY <1>3, <2>3, <3>2, <3>3, <3>4, MutationGoesOn
  <2>4. CASE ApplyMutation(h, n, Unwritten, [a EXCEPT !.pc = "fail"])
    <3>1. Wrote(a, n, Unwritten) => CaseStep /\ Logged("ANALYST_UNAVAILABLE")'
      <4>1. Wrote(a, n, Unwritten) => passport.state = "ANALYZING"
        BY <2>1 DEF Wrote
      <4>2. QED BY <1>4, <2>2, <4>1, UnwrittenFields, PlainDecides
    <3>2. Wrote(a, n, Unwritten) => Learns(a, "fail")'
      BY <2>1, <3>1 DEF Learns
    <3>3. [key |-> n.key, fp |-> n.fp] \in receipts => Learns(a, "fail")
      <4>1. n.key = <<"manual-review", a.key>>
        BY DEF Mutation
      <4> HIDE DEF n
      <4>2. [key |-> n.key, fp |-> n.fp].key[1] = "manual-review"
        BY <4>1
      <4>3. QED BY <1>1, <2>1, <4>2 DEF ReceiptsTold, Learns
    <3> HIDE DEF n
    <3>4. QED BY <1>3, <2>4, <3>1, <3>2, <3>3, MutationGoesOn
  <2>5. QED BY <2>1, <2>3, <2>4
<1>11. QED BY <1>5, <1>6, <1>8, <1>9, <1>10

LEMMA GateSteps ==
  ASSUME HistoryInv, NEW h \in Handler,
         CommitIdentity(h) \/ RequireApproval(h) \/ CommitApproval(h) \/ CommitReservation(h)
  PROVE  Stepped(h)
<1>1. TypeOK /\ handler \in [Handler -> Activity \cup {None}]
  BY InvParts DEF TypeOK
<1>2. handler[h] # None
  BY DEF At, CommitIdentity, RequireApproval, CommitApproval, CommitReservation
<1>3. PICK a \in Activity : a = handler[h] /\ a # None
  BY <1>1, <1>2
<1>4. Unwritten \in Records /\ Knows(a) /\ Sound(a) /\ a.key \in Source
  BY <1>1, <1>3, UnwrittenRecords, KnowsItself
<1>5. CASE CommitIdentity(h)
  <2> DEFINE m == Mutation("attested", a, "IDENTITY_ATTESTED", "IDENTITY_ATTESTED")
             w == [Unwritten EXCEPT !.case.identity = TRUE]
  <2>1. ApplyMutation(h, m, w, [a EXCEPT !.pc = "reread"])
    BY <1>3, <1>5 DEF CommitIdentity
  <2>2. /\ w \in Records /\ w.case.risk = passport.risk /\ w.case.wrong = passport.wrong
        /\ w.case.accepted = passport.accepted /\ w.case.identity = TRUE
        /\ w.case.approval = passport.approval
        /\ w.handoff = handoff /\ w.tokens = tokens /\ w.outbox = outbox
    BY <1>1 DEF TypeOK, Unwritten, Records, PassportRecord
  <2> HIDE DEF w
  <2>3. ASSUME Wrote(a, m, w) PROVE CaseStep
    <3>1. /\ Committed("IDENTITY_ATTESTED", "IDENTITY_ATTESTED", <<"attested", a.key>>)
          /\ <<passport.state, "IDENTITY_ATTESTED">> \in AllowedTransitions
          /\ passport'.risk = w.case.risk /\ passport'.wrong = w.case.wrong
          /\ passport'.accepted = w.case.accepted
          /\ passport'.identity = w.case.identity /\ passport'.approval = w.case.approval
          /\ handoff' = w.handoff /\ tokens' = w.tokens /\ outbox' = w.outbox
      BY <2>2, <2>3, PlainFields
    <3>2. passport.state = "CLAIM_EVIDENCE_ACCEPTED"
      BY <3>1 DEF AllowedTransitions
    <3>3. /\ "attested" \in KeyName /\ "IDENTITY_ATTESTED" \in EventType
          /\ "IDENTITY_ATTESTED" \in CustodyState
          /\ "CLAIM_EVIDENCE_ACCEPTED" \notin Granted \cup Stopped
      BY DEF KeyName, EventType, CustodyState, Granted, Releasing, Stopped
    <3>4. DecidesOn("IDENTITY_ATTESTED", "attested", "IDENTITY_ATTESTED")
      BY <2>2, <3>1, <3>2 DEF Granted, Releasing, DecidesOn, AnswerName
    <3>5. Attests("IDENTITY_ATTESTED")
      BY <2>2, <3>1, <3>2 DEF Attests
    <3>6. Decides
      BY <1>4, <2>2, <3>1, <3>2, <3>3, <3>4, <3>5 DEF Decides
    <3>7. QED BY <3>6 DEF CaseStep
  <2>4. Learns(a, "reread") /\ Learns(a, "reread")'
    BY DEF Learns
  <2> HIDE DEF m
  <2>5. QED BY <1>3, <2>1, <2>3, <2>4, MutationGoesOn
<1>6. CASE RequireApproval(h)
  <2> DEFINE m == Mutation("approval-required", a, "SUPERVISOR_APPROVAL_REQUIRED", "APPROVAL_REQUIRED")
  <2>1. ApplyMutation(h, m, Unwritten, None)
    BY <1>3, <1>6 DEF RequireApproval
  <2>2. ASSUME Wrote(a, m, Unwritten) PROVE CaseStep
    <3>1. passport.state = "IDENTITY_ATTESTED"
      <4>1. <<passport.state, "APPROVAL_REQUIRED">> \in AllowedTransitions
        BY <1>4, <2>2, PlainFields
      <4>2. QED BY <4>1 DEF AllowedTransitions
    <3>2. /\ "approval-required" \in KeyName /\ "SUPERVISOR_APPROVAL_REQUIRED" \in EventType
          /\ "APPROVAL_REQUIRED" \in CustodyState
          /\ "IDENTITY_ATTESTED" \notin Granted \cup Stopped
      BY DEF KeyName, EventType, CustodyState, Granted, Releasing, Stopped
    <3>3. DecidesOn("SUPERVISOR_APPROVAL_REQUIRED", "approval-required", "APPROVAL_REQUIRED")
      BY <3>1 DEF Granted, Releasing, DecidesOn, AnswerName
    <3>4. QED BY <1>4, <2>2, <3>1, <3>2, <3>3, UnwrittenFields, PlainDecides
  <2> HIDE DEF m
  <2>3. QED BY <1>3, <2>1, <2>2, MutationEnds
<1>7. CASE CommitApproval(h)
  <2> DEFINE m == FactMutation("approved", a, "SUPERVISOR_APPROVED")
             w == [Unwritten EXCEPT !.case.approval = TRUE]
             n == Mutation("rejected-by-supervisor", a, "SUPERVISOR_REJECTED", "REJECTED")
  <2>1. a.op = "approval" /\ (ApplyMutation(h, m, w, None) \/ ApplyMutation(h, n, Unwritten, None))
    BY <1>3, <1>7 DEF CommitApproval, At
  <2>2. a.seen.state = "APPROVAL_REQUIRED"
    BY <1>4, <2>1 DEF Knows
  <2>3. /\ w \in Records /\ w.case.risk = passport.risk /\ w.case.wrong = passport.wrong
        /\ w.case.accepted = passport.accepted /\ w.case.identity = passport.identity
        /\ w.case.approval = TRUE
        /\ w.handoff = handoff /\ w.tokens = tokens /\ w.outbox = outbox
    BY <1>1 DEF TypeOK, Unwritten, Records, PassportRecord
  <2>4. /\ {"approved", "rejected-by-supervisor"} \subseteq KeyName
        /\ {"SUPERVISOR_APPROVED", "SUPERVISOR_REJECTED"} \subseteq EventType
        /\ {"APPROVAL_REQUIRED", "REJECTED"} \subseteq CustodyState
        /\ "APPROVAL_REQUIRED" \notin Granted \cup Stopped
    BY DEF KeyName, EventType, CustodyState, Granted, Releasing, Stopped
  <2> HIDE DEF w
  <2>5. CASE ApplyMutation(h, m, w, None)
    <3>1. ASSUME Wrote(a, m, w) PROVE CaseStep
      <4>1. "SUPERVISOR_APPROVED" \in FactEvents
        BY DEF FactEvents
      <4>2. /\ Committed("SUPERVISOR_APPROVED", passport.state, <<"approved", a.key>>)
            /\ a.seen = passport
            /\ passport'.risk = w.case.risk /\ passport'.wrong = w.case.wrong
            /\ passport'.accepted = w.case.accepted
            /\ passport'.identity = w.case.identity /\ passport'.approval = w.case.approval
            /\ handoff' = w.handoff /\ tokens' = w.tokens /\ outbox' = w.outbox
        BY <2>3, <3>1, <4>1, FactFields
      <4>3. passport.state = "APPROVAL_REQUIRED"
        BY <2>2, <4>2
      <4>4. DecidesOn("SUPERVISOR_APPROVED", "approved", "APPROVAL_REQUIRED")
        BY <4>3 DEF Granted, Releasing, DecidesOn, AnswerName
      <4>5. Attests("APPROVAL_REQUIRED")
        BY <2>3, <4>2, <4>3 DEF Attests
      <4>6. Decides
        BY <1>4, <2>3, <2>4, <4>2, <4>3, <4>4, <4>5 DEF Decides
      <4>7. QED BY <4>6 DEF CaseStep
    <3> HIDE DEF m
    <3>2. QED BY <1>3, <2>5, <3>1, MutationEnds
  <2>6. CASE ApplyMutation(h, n, Unwritten, None)
    <3>1. ASSUME Wrote(a, n, Unwritten) PROVE CaseStep
      <4>1. passport.state = "APPROVAL_REQUIRED"
        BY <2>2, <3>1 DEF Wrote
      <4>2. DecidesOn("SUPERVISOR_REJECTED", "rejected-by-supervisor", "REJECTED")
        BY DEF Granted, Releasing, DecidesOn, AnswerName
      <4>3. QED BY <1>4, <2>4, <3>1, <4>1, <4>2, UnwrittenFields, PlainDecides
    <3> HIDE DEF n
    <3>2. QED BY <1>3, <2>6, <3>1, MutationEnds
  <2>7. QED BY <2>1, <2>5, <2>6
<1>8. CASE CommitReservation(h)
  <2> DEFINE m == Mutation("reserve", a, "RELAY_RESERVATION_REQUESTED", "RESERVE_REQUESTED")
             w == [Unwritten EXCEPT !.case.handoff = TRUE,
                                    !.handoff = [NoHandoff EXCEPT !.status = "PENDING"],
                                    !.outbox = [@ EXCEPT !["RESERVE"] = NewRow(a)]]
  <2>1. a.op = "reserve" /\ ApplyMutation(h, m, w, None)
    BY <1>3, <1>8 DEF CommitReservation, At
  <2>2. [NoHandoff EXCEPT !.status = "PENDING"] \in HandoffRecord
    BY NoHandoffType DEF HandoffRecord, HandoffStatus
  <2>3. /\ w \in Records /\ w.case.risk = passport.risk /\ w.case.wrong = passport.wrong
        /\ w.case.accepted = passport.accepted /\ w.case.identity = passport.identity
        /\ w.case.approval = passport.approval
    BY <1>1, <2>2, OpensRow DEF TypeOK, Unwritten, Records, PassportRecord, Kind
  <2>4. /\ w.handoff = [NoHandoff EXCEPT !.status = "PENDING"] /\ w.tokens = tokens
        /\ w.outbox = [outbox EXCEPT !["RESERVE"] = NewRow(a)]
    BY DEF Unwritten
  <2>5. /\ \A other \in Kind \ {"RESERVE"} : w.outbox[other] = outbox[other]
        /\ w.outbox["RESERVE"].status = "OPEN"
    <3> HIDE DEF w
    <3>1. NewRow(a).status = "OPEN" /\ "RESERVE" \in Kind
      BY DEF Kind, NewRow
    <3>2. outbox \in [Kind -> OutboxRow]
      BY <1>1 DEF TypeOK
    <3>3. QED BY <2>4, <3>1, <3>2
  <2> HIDE DEF w
  <2>6. ASSUME Wrote(a, m, w) PROVE CaseStep
    <3>1. /\ Committed("RELAY_RESERVATION_REQUESTED", "RESERVE_REQUESTED", <<"reserve", a.key>>)
          /\ <<passport.state, "RESERVE_REQUESTED">> \in AllowedTransitions /\ a.seen = passport
          /\ passport'.risk = w.case.risk /\ passport'.wrong = w.case.wrong
          /\ passport'.accepted = w.case.accepted
          /\ passport'.identity = w.case.identity /\ passport'.approval = w.case.approval
          /\ handoff' = w.handoff /\ tokens' = w.tokens /\ outbox' = w.outbox
      BY <2>3, <2>6, PlainFields
    <3>2. passport.state \in {"IDENTITY_ATTESTED", "APPROVAL_REQUIRED"}
      BY <3>1 DEF AllowedTransitions
    <3>3. ReleasePolicy(passport) = "ALLOW_HANDOFF"
      BY <1>4, <2>1, <3>1 DEF Sound
    <3>4. SameClaim /\ OnlyOpens("RESERVE")
      BY <2>3, <2>5, <3>1 DEF SameClaim, OnlyOpens
    <3>5. Requests
      BY <1>4, <2>4, <3>1, <3>2, <3>3, <3>4 DEF Requests
    <3>6. QED BY <3>5 DEF CaseStep
  <2> HIDE DEF m
  <2>7. QED BY <1>3, <2>1, <2>6, MutationEnds
<1>9. QED BY <1>5, <1>6, <1>7, <1>8

-----------------------------------------------------------------------------
(* The commits from a reservation on *)

LEMMA RelaySteps ==
  ASSUME HistoryInv, NEW h \in Handler, CommitAttestation(h) \/ RequireReconciliation(h)
  PROVE  Stepped(h)
<1>1. TypeOK /\ ReceiptsTold /\ handler \in [Handler -> Activity \cup {None}]
  BY InvParts DEF TypeOK
<1>2. handler[h] # None
  BY DEF At, CommitAttestation, RequireReconciliation
<1>3. PICK a \in Activity : a = handler[h] /\ a # None
  BY <1>1, <1>2
<1>4. /\ Unwritten \in Records /\ Knows(a) /\ Sound(a) /\ a.key \in Source
      /\ a.hand \in HandoffRecord
  BY <1>1, <1>3, UnwrittenRecords, KnowsItself, ActivityFields
<1>5. CASE CommitAttestation(h)
  <2> DEFINE kind   == a.arg
             target == IF kind = "RESERVE" THEN "RESERVED" ELSE "RELEASED"
             status == IF kind = "RESERVE" THEN "HELD" ELSE "RELEASED"
             plain  == Mutation("relay-attestation", a, OutcomeEvent(kind), target)
             m == [plain EXCEPT !.fp = IF kind = "RESERVE" THEN <<a.op, h>> ELSE <<a.op>>]
             hand == [a.hand EXCEPT !.status = status]
             w == [Unwritten EXCEPT !.handoff = hand]
  <2>1. /\ a.op \in {"relay", "callback"} /\ a.pc = "commit"
        /\ ApplyMutation(h, m, w, [a EXCEPT !.pc = "complete"])
    BY <1>3, <1>5 DEF CommitAttestation
  <2>2. /\ kind \in {"RESERVE", "RELEASE"} /\ a.key = kind /\ kind \in remote
        /\ kind = "RELEASE" => ReleaseUnderWay
        /\ a.seen.state = RequestState(kind)
    BY <1>4, <2>1 DEF Knows, Sound
  <2>3. /\ m.key = <<"relay-attestation", kind>> /\ m.event = OutcomeEvent(kind)
        /\ m.target = target /\ m.fact = FALSE
    BY <2>2 DEF Mutation
  <2>4. hand \in HandoffRecord
    BY <1>4 DEF HandoffRecord, HandoffStatus
  <2>5. /\ w \in Records /\ w.case = passport /\ w.handoff = hand
        /\ w.tokens = tokens /\ w.outbox = outbox
    BY <1>1, <2>4 DEF TypeOK, Unwritten, Records
  <2> HIDE DEF m, w
  <2>6. ASSUME Wrote(a, m, w) PROVE CaseStep /\ Logged(OutcomeEvent(kind))'
    <3>1. /\ Committed(m.event, m.target, m.key) /\ a.seen = passport
          /\ passport'.risk = w.case.risk /\ passport'.wrong = w.case.wrong
          /\ passport'.accepted = w.case.accepted
          /\ passport'.identity = w.case.identity /\ passport'.approval = w.case.approval
          /\ handoff' = w.handoff /\ tokens' = w.tokens /\ outbox' = w.outbox
      BY <2>3, <2>5, <2>6, WroteFields
    <3>2. a.hand = handoff
      BY <2>1, <2>6 DEF Wrote, WritesHandoffBack
    <3>3. \E s : handoff' = [handoff EXCEPT !.status = s]
      BY <2>5, <3>1, <3>2
    <3>4. SameClaim /\ UNCHANGED <<tokens, outbox>>
      BY <2>5, <3>1 DEF SameClaim
    <3>5. Committed(OutcomeEvent(kind), target, <<"relay-attestation", kind>>)
      BY <2>3, <3>1
    <3>6. RelayActed(kind)
      BY <2>2, <3>1, <3>3, <3>4, <3>5 DEF RelayActed
    <3>7. QED BY <2>2, <3>5, <3>6, CommittedLogged DEF CaseStep
  <2>7. Wrote(a, m, w) => Learns(a, "complete")'
    BY <2>1, <2>6 DEF Learns
  <2>8. [key |-> m.key, fp |-> m.fp] \in receipts => Learns(a, "complete")
    <3>1. /\ [key |-> m.key, fp |-> m.fp].key[1] = "relay-attestation"
          /\ [key |-> m.key, fp |-> m.fp].key[2] = kind
      BY <2>3
    <3>2. QED BY <1>1, <2>1, <3>1 DEF ReceiptsTold, Learns
  <2>9. QED BY <1>3, <2>1, <2>6, <2>7, <2>8, MutationGoesOn
<1>6. CASE RequireReconciliation(h)
  <2> DEFINE m == Mutation("reconcile", a, "RELAY_RECONCILIATION_REQUIRED", "RECONCILIATION_REQUIRED")
  <2>1. a.op = "relay" /\ ApplyMutation(h, m, Unwritten, [a EXCEPT !.pc = "fail"])
    BY <1>3, <1>6 DEF RequireReconciliation, At
  <2>2. a.key \in {"RESERVE", "RELEASE"}
    BY <1>4, <2>1 DEF Knows, Sound
  <2>3. ASSUME Wrote(a, m, Unwritten)
        PROVE  CaseStep /\ passport'.state = "RECONCILIATION_REQUIRED"
    <3>1. /\ Committed("RELAY_RECONCILIATION_REQUIRED", "RECONCILIATION_REQUIRED",
                       <<"reconcile", a.key>>)
          /\ <<passport.state, "RECONCILIATION_REQUIRED">> \in AllowedTransitions
          /\ passport'.risk = passport.risk /\ passport'.wrong = passport.wrong
          /\ passport'.accepted = passport.accepted
          /\ passport'.identity = passport.identity /\ passport'.approval = passport.approval
          /\ UNCHANGED <<handoff, tokens, outbox>>
      BY <1>4, <2>3, UnwrittenFields, PlainFields
    <3>2. passport.state \in {"RESERVE_REQUESTED", "RELEASE_REQUESTED"}
      BY <3>1 DEF AllowedTransitions
    <3>3. Reconciles(a.key)
      BY <3>1, <3>2 DEF Reconciles, SameClaim
    <3>4. QED BY <2>2, <3>1, <3>3 DEF CaseStep, Committed
  <2>4. Wrote(a, m, Unwritten) => Learns(a, "fail")'
    BY <2>1, <2>3 DEF Learns
  <2>5. [key |-> m.key, fp |-> m.fp] \in receipts => Learns(a, "fail")
    <3>1. m.key = <<"reconcile", a.key>>
      BY DEF Mutation
    <3> HIDE DEF m
    <3>2. [key |-> m.key, fp |-> m.fp].key[1] = "reconcile"
      BY <3>1
    <3>3. QED BY <1>1, <2>1, <3>2 DEF ReceiptsTold, Learns
  <2> HIDE DEF m
  <2>6. QED BY <1>3, <2>1, <2>3, <2>4, <2>5, MutationGoesOn
<1>7. QED BY <1>5, <1>6

LEMMA ReleaseSteps ==
  ASSUME HistoryInv, NEW h \in Handler, CommitTokens(h) \/ CommitRelease(h) \/ CommitClose(h)
  PROVE  Stepped(h)
<1>1. TypeOK /\ handler \in [Handler -> Activity \cup {None}]
  BY InvParts DEF TypeOK
<1>2. handler[h] # None
  BY DEF At, CommitTokens, CommitRelease, CommitClose
<1>3. PICK a \in Activity : a = handler[h] /\ a # None
  BY <1>1, <1>2
<1>4. /\ Unwritten \in Records /\ Knows(a) /\ Sound(a) /\ a.key \in Source
      /\ a.hand \in HandoffRecord
  BY <1>1, <1>3, UnwrittenRecords, KnowsItself, ActivityFields
<1>5. CASE CommitTokens(h)
  <2> DEFINE m == FactMutation("tokens", a, "ONE_TIME_CREDENTIALS_ISSUED")
             hand == [a.hand EXCEPT !.issued = TRUE]
             w == [Unwritten EXCEPT !.handoff = hand, !.tokens = [p \in Purpose |-> "UNUSED"]]
  <2>1. a.op = "tokens" /\ a.pc = "commit" /\ ApplyMutation(h, m, w, None)
    BY <1>3, <1>5 DEF CommitTokens, At
  <2>2. a.seen.state = "RESERVED" /\ ~a.hand.issued
    BY <1>4, <2>1 DEF Knows
  <2>3. hand \in HandoffRecord
    BY <1>4 DEF HandoffRecord
  <2>4. /\ w \in Records /\ w.case = passport /\ w.handoff = hand
        /\ w.tokens = [p \in Purpose |-> "UNUSED"] /\ w.outbox = outbox
    BY <1>1, <2>3 DEF TypeOK, Unwritten, Records
  <2> HIDE DEF w
  <2>5. ASSUME Wrote(a, m, w) PROVE CaseStep
    <3>1. "ONE_TIME_CREDENTIALS_ISSUED" \in FactEvents
      BY DEF FactEvents
    <3>2. /\ Committed("ONE_TIME_CREDENTIALS_ISSUED", passport.state, <<"tokens", a.key>>)
          /\ a.seen = passport
          /\ passport'.risk = w.case.risk /\ passport'.wrong = w.case.wrong
          /\ passport'.accepted = w.case.accepted
          /\ passport'.identity = w.case.identity /\ passport'.approval = w.case.approval
          /\ handoff' = w.handoff /\ tokens' = w.tokens /\ outbox' = w.outbox
      BY <2>4, <2>5, <3>1, FactFields
    <3>3. a.hand = handoff
      BY <2>1, <2>5 DEF Wrote, WritesHandoffBack
    <3>4. SameClaim
      BY <2>4, <3>2 DEF SameClaim
    <3>5. handoff' = [handoff EXCEPT !.issued = TRUE] /\ ~handoff.issued
      BY <2>2, <2>4, <3>2, <3>3
    <3>6. Issues
      BY <1>4, <2>2, <2>4, <3>2, <3>4, <3>5 DEF Issues
    <3>7. QED BY <3>6 DEF CaseStep
  <2> HIDE DEF m
  <2>6. QED BY <1>3, <2>1, <2>5, MutationEnds
<1>6. CASE CommitRelease(h)
  <2> DEFINE m == Mutation("release", a, "RELAY_RELEASE_REQUESTED", "RELEASE_REQUESTED")
             hand == [a.hand EXCEPT !.confirmed = TRUE]
             w == [Unwritten EXCEPT !.handoff = hand, !.outbox = [@ EXCEPT !["RELEASE"] = NewRow(a)]]
  <2>1. a.op = "release" /\ a.pc = "commit" /\ ApplyMutation(h, m, w, None)
    BY <1>3, <1>6 DEF CommitRelease, At
  <2>2. BothAttested(a.hand)
    BY <1>4, <2>1 DEF Knows
  <2>3. hand \in HandoffRecord
    BY <1>4 DEF HandoffRecord
  <2>4. /\ w \in Records /\ w.case = passport /\ w.handoff = hand
        /\ w.tokens = tokens /\ w.outbox = [outbox EXCEPT !["RELEASE"] = NewRow(a)]
    BY <1>1, <2>3, OpensRow DEF TypeOK, Unwritten, Records, Kind
  <2> HIDE DEF w
  <2>5. /\ \A other \in Kind \ {"RELEASE"} : w.outbox[other] = outbox[other]
        /\ w.outbox["RELEASE"].status = "OPEN"
    <3>1. NewRow(a).status = "OPEN" /\ "RELEASE" \in Kind
      BY DEF Kind, NewRow
    <3>2. outbox \in [Kind -> OutboxRow]
      BY <1>1 DEF TypeOK
    <3>3. QED BY <2>4, <3>1, <3>2
  <2>6. ASSUME Wrote(a, m, w) PROVE CaseStep
    <3>1. /\ Committed("RELAY_RELEASE_REQUESTED", "RELEASE_REQUESTED", <<"release", a.key>>)
          /\ <<passport.state, "RELEASE_REQUESTED">> \in AllowedTransitions
          /\ passport'.risk = w.case.risk /\ passport'.wrong = w.case.wrong
          /\ passport'.accepted = w.case.accepted
          /\ passport'.identity = w.case.identity /\ passport'.approval = w.case.approval
          /\ handoff' = w.handoff /\ tokens' = w.tokens /\ outbox' = w.outbox
      BY <2>4, <2>6, PlainFields
    <3>2. passport.state = "CLAIMANT_PRESENT"
      BY <3>1 DEF AllowedTransitions
    <3>3. a.hand = handoff
      BY <2>1, <2>6 DEF Wrote, WritesHandoffBack
    <3>4. SameClaim /\ OnlyOpens("RELEASE")
      BY <2>4, <2>5, <3>1 DEF SameClaim, OnlyOpens
    <3>5. handoff' = [handoff EXCEPT !.confirmed = TRUE] /\ BothAttested(handoff)
      BY <2>2, <2>4, <3>1, <3>3
    <3>6. Confirms
      BY <1>4, <2>4, <3>1, <3>2, <3>4, <3>5 DEF Confirms
    <3>7. QED BY <3>6 DEF CaseStep
  <2> HIDE DEF m
  <2>7. QED BY <1>3, <2>1, <2>6, MutationEnds
<1>7. CASE CommitClose(h)
  <2> DEFINE m == Mutation("close", a, "ITEM_PASSPORT_CLOSED", "CLOSED")
  <2>1. ApplyMutation(h, m, Unwritten, None)
    BY <1>3, <1>7 DEF CommitClose
  <2>2. ASSUME Wrote(a, m, Unwritten) PROVE CaseStep
    <3>1. /\ Committed("ITEM_PASSPORT_CLOSED", "CLOSED", <<"close", a.key>>)
          /\ <<passport.state, "CLOSED">> \in AllowedTransitions
          /\ passport'.risk = passport.risk /\ passport'.wrong = passport.wrong
          /\ passport'.accepted = passport.accepted
          /\ passport'.identity = passport.identity /\ passport'.approval = passport.approval
          /\ UNCHANGED <<handoff, tokens, outbox>>
      BY <1>4, <2>2, UnwrittenFields, PlainFields
    <3>2. passport.state = "RELEASED"
      BY <3>1 DEF AllowedTransitions
    <3>3. Closes
      BY <1>4, <3>1, <3>2 DEF Closes, SameClaim
    <3>4. QED BY <3>3 DEF CaseStep
  <2> HIDE DEF m
  <2>3. QED BY <1>3, <2>1, <2>2, MutationEnds
<1>8. QED BY <1>5, <1>6, <1>7

LEMMA TokenSteps ==
  ASSUME HistoryInv, NEW h \in Handler, ConsumeToken(h)
  PROVE  Stepped(h)
<1>1. TypeOK /\ handler \in [Handler -> Activity \cup {None}]
  BY InvParts DEF TypeOK
<1>2. handler[h] # None
  BY DEF At, ConsumeToken
<1>3. PICK a \in Activity : a = handler[h] /\ a # None
  BY <1>1, <1>2
<1>4. a.op = "attest" /\ Knows(a) /\ a.key \in Source
  BY <1>3, KnowsItself DEF ConsumeToken, At
<1>5. a.seen.state \in {"RESERVED", "CLAIMANT_PRESENT"} /\ a.arg \in Purpose
  BY <1>4 DEF Knows
<1> DEFINE target == IF a.arg = "CLAIMANT" /\ a.seen.state = "RESERVED"
                     THEN "CLAIMANT_PRESENT" ELSE a.seen.state
           plain == Mutation("token-attest", a, "TOKEN_PRESENTED", target)
           m == [plain EXCEPT !.fact = (target = passport.state)]
           hand == [handoff EXCEPT !.attested = [@ EXCEPT ![a.arg] = TRUE]]
           w == [Unwritten EXCEPT !.handoff.attested = [@ EXCEPT ![a.arg] = TRUE],
                                  !.tokens = [@ EXCEPT ![a.arg] = "USED"]]
<1>6. CASE Goto(h, None)
  BY <1>6 DEF Goto, Stepped, RecordsSame, data
<1>7. CASE tokens[a.arg] = "UNUSED" /\ ApplyMutation(h, m, w, None)
  <2>1. /\ m.key = <<"token-attest", a.key>> /\ m.event = "TOKEN_PRESENTED" /\ m.target = target
    BY DEF Mutation
  <2>2. hand \in HandoffRecord /\ [tokens EXCEPT ![a.arg] = "USED"] \in [Purpose -> {"ABSENT", "UNUSED", "USED"}]
    BY <1>1, <1>5 DEF TypeOK, HandoffRecord
  <2>3. /\ w.case = passport /\ w.handoff = hand
        /\ w.tokens = [tokens EXCEPT ![a.arg] = "USED"] /\ w.outbox = outbox
    BY DEF Unwritten
  <2>4. w \in Records
    BY <1>1, <2>2 DEF TypeOK, Unwritten, Records
  <2> HIDE DEF m, w
  <2>5. ASSUME Wrote(a, m, w) PROVE CaseStep
    <3>1. m.event \in FactEvents
      BY <2>1 DEF FactEvents
    <3>2. /\ Committed(m.event, m.target, m.key) /\ a.seen = passport
          /\ passport'.risk = w.case.risk /\ passport'.wrong = w.case.wrong
          /\ passport'.accepted = w.case.accepted
          /\ passport'.identity = w.case.identity /\ passport'.approval = w.case.approval
          /\ handoff' = w.handoff /\ tokens' = w.tokens /\ outbox' = w.outbox
      BY <2>4, <2>5, <3>1, WroteFields
    <3>3. Committed("TOKEN_PRESENTED", target, <<"token-attest", a.key>>)
      BY <2>1, <3>2
    <3>4. target \in {"RESERVED", "CLAIMANT_PRESENT"}
      BY <1>5
    <3>5. SameClaim
      BY <2>3, <3>2 DEF SameClaim
    <3>6. passport.state \in {"RESERVED", "CLAIMANT_PRESENT"}
      BY <1>5, <3>2
    <3>7. handoff' = hand /\ tokens' = [tokens EXCEPT ![a.arg] = "USED"] /\ outbox' = outbox
      BY <2>3, <3>2
    <3> HIDE DEF target
    <3>8. Presents(a.arg)
      BY <1>4, <1>7, <3>3, <3>4, <3>5, <3>6, <3>7 DEF Presents
    <3>9. QED BY <1>5, <3>8 DEF CaseStep
  <2>6. QED BY <1>3, <1>7, <2>5, MutationEnds
<1>8. QED BY <1>3, <1>6, <1>7 DEF ConsumeToken

\* The batch of an answer is a chain, and tells of the answer.
LEMMA ClaimStepsChain ==
  ASSUME NEW a
  PROVE  LET steps == ClaimSteps(a)
             last  == steps[Len(steps)].to
         IN /\ Chain(steps)
            /\ a.arg = "correct" =>
                 /\ EventsOf(steps) \subseteq {"PRIVATE_EVIDENCE_RECEIVED",
                                               "CANDIDATE_PACKET_RECHECKED",
                                               "CLAIM_EVIDENCE_ACCEPTED"}
                 /\ last = "CLAIM_EVIDENCE_ACCEPTED"
            /\ a.arg # "correct" =>
                 /\ EventsOf(steps) \subseteq {"CLAIM_EVIDENCE_REJECTED",
                                               "CLAIM_ATTEMPT_LIMIT_REACHED",
                                               "MANUAL_REVIEW_REQUIRED"}
                 /\ "CLAIM_EVIDENCE_REJECTED" \in EventsOf(steps)
                 /\ last = IF a.seen.wrong + 1 > WrongAnswerLimit
                           THEN "MANUAL_REVIEW" ELSE "CLARIFICATION_REQUIRED"
<1> DEFINE steps == ClaimSteps(a)
           S(name, event, to) == [name |-> name, event |-> event, to |-> to]
<1>1. CASE a.arg = "correct"
  <2>1. /\ Len(steps) = 3
        /\ steps[1] = S("received", "PRIVATE_EVIDENCE_RECEIVED", "ANALYZING")
        /\ steps[2] = S("rechecked", "CANDIDATE_PACKET_RECHECKED", "CANDIDATES_READY")
        /\ steps[3] = S("accepted", "CLAIM_EVIDENCE_ACCEPTED", "CLAIM_EVIDENCE_ACCEPTED")
    BY <1>1 DEF ClaimSteps
  <2> HIDE DEF steps
  <2>2. \A i \in 1..Len(steps) : i \in {1, 2, 3}
    BY <2>1
  <2>3. Chain(steps)
    BY <2>1, <2>2 DEF Chain, TransitionAllowed, AllowedTransitions, AnswerName
  <2>4. EventsOf(steps) \subseteq {"PRIVATE_EVIDENCE_RECEIVED", "CANDIDATE_PACKET_RECHECKED",
                                   "CLAIM_EVIDENCE_ACCEPTED"}
    BY <2>1, <2>2 DEF EventsOf
  <2>5. QED BY <1>1, <2>1, <2>3, <2>4 DEF steps
<1>2. CASE a.arg # "correct" /\ a.seen.wrong + 1 > WrongAnswerLimit
  <2>1. /\ Len(steps) = 3
        /\ steps[1] = S("rejected", "CLAIM_EVIDENCE_REJECTED", "CLARIFICATION_REQUIRED")
        /\ steps[2] = S("attempt-limit", "CLAIM_ATTEMPT_LIMIT_REACHED", "ANALYZING")
        /\ steps[3] = S("claim-review", "MANUAL_REVIEW_REQUIRED", "MANUAL_REVIEW")
    BY <1>2 DEF ClaimSteps
  <2> HIDE DEF steps
  <2>2. /\ \A i \in 1..Len(steps) : i \in {1, 2, 3}
        /\ 1 \in 1..Len(steps)
    BY <2>1
  <2>3. Chain(steps)
    BY <2>1, <2>2 DEF Chain, TransitionAllowed, AllowedTransitions, AnswerName, FactEvents
  <2>4. /\ EventsOf(steps) \subseteq {"CLAIM_EVIDENCE_REJECTED", "CLAIM_ATTEMPT_LIMIT_REACHED",
                                      "MANUAL_REVIEW_REQUIRED"}
        /\ "CLAIM_EVIDENCE_REJECTED" \in EventsOf(steps)
    BY <2>1, <2>2 DEF EventsOf
  <2>5. QED BY <1>2, <2>1, <2>3, <2>4 DEF steps
<1>3. CASE a.arg # "correct" /\ ~(a.seen.wrong + 1 > WrongAnswerLimit)
  <2>1. /\ Len(steps) = 1
        /\ steps[1] = S("rejected", "CLAIM_EVIDENCE_REJECTED", "CLARIFICATION_REQUIRED")
    BY <1>3 DEF ClaimSteps
  <2> HIDE DEF steps
  <2>2. /\ \A i \in 1..Len(steps) : i = 1
        /\ 1 \in 1..Len(steps)
    BY <2>1
  <2>3. Chain(steps)
    BY <2>1, <2>2 DEF Chain, TransitionAllowed, AnswerName, FactEvents
  <2>4. /\ EventsOf(steps) \subseteq {"CLAIM_EVIDENCE_REJECTED"}
        /\ "CLAIM_EVIDENCE_REJECTED" \in EventsOf(steps)
    BY <2>1, <2>2 DEF EventsOf
  <2>5. QED BY <1>3, <2>1, <2>3, <2>4 DEF steps
<1>4. QED BY <1>1, <1>2, <1>3

LEMMA ClaimAnswers ==
  ASSUME HistoryInv, NEW h \in Handler, CommitClaimEvidence(h)
  PROVE  Stepped(h)
<1>1. TypeOK /\ SnapshotsCurrent /\ handler \in [Handler -> Activity \cup {None}]
  BY InvParts DEF TypeOK, IInv
<1>2. handler[h] # None
  BY DEF At, CommitClaimEvidence
<1>3. PICK a \in Activity : a = handler[h] /\ a # None
  BY <1>1, <1>2
<1>4. handler' = [handler EXCEPT ![h] = None] /\ remote' = remote
  BY DEF CommitClaimEvidence
<1>5. CASE UNCHANGED data
  BY <1>4, <1>5 DEF Stepped, RecordsSame, data
<1>6. CASE ~UNCHANGED data
  <2> DEFINE steps == ClaimSteps(a)
             n == Len(steps)
             key == <<"claim", a.key>>
  <2>1. /\ \A r \in receipts : r.key # key
        /\ passport.version = a.seen.version
        /\ passport.state = "CLARIFICATION_REQUIRED"
        /\ passport' = [passport EXCEPT
                !.state = steps[n].to,
                !.version = @ + n,
                !.accepted = @ \/ a.arg = "correct",
                !.wrong = IF a.arg = "correct" THEN @ ELSE a.seen.wrong + 1]
        /\ log' = log \o [i \in 1..n |->
                [event |-> steps[i].event,
                 from |-> IF i = 1 THEN passport.state ELSE steps[i - 1].to,
                 to |-> steps[i].to, key |-> <<steps[i].name, a.key>>]]
        /\ receipts' = receipts \cup {[key |-> key, fp |-> <<a.seen.version, a.arg>>]}
        /\ UNCHANGED <<handoff, tokens, outbox>>
    BY <1>3, <1>6 DEF CommitClaimEvidence
  <2>2. a.seen = passport /\ a.key \in Source
    BY <1>1, <1>3, <2>1, ActivityFields DEF SnapshotsCurrent
  <2>3. steps \in Seq(ClaimStep) /\ Len(steps) \in Nat \ {0}
    BY ClaimStepsShape
  <2>4. /\ Chain(steps)
        /\ a.arg = "correct" =>
             /\ EventsOf(steps) \subseteq {"PRIVATE_EVIDENCE_RECEIVED", "CANDIDATE_PACKET_RECHECKED",
                                           "CLAIM_EVIDENCE_ACCEPTED"}
             /\ steps[n].to = "CLAIM_EVIDENCE_ACCEPTED"
        /\ a.arg # "correct" =>
             /\ EventsOf(steps) \subseteq {"CLAIM_EVIDENCE_REJECTED", "CLAIM_ATTEMPT_LIMIT_REACHED",
                                           "MANUAL_REVIEW_REQUIRED"}
             /\ "CLAIM_EVIDENCE_REJECTED" \in EventsOf(steps)
             /\ steps[n].to = IF a.seen.wrong + 1 > WrongAnswerLimit
                              THEN "MANUAL_REVIEW" ELSE "CLARIFICATION_REQUIRED"
    BY ClaimStepsChain
  <2> HIDE DEF steps
  <2>5. /\ passport'.state = steps[n].to /\ passport'.version = passport.version + n
        /\ passport'.accepted = (passport.accepted \/ a.arg = "correct")
        /\ passport'.wrong = IF a.arg = "correct" THEN passport.wrong ELSE a.seen.wrong + 1
        /\ passport'.risk = passport.risk /\ passport'.identity = passport.identity
        /\ passport'.approval = passport.approval
    BY <1>1, <2>1 DEF TypeOK, PassportRecord
  <2>6. log' = log \o [i \in 1..Len(steps) |-> BatchEvent(steps, a.key, i)]
    BY <2>1 DEF BatchEvent
  <2>7. \E fp : receipts' = receipts \cup {[key |-> <<"claim", a.key>>, fp |-> fp]}
    BY <2>1
  <2>8. Answers(steps, a.key)
    BY <1>4, <2>1, <2>5, <2>6, <2>7 DEF Answers
  <2>9. passport.accepted \in BOOLEAN
    BY <1>1 DEF TypeOK, PassportRecord
  <2>10. AnsweredWell(steps) \/ AnsweredBadly(steps)
    <3>1. CASE a.arg = "correct"
      BY <2>4, <2>5, <3>1 DEF AnsweredWell
    <3>2. CASE a.arg # "correct"
      <4>1. passport'.accepted = passport.accepted
        BY <2>5, <2>9, <3>2
      <4>2. QED BY <2>2, <2>4, <2>5, <3>2, <4>1 DEF AnsweredBadly
    <3>3. QED BY <3>1, <3>2
  <2>11. Answered
    BY <2>2, <2>3, <2>4, <2>8, <2>10 DEF Answered
  <2>12. QED BY <1>4, <2>11 DEF Stepped, CaseStep
<1>7. QED BY <1>5, <1>6

LEMMA CommitsStep ==
  ASSUME HistoryInv, NEW h \in Handler, Commit(h)
  PROVE  Stepped(h)
BY AnalysisSteps, GateSteps, RelaySteps, ReleaseSteps, TokenSteps, ClaimAnswers DEF Commit

-----------------------------------------------------------------------------
(* The steps that commit nothing *)

LEMMA GotoSteps ==
  ASSUME HistoryInv, NEW h \in Handler, NEW next \in Activity \cup {None}, Goto(h, next),
         next # None => next \in Activity /\ Knows(next)
  PROVE  Stepped(h)
<1>1. handler' = [handler EXCEPT ![h] = next] /\ RecordsSame
  BY DEF Goto, data, RecordsSame
<1>2. Forward
  BY <1>1, SameForward DEF RecordsSame
<1>3. next # None => Knows(next)'
  BY <1>2, KnowsKept
<1>4. QED BY <1>1, <1>3 DEF Stepped

LEMMA GotoNoneSteps ==
  ASSUME HistoryInv, NEW h \in Handler, Goto(h, None)
  PROVE  Stepped(h)
BY DEF Goto, data, RecordsSame, Stepped

\* What a handler knows when it starts.
Opens(op, pc, k, arg) ==
  /\ op = "approval" => passport.state = "APPROVAL_REQUIRED"
  /\ op = "tokens" => passport.state = "RESERVED" /\ pc = "handoff"
  /\ op = "attest" => passport.state \in {"RESERVED", "CLAIMANT_PRESENT"} /\ arg \in Purpose
  /\ op = "release" => pc = "handoff"
  /\ op \in {"relay", "callback"} =>
       /\ k = arg /\ pc \in {"remote", "attested"}
       /\ arg = "RELEASE" => ReleaseUnderWay
       /\ pc = "attested" => arg \in remote
  /\ op = "worker" =>
       /\ arg = "ANALYZE"
       /\ pc = "complete" => Logged("PRIVATE_EVIDENCE_REQUESTED") \/ Logged("ANALYST_ABSTAINED")
       /\ pc = "fail" => Logged("ANALYST_UNAVAILABLE")
  /\ pc \in {"complete", "fail"} => op = "worker"
  /\ pc = "attested" => op = "callback"

LEMMA BeginSteps ==
  ASSUME HistoryInv, NEW h \in Handler, NEW op \in Operation, NEW pc \in Pc, NEW k \in Source,
         NEW arg \in Argument, Begin(h, op, pc, k, arg), Opens(op, pc, k, arg)
  PROVE  Stepped(h)
<1> DEFINE b == [op |-> op, pc |-> pc, key |-> k, arg |-> arg, seen |-> passport,
                 hand |-> NoHandoff]
<1>1. b \in Activity
  BY InvParts, NoHandoffType DEF TypeOK, Activity
<1>2. Goto(h, b)
  BY DEF Begin, Goto
<1>3. /\ b.op = op /\ b.pc = pc /\ b.key = k /\ b.arg = arg /\ b.seen = passport
  OBVIOUS
<1> HIDE DEF b
<1>4. PICK next \in Activity : next = b
  BY <1>1
<1>5. Knows(next)
  BY <1>3, <1>4 DEF Opens, Knows
<1>6. QED BY <1>2, <1>4, <1>5, GotoSteps

LEMMA StartsStep ==
  ASSUME HistoryInv, NEW h \in Handler, Start(h)
  PROVE  Stepped(h)
<1> USE DEF Operation, Pc, Source, Argument, Purpose, Kind
<1>1. ASSUME NEW k \in Key, StartAnalysis(h, k) PROVE Stepped(h)
  BY <1>1, BeginSteps DEF StartAnalysis, Opens
<1>2. ASSUME NEW k \in Key, AttestIdentity(h, k) PROVE Stepped(h)
  BY <1>2, BeginSteps DEF AttestIdentity, Opens
<1>3. ASSUME NEW k \in Key, BeginReservation(h, k) PROVE Stepped(h)
  BY <1>3, BeginSteps DEF BeginReservation, Opens
<1>4. ASSUME NEW k \in Key, IssueTokens(h, k) PROVE Stepped(h)
  BY <1>4, BeginSteps DEF IssueTokens, Opens
<1>5. ASSUME NEW k \in Key, BeginRelease(h, k) PROVE Stepped(h)
  BY <1>5, BeginSteps DEF BeginRelease, Opens
<1>6. ASSUME NEW k \in Key, CloseCase(h, k) PROVE Stepped(h)
  BY <1>6, BeginSteps DEF CloseCase, Opens
<1>7. ASSUME NEW k \in Key, NEW answer \in {"correct", "wrong"},
             SubmitClaimEvidence(h, k, answer)
      PROVE  Stepped(h)
  BY <1>7, BeginSteps DEF SubmitClaimEvidence, Opens
<1>8. ASSUME NEW k \in Key, NEW verdict \in {"approve", "reject"},
             RecordApproval(h, k, verdict)
      PROVE  Stepped(h)
  BY <1>8, BeginSteps DEF RecordApproval, Opens
<1>9. ASSUME NEW k \in Key, NEW p \in Purpose, AttestToken(h, k, p) PROVE Stepped(h)
  BY <1>9, BeginSteps DEF AttestToken, Opens
<1>10. CASE DeliverAnalysis(h)
  <2>1. PICK pc \in {"commit", "complete", "fail"} :
          /\ pc = "complete" => \/ passport.state = "CLARIFICATION_REQUIRED"
                                \/ Logged("ANALYST_ABSTAINED")
          /\ pc = "fail" => Logged("ANALYST_UNAVAILABLE")
          /\ Begin(h, "worker", pc, "ANALYZE", "ANALYZE")
    BY <1>10 DEF DeliverAnalysis
  <2>2. passport.state = "CLARIFICATION_REQUIRED" => Logged("PRIVATE_EVIDENCE_REQUESTED")
    BY InvParts DEF StateFits
  <2>3. Opens("worker", pc, "ANALYZE", "ANALYZE")
    BY <2>1, <2>2 DEF Opens
  <2>4. QED BY <2>1, <2>3, BeginSteps
<1>11. ASSUME NEW kind \in {"RESERVE", "RELEASE"}, DeliverRelay(h, kind) PROVE Stepped(h)
  <2>1. kind = "RELEASE" => ReleaseUnderWay
    <3>1. kind = "RELEASE" => passport.state = "RELEASE_REQUESTED"
      BY <1>11 DEF DeliverRelay, RequestState
    <3>2. ReleaseEvidenced
      BY InvParts DEF HandoffEvidence
    <3>3. QED BY <3>1, <3>2 DEF ReleaseEvidenced, ReleaseUnderWay, BothAttested, Releasing
  <2>2. Opens("relay", "remote", kind, kind)
    BY <2>1 DEF Opens
  <2>3. QED BY <1>11, <2>2, BeginSteps DEF DeliverRelay
<1>12. CASE ReceiveCallback(h)
  <2>1. "RELEASE" \in remote /\ Begin(h, "callback", "attested", "RELEASE", "RELEASE")
    BY <1>12 DEF ReceiveCallback
  <2>2. ReleaseUnderWay
    BY <2>1, InvParts DEF HandoffEvidence, ReleaseEvidenced, RelayAgreement, ReleaseUnderWay,
       BothAttested
  <2>3. Opens("callback", "attested", "RELEASE", "RELEASE")
    BY <2>1, <2>2 DEF Opens
  <2>4. QED BY <2>1, <2>3, BeginSteps
<1>13. QED
  BY <1>1, <1>2, <1>3, <1>4, <1>5, <1>6, <1>7, <1>8, <1>9, <1>10, <1>11, <1>12 DEF Start

\* A handler reads the case again, or the handoff, and goes on.
LEMMA ReadsStep ==
  ASSUME HistoryInv, NEW h \in Handler,
         Reread(h) \/ ReadHandoff(h) \/ ReadForAttestation(h) \/ RelayFailed(h) \/ Abandon(h)
  PROVE  Stepped(h)
<1>1. /\ TypeOK /\ handler \in [Handler -> Activity \cup {None}]
      /\ passport \in PassportRecord /\ handoff \in HandoffRecord
  BY InvParts DEF TypeOK
<1>2. handler[h] # None
  BY DEF At, Reread, ReadHandoff, ReadForAttestation, RelayFailed, Abandon
<1>3. PICK a \in Activity : a = handler[h] /\ a # None
  BY <1>1, <1>2
<1>4. Knows(a) /\ Sound(a)
  BY <1>3, KnowsItself
<1>5. ASSUME NEW pc \in Pc, NEW b, b = [a EXCEPT !.pc = pc, !.seen = passport]
      PROVE  /\ b \in Activity /\ b.op = a.op /\ b.pc = pc /\ b.key = a.key /\ b.arg = a.arg
             /\ b.seen = passport /\ b.hand = a.hand
  BY <1>1, <1>5 DEF Activity
<1>6. CASE Reread(h)
  <2>1. a.pc = "reread"
    BY <1>3, <1>6 DEF Reread
  <2> DEFINE commits == [a EXCEPT !.pc = "commit", !.seen = passport]
             second  == [a EXCEPT !.pc = "second", !.seen = passport]
             ends    == [a EXCEPT !.pc = "complete"]
  <2>2. \/ Goto(h, commits) /\ a.op \in {"analysis", "worker"}
        \/ Goto(h, second) /\ a.op = "identity"
        \/ Goto(h, ends) /\ a.op = "worker" /\ passport.state = "CLARIFICATION_REQUIRED"
        \/ Goto(h, None)
    BY <1>3, <1>6 DEF Reread
  <2>3. ends \in Activity
    BY DEF Activity, Pc
  <2>4. ASSUME Goto(h, commits), a.op \in {"analysis", "worker"} PROVE Stepped(h)
    <3>1. /\ commits \in Activity /\ commits.op = a.op /\ commits.pc = "commit"
          /\ commits.key = a.key /\ commits.arg = a.arg /\ commits.seen = passport
      BY <1>5 DEF Pc
    <3> HIDE DEF commits
    <3>2. Knows(commits)
      BY <1>4, <2>4, <3>1 DEF Knows
    <3>3. PICK next \in Activity : next = commits
      BY <3>1
    <3>4. QED BY <2>4, <3>2, <3>3, GotoSteps
  <2>5. ASSUME Goto(h, second), a.op = "identity" PROVE Stepped(h)
    <3>1. /\ second \in Activity /\ second.op = a.op /\ second.pc = "second"
          /\ second.key = a.key /\ second.arg = a.arg /\ second.seen = passport
      BY <1>5 DEF Pc
    <3> HIDE DEF second
    <3>2. Knows(second)
      BY <1>4, <2>5, <3>1 DEF Knows
    <3>3. PICK next \in Activity : next = second
      BY <3>1
    <3>4. QED BY <2>5, <3>2, <3>3, GotoSteps
  <2>6. ASSUME Goto(h, ends), a.op = "worker", passport.state = "CLARIFICATION_REQUIRED"
        PROVE  Stepped(h)
    <3>1. Logged("PRIVATE_EVIDENCE_REQUESTED")
      BY <2>6, InvParts DEF StateFits
    <3>2. Knows(ends)
      BY <1>4, <2>6, <3>1, KnowsNext DEF Learns
    <3> HIDE DEF ends
    <3>3. QED BY <2>3, <2>6, <3>2, GotoSteps
  <2>7. QED BY <2>2, <2>4, <2>5, <2>6, GotoNoneSteps
<1>7. CASE ReadHandoff(h)
  <2> DEFINE reads == [a EXCEPT !.pc = "commit", !.hand = handoff]
  <2>1. /\ a.pc = "handoff"
        /\ \/ Goto(h, None)
           \/ /\ Goto(h, reads)
              /\ a.op = "tokens" => ~handoff.issued
              /\ a.op = "release" => BothAttested(handoff)
    BY <1>3, <1>7 DEF ReadHandoff
  <2>2. /\ reads \in Activity /\ reads.op = a.op /\ reads.pc = "commit" /\ reads.key = a.key
        /\ reads.arg = a.arg /\ reads.seen = a.seen /\ reads.hand = handoff
    BY <1>1 DEF Activity, Pc
  <2> HIDE DEF reads
  <2>3. ASSUME Goto(h, reads), a.op = "tokens" => ~handoff.issued,
               a.op = "release" => BothAttested(handoff)
        PROVE  Stepped(h)
    <3>1. Knows(reads)
      BY <1>4, <2>1, <2>2, <2>3 DEF Knows
    <3>2. PICK next \in Activity : next = reads
      BY <2>2
    <3>3. QED BY <2>3, <3>1, <3>2, GotoSteps
  <2>4. QED BY <2>1, <2>3, GotoNoneSteps
<1>8. CASE ReadForAttestation(h)
  <2> DEFINE ends  == [a EXCEPT !.pc = "complete"]
             reads == [a EXCEPT !.pc = "handoff", !.seen = passport]
             fails == [a EXCEPT !.pc = "failed"]
  <2>1. /\ a.pc = "attested"
        /\ \/ Goto(h, None)
           \/ Goto(h, ends) /\ Logged(OutcomeEvent(a.arg))
           \/ Goto(h, reads) /\ passport.state = RequestState(a.arg)
           \/ Goto(h, fails) /\ a.op = "relay"
    BY <1>3, <1>8 DEF ReadForAttestation
  <2>2. a.op \in {"relay", "callback"}
    BY <1>4, <2>1 DEF Knows
  <2>3. ends \in Activity /\ fails \in Activity
    BY DEF Activity, Pc
  <2>4. ASSUME Goto(h, ends), Logged(OutcomeEvent(a.arg)) PROVE Stepped(h)
    <3>1. Knows(ends)
      BY <1>4, <2>2, <2>4, KnowsNext DEF Learns
    <3> HIDE DEF ends
    <3>2. QED BY <2>3, <2>4, <3>1, GotoSteps
  <2>5. ASSUME Goto(h, fails) PROVE Stepped(h)
    <3>1. Knows(fails)
      BY <1>4, KnowsNext DEF Learns
    <3> HIDE DEF fails
    <3>2. QED BY <2>3, <2>5, <3>1, GotoSteps
  <2>6. ASSUME Goto(h, reads), passport.state = RequestState(a.arg) PROVE Stepped(h)
    <3>1. /\ reads \in Activity /\ reads.op = a.op /\ reads.pc = "handoff"
          /\ reads.key = a.key /\ reads.arg = a.arg /\ reads.seen = passport
      BY <1>5 DEF Pc
    <3> HIDE DEF reads
    <3>2. Knows(reads)
      BY <1>4, <2>1, <2>2, <2>6, <3>1 DEF Knows
    <3>3. PICK next \in Activity : next = reads
      BY <3>1
    <3>4. QED BY <2>6, <3>2, <3>3, GotoSteps
  <2>7. QED BY <2>1, <2>4, <2>5, <2>6, GotoNoneSteps
<1>9. CASE RelayFailed(h)
  <2> DEFINE reads == [a EXCEPT !.pc = "reconcile", !.seen = passport]
  <2>1. a.op = "relay" /\ (Goto(h, None) \/ Goto(h, reads))
    BY <1>3, <1>9 DEF RelayFailed, At
  <2>2. /\ reads \in Activity /\ reads.op = a.op /\ reads.pc = "reconcile"
        /\ reads.key = a.key /\ reads.arg = a.arg /\ reads.seen = passport
    BY <1>5 DEF Pc
  <2> HIDE DEF reads
  <2>3. Knows(reads)
    BY <1>4, <2>1, <2>2 DEF Knows
  <2>4. PICK next \in Activity : next = reads
    BY <2>2
  <2>5. QED BY <2>1, <2>3, <2>4, GotoSteps, GotoNoneSteps
<1>10. CASE Abandon(h)
  BY <1>10, GotoNoneSteps DEF Abandon
<1>11. QED BY <1>6, <1>7, <1>8, <1>9, <1>10

\* Relay Post may have acted: only for a case that expects it.
LEMMA RelayExecuteKeeps ==
  ASSUME HistoryInv, NEW h \in Handler, RelayExecute(h), IInv'
  PROVE  HistoryInv'
<1>1. TypeOK /\ handler \in [Handler -> Activity \cup {None}]
  BY InvParts DEF TypeOK
<1>2. handler[h] # None
  BY DEF At, RelayExecute
<1>3. PICK a \in Activity : a = handler[h] /\ a # None
  BY <1>1, <1>2
<1>4. a.op = "relay" /\ Knows(a) /\ Sound(a)
  BY <1>3, KnowsItself DEF RelayExecute, At
<1>5. /\ UNCHANGED <<passport, handoff, tokens, outbox, log, receipts>>
      /\ remote \subseteq remote' /\ remote' \subseteq remote \cup {a.arg}
  BY <1>3 DEF RelayExecute, data
<1>6. PICK pc \in {"attested", "failed"} :
        /\ handler' = [handler EXCEPT ![h] = [a EXCEPT !.pc = pc]]
        /\ pc = "attested" => a.arg \in remote'
  BY <1>3 DEF RelayExecute
<1> DEFINE b == [a EXCEPT !.pc = pc]
<1>7. /\ b \in Activity /\ b.op = a.op /\ b.pc = pc /\ b.key = a.key /\ b.arg = a.arg
      /\ b.seen = a.seen /\ b.hand = a.hand
  BY DEF Activity, Pc
<1>8. handler' = [handler EXCEPT ![h] = b]
  BY <1>6
<1> HIDE DEF b
<1>9. Forward
  BY <1>5, SameForward
<1>10. Knows(a)'
  BY <1>4, <1>9, KnowsKept
<1>11. Knows(b)'
  BY <1>4, <1>6, <1>7, <1>10 DEF Knows
<1>12. HandlersKnow'
  BY <1>7, <1>8, <1>9, <1>11, HandlersLearn
<1>13. "RELEASE" \in remote' => ReleaseUnderWay
  <2>1. "RELEASE" \in remote => ReleaseUnderWay
    BY InvParts DEF HandoffEvidence, ReleaseEvidenced, RelayAgreement, ReleaseUnderWay,
       BothAttested
  <2>2. a.arg = "RELEASE" => ReleaseUnderWay
    BY <1>4 DEF Knows
  <2>3. QED BY <1>5, <2>1, <2>2
<1>14. HandoffEvidence'
  <2>1. HandoffEvidence
    BY InvParts
  <2>2. ReleaseEvidenced'
    BY <1>5, <1>13, <2>1 DEF HandoffEvidence, ReleaseEvidenced, ReleaseUnderWay, BothAttested
  <2>3. AttestationsMatchTokens'
    BY <1>5, <2>1 DEF HandoffEvidence, AttestationsMatchTokens, Occurrences
  <2>4. QED BY <2>2, <2>3 DEF HandoffEvidence
<1>15. RelayAgreement'
  BY <1>5, <1>13, InvParts DEF RelayAgreement, ReleaseUnderWay
<1>16. EventLedger' /\ KeysReceipted' /\ ReceiptsTold'
  BY <1>5, InvParts DEF EventLedger, KeysReceipted, ReceiptsTold, Logged, OutcomeEvent
<1>17. OutboxTruth' /\ WrongAnswersCounted' /\ StateFits'
  BY <1>5, InvParts DEF OutboxTruth, WrongAnswersCounted, StateFits, Occurrences, Logged,
     OutcomeEvent
<1>18. QED BY <1>12, <1>14, <1>15, <1>16, <1>17 DEF HistoryInv, RecordsFit

\* The last step of a delivery says what the case says.
LEMMA MarksKeep ==
  ASSUME HistoryInv, NEW h \in Handler, MarkComplete(h) \/ MarkFailed(h), IInv'
  PROVE  HistoryInv'
<1>1. TypeOK /\ handler \in [Handler -> Activity \cup {None}] /\ outbox \in [Kind -> OutboxRow]
  BY InvParts DEF TypeOK
<1>2. handler[h] # None
  BY DEF MarkComplete, MarkFailed
<1>3. PICK a \in Activity : a = handler[h] /\ a # None
  BY <1>1, <1>2
<1>4. PICK status \in {"COMPLETE", "FAILED"} :
        /\ MarkOutbox(h, a.arg, status)
        /\ a.pc = IF status = "COMPLETE" THEN "complete" ELSE "fail"
  BY <1>3 DEF MarkComplete, MarkFailed
<1>5. Knows(a) /\ Sound(a)
  BY <1>3, KnowsItself
<1>6. /\ handler' = [handler EXCEPT ![h] = None]
      /\ UNCHANGED <<passport, handoff, tokens, log, receipts, remote>>
  BY <1>4 DEF MarkOutbox
<1>7. a.arg \in Kind /\ a.op \in {"worker", "relay", "callback"}
      /\ (a.op = "worker" => a.arg = "ANALYZE")
      /\ (a.op # "worker" => a.arg \in {"RESERVE", "RELEASE"})
  BY <1>4, <1>5 DEF Knows, Sound, Kind
<1>8. /\ \A kind \in Kind \ {a.arg} : outbox'[kind] = outbox[kind]
      /\ outbox'[a.arg].status = outbox[a.arg].status \/ outbox'[a.arg].status = status
  BY <1>1, <1>4, <1>7 DEF MarkOutbox, OutboxRow
<1>9. Forward
  BY <1>6, SameForward
<1>10. HandlersKnow'
  BY <1>6, <1>9, HandlersLearn
<1>11. OutboxTruth'
  <2>1. OutboxTruth
    BY InvParts
  <2>2. \A e : Logged(e)' <=> Logged(e)
    BY <1>6 DEF Logged
  <2>3. \A e : Cardinality(Occurrences(e))' = Cardinality(Occurrences(e))
    BY <1>6 DEF Occurrences
  <2>4. /\ outbox'["ANALYZE"].status = "COMPLETE" =>
             Logged("PRIVATE_EVIDENCE_REQUESTED") \/ Logged("ANALYST_ABSTAINED")
        /\ outbox'["ANALYZE"].status = "FAILED" => Logged("ANALYST_UNAVAILABLE")
    <3>1. CASE a.arg = "ANALYZE"
      BY <1>4, <1>5, <1>7, <1>8, <2>1, <3>1 DEF Knows, OutboxTruth
    <3>2. CASE a.arg # "ANALYZE"
      BY <1>8, <2>1, <3>2 DEF OutboxTruth, Kind
    <3>3. QED BY <3>1, <3>2
  <2>5. ASSUME NEW kind \in {"RESERVE", "RELEASE"}
        PROVE  /\ outbox'[kind].status = "COMPLETE" => Logged(OutcomeEvent(kind))
               /\ outbox'[kind].status = "FAILED" => passport.state = "RECONCILIATION_REQUIRED"
    <3>1. /\ outbox[kind].status = "COMPLETE" => Logged(OutcomeEvent(kind))
          /\ outbox[kind].status = "FAILED" => passport.state = "RECONCILIATION_REQUIRED"
      BY <2>1 DEF OutboxTruth
    <3>2. CASE a.arg = kind
      <4>1. a.op \in {"relay", "callback"}
        BY <1>7, <3>2
      <4>2. /\ a.pc = "complete" => Logged(OutcomeEvent(kind))
            /\ a.pc = "fail" => passport.state = "RECONCILIATION_REQUIRED"
        BY <1>5, <3>2, <4>1 DEF Knows
      <4>3. QED BY <1>4, <1>8, <3>1, <3>2, <4>2
    <3>3. CASE a.arg # kind
      BY <1>8, <3>1, <3>3 DEF Kind
    <3>4. QED BY <3>2, <3>3
  <2>6. QED BY <1>6, <2>1, <2>2, <2>3, <2>4, <2>5 DEF OutboxTruth, OutcomeEvent
<1>12. EventLedger' /\ KeysReceipted' /\ ReceiptsTold'
  BY <1>6, InvParts DEF EventLedger, KeysReceipted, ReceiptsTold, Logged, OutcomeEvent
<1>13. HandoffEvidence' /\ RelayAgreement' /\ WrongAnswersCounted' /\ StateFits'
  BY <1>6, InvParts DEF HandoffEvidence, ReleaseEvidenced, AttestationsMatchTokens,
     RelayAgreement, WrongAnswersCounted, StateFits, Occurrences, Logged
<1>14. QED BY <1>10, <1>11, <1>12, <1>13 DEF HistoryInv, RecordsFit

-----------------------------------------------------------------------------
(* The history of every behaviour *)

\* A case that was just created.
LEMMA HistoryInit == Init => HistoryInv
<1> SUFFICES ASSUME Init PROVE HistoryInv
  OBVIOUS
<1>1. IInv
  BY InitInvariant
<1> DEFINE created == [event |-> "ITEM_PASSPORT_CREATED", from |-> "RECEIVED", to |-> "RECEIVED",
                       key |-> <<"create", "intake">>]
<1>2. /\ passport.state = "RECEIVED" /\ passport.version = 1 /\ passport.wrong = 0
      /\ handoff = NoHandoff /\ tokens = [p \in Purpose |-> "ABSENT"]
      /\ \A k \in Kind : outbox[k].status = "NONE"
      /\ log = <<created>> /\ receipts = {} /\ remote = {}
      /\ \A h \in Handler : handler[h] = None
  BY DEF Init
<1>3. Len(log) = 1 /\ log[1] = created /\ DOMAIN log = {1}
  BY <1>2
<1>4. EventLedger
  BY <1>2, <1>3 DEF EventLedger
<1>5. KeysReceipted /\ ReceiptsTold
  BY <1>2, <1>3 DEF KeysReceipted, ReceiptsTold
<1>6. \A event \in EventType \ {"ITEM_PASSPORT_CREATED"} :
        ~Logged(event) /\ Occurrences(event) = {}
  BY <1>3 DEF Logged, Occurrences
<1>7. \A event \in EventType \ {"ITEM_PASSPORT_CREATED"} : Cardinality(Occurrences(event)) = 0
  BY <1>6, FS_EmptySet
<1>8. {"TOKEN_PRESENTED", "CLAIM_EVIDENCE_REJECTED", "RELAY_RESERVED", "RELAY_RELEASED"}
        \subseteq EventType \ {"ITEM_PASSPORT_CREATED"}
  BY DEF EventType
<1>9. HandoffEvidence
  <2>1. \A p \in Purpose : ~handoff.attested[p] /\ tokens[p] # "USED"
    BY <1>2 DEF NoHandoff
  <2>2. {p \in Purpose : tokens[p] = "USED"} = {}
    BY <2>1
  <2>3. Cardinality(Occurrences("TOKEN_PRESENTED")) = Cardinality({p \in Purpose : tokens[p] = "USED"})
    BY <1>7, <1>8, <2>2, FS_EmptySet
  <2>4. AttestationsMatchTokens
    BY <2>1, <2>3 DEF AttestationsMatchTokens
  <2>5. ReleaseEvidenced
    BY <1>2 DEF ReleaseEvidenced, Releasing
  <2>6. QED BY <2>4, <2>5 DEF HandoffEvidence
<1>10. RelayAgreement
  BY <1>2 DEF RelayAgreement, Releasing
<1>11. OutboxTruth
  <2>1. \A kind \in {"RESERVE", "RELEASE"} : Cardinality(Occurrences(OutcomeEvent(kind))) = 0
    BY <1>7, <1>8 DEF OutcomeEvent
  <2>2. QED BY <1>2, <2>1 DEF OutboxTruth, Kind
<1>12. WrongAnswersCounted
  BY <1>2, <1>7, <1>8, WrongAnswerLimitAssumption DEF WrongAnswersCounted
<1>13. StateFits
  BY <1>2, <1>6, <1>8 DEF StateFits, Granted, Releasing
<1>14. HandlersKnow
  BY <1>2 DEF HandlersKnow
<1>15. QED
  BY <1>1, <1>4, <1>5, <1>9, <1>10, <1>11, <1>12, <1>13, <1>14 DEF HistoryInv, RecordsFit

\* What one step of one handler can be.
LEMMA NextCases ==
  ASSUME HistoryInv, Next
  PROVE  \E h \in Handler : \/ Stepped(h)
                            \/ RelayExecute(h)
                            \/ MarkComplete(h) \/ MarkFailed(h)
<1>1. PICK h \in Handler : Start(h) \/ Commit(h) \/ Continue(h)
  BY DEF Next
<1>2. CASE Start(h)
  BY <1>2, StartsStep
<1>3. CASE Commit(h)
  BY <1>3, CommitsStep
<1>4. CASE Continue(h)
  BY <1>4, ReadsStep DEF Continue
<1>5. QED BY <1>1, <1>2, <1>3, <1>4

LEMMA HistoryNext == HistoryInv /\ [Next]_vars => HistoryInv'
<1> SUFFICES ASSUME HistoryInv, [Next]_vars PROVE HistoryInv'
  OBVIOUS
<1>1. IInv'
  BY InvParts, NextInvariant
<1>2. CASE Next
  <2>1. PICK h \in Handler : Stepped(h) \/ RelayExecute(h) \/ MarkComplete(h) \/ MarkFailed(h)
    BY <1>2, NextCases
  <2>2. QED BY <1>1, <2>1, SteppedInductive, RelayExecuteKeeps, MarksKeep
<1>3. CASE UNCHANGED vars
  <2>1. RecordsSame /\ handler' = handler
    BY <1>3 DEF vars, data, RecordsSame
  <2>2. Forward
    BY <2>1, SameForward DEF RecordsSame
  <2>3. HandlersKnow'
    <3>1. handler \in [Handler -> Activity \cup {None}] /\ HandlersKnow
      BY InvParts DEF TypeOK, HistoryInv
    <3>2. SUFFICES ASSUME NEW g \in Handler, handler'[g] # None PROVE Knows(handler[g])'
      BY DEF HandlersKnow
    <3>3. PICK b \in Activity : b = handler[g]
      BY <2>1, <3>1, <3>2
    <3>4. Knows(b)'
      BY <2>1, <2>2, <3>1, <3>2, <3>3, KnowsKept DEF HandlersKnow
    <3>5. QED BY <2>1, <3>3, <3>4 DEF Knows
  <2>4. EventLedger' /\ KeysReceipted' /\ ReceiptsTold'
    BY <2>1, InvParts DEF RecordsSame, EventLedger, KeysReceipted, ReceiptsTold, Logged,
       OutcomeEvent
  <2>5. HandoffEvidence' /\ RelayAgreement'
    BY <2>1, InvParts DEF RecordsSame, HandoffEvidence, ReleaseEvidenced, AttestationsMatchTokens,
         RelayAgreement, Occurrences
  <2>6. OutboxTruth' /\ WrongAnswersCounted' /\ StateFits'
    BY <2>1, InvParts DEF RecordsSame, OutboxTruth, WrongAnswersCounted, StateFits, Occurrences,
         Logged, OutcomeEvent
  <2>7. QED BY <1>1, <2>3, <2>4, <2>5, <2>6 DEF HistoryInv, RecordsFit
<1>4. QED BY <1>2, <1>3

LEMMA History == Spec => []HistoryInv
BY HistoryInit, HistoryNext, PTL DEF Spec

\* A behaviour changes the records by the steps above and in no other way.
LEMMA RecordsStep ==
  ASSUME HistoryInv, [Next]_vars
  PROVE  CaseStep \/ UNCHANGED <<passport, handoff, tokens, log>>
<1>1. CASE Next
  <2>1. PICK h \in Handler : Stepped(h) \/ RelayExecute(h) \/ MarkComplete(h) \/ MarkFailed(h)
    BY <1>1, NextCases
  <2>2. CASE Stepped(h)
    BY <2>2 DEF Stepped, RecordsSame
  <2>3. CASE RelayExecute(h)
    BY <2>3 DEF RelayExecute, data
  <2>4. CASE MarkComplete(h) \/ MarkFailed(h)
    BY <2>4 DEF MarkComplete, MarkFailed, MarkOutbox
  <2>5. QED BY <2>1, <2>2, <2>3, <2>4
<1>2. CASE UNCHANGED vars
  BY <1>2 DEF vars, data
<1>3. QED BY <1>1, <1>2

\* No release without both credentials and the confirmation of staff; a
\* credential is used exactly once and its event stands for it, although the
\* handoff is written back from a copy (consume_token, commit_relay_attestation).
THEOREM EvidenceHolds == Spec => []HandoffEvidence
BY History, PTL DEF HistoryInv, RecordsFit

\* The event log is the history of the case: one event for each version, each
\* an edge of the state graph from where the last one ended, and no idempotency
\* key twice (apply_mutation and the batch of a claim answer).
THEOREM LedgerIsHistory == Spec => []EventLedger
BY History, PTL DEF HistoryInv

\* The case claims no effect that Relay Post did not take, and Relay Post never
\* released an item of a case that goes on without knowing (_process_relay).
THEOREM CaseAgreesWithRelay == Spec => []RelayAgreement
BY History, PTL DEF HistoryInv, RecordsFit

\* What an outbox row says at its end is what the case says happened, and a
\* relay command has at most one outcome (mark_outbox, process_outbox).
THEOREM RowsTellTheTruth == Spec => []OutboxTruth
BY History, PTL DEF HistoryInv, RecordsFit

\* Overlapping wrong answers are all counted once, for any limit, and the one
\* that passes the limit stops the case (submit_claim_evidence).
THEOREM AnswersAreCounted == Spec => []WrongAnswersCounted
BY History, PTL DEF HistoryInv, RecordsFit

\* A case that was closed, rejected or handed to an operator is not moved by any
\* handler still under way, late callback or redelivered task.
THEOREM StoppedStays == Spec => StoppedStaysStopped
<1>1. ASSUME HistoryInv, [Next]_vars, passport.state \in Stopped
      PROVE  UNCHANGED <<passport, handoff, tokens, log>>
  <2>1. ~CaseStep
    BY <1>1 DEF CaseStep, Stopped, Decides, Answered, Answers, Requests, RelayActed, RequestState,
       Reconciles, Issues, Presents, Confirms, Closes
  <2>2. QED BY <1>1, <2>1, RecordsStep
<1>2. HistoryInv /\ [Next]_vars =>
        [passport.state \in Stopped => UNCHANGED <<passport, handoff, tokens, log>>]_vars
  BY <1>1
<1>3. QED BY <1>2, History, PTL DEF Spec, StoppedStaysStopped

-----------------------------------------------------------------------------
(* The service implements its promise *)

Established(f) == f \in Facts

LEMMA FactsAre ==
  /\ Facts \subseteq {"proof", "identity", "approval", "CLAIMANT", "CUSTODIAN", "confirmation"}
  /\ Established("proof") <=> passport.accepted
  /\ Established("identity") <=> passport.identity
  /\ Established("approval") <=> passport.approval
  /\ \A p \in Purpose : Established(p) <=> handoff.attested[p]
  /\ Established("confirmation") <=> handoff.confirmed
BY DEF Facts, Purpose, Established

\* A step that takes no fact back and adds these.
LEMMA FactsGrow ==
  ASSUME NEW new \in SUBSET {"proof", "identity", "approval", "CLAIMANT", "CUSTODIAN",
                             "confirmation"},
         passport'.accepted <=> passport.accepted \/ "proof" \in new,
         passport'.identity <=> passport.identity \/ "identity" \in new,
         passport'.approval <=> passport.approval \/ "approval" \in new,
         \A p \in Purpose : handoff'.attested[p] <=> handoff.attested[p] \/ p \in new,
         handoff'.confirmed <=> handoff.confirmed \/ "confirmation" \in new
  PROVE  Facts' = Facts \cup new
<1>1. \A f : f \in Facts' => f \in Facts \cup new
  BY DEF Facts, Purpose
<1>2. \A f : f \in Facts \cup new => f \in Facts'
  BY DEF Facts, Purpose
<1>3. QED BY <1>1, <1>2

LEMMA FactsStay ==
  ASSUME SameClaim, handoff'.attested = handoff.attested, handoff'.confirmed = handoff.confirmed
  PROVE  Facts' = Facts
<1>1. Facts' = Facts \cup {}
  BY FactsGrow DEF SameClaim
<1>2. QED BY <1>1

LEMMA DecidesPromised ==
  ASSUME HistoryInv, Decides
  PROVE  [Promise!Next]_(Promise!vars)
<1>1. PICK to \in CustodyState :
        /\ passport.state \notin Granted \cup Stopped /\ to \notin Granted
        /\ passport'.state = to /\ passport'.risk = passport.risk
        /\ passport'.accepted = passport.accepted
        /\ Attests(to) /\ handoff' = handoff
  BY DEF Decides, Committed, DecidesOn
<1>2. StageOf(passport.state) = "deciding"
  BY <1>1 DEF StageOf, Granted, Releasing, Stopped
<1>3. StageOf(passport.state)' \in {"deciding", "stopped"}
  BY <1>1 DEF StageOf, Granted, Releasing
<1>4. CASE passport'.identity = passport.identity /\ passport'.approval = passport.approval
  <2>1. Facts' = Facts \cup {}
    BY <1>1, <1>4, FactsGrow
  <2>2. Promise!Stop \/ UNCHANGED Promise!vars
    BY <1>1, <1>2, <1>3, <2>1 DEF Promise!Stop, Promise!vars
  <2>3. QED BY <2>2 DEF Promise!Next
<1>5. CASE /\ passport.state = "CLAIM_EVIDENCE_ACCEPTED" /\ to = "IDENTITY_ATTESTED"
           /\ passport'.identity /\ passport'.approval = passport.approval
  <2>1. Facts' = Facts \cup {"identity"}
    BY <1>1, <1>5, FactsGrow DEF Purpose
  <2>2. "proof" \in Facts
    BY <1>5, InvParts, FactsAre DEF StateFits, Established
  <2>3. StageOf(passport.state)' = "deciding"
    BY <1>1, <1>5 DEF StageOf
  <2>4. Promise!Establish("identity")
    BY <1>1, <1>2, <2>1, <2>2, <2>3 DEF Promise!Establish, Promise!StageOf, Promise!Presupposed
  <2>5. QED BY <2>4 DEF Promise!Next, Promise!Fact
<1>6. CASE /\ passport.state = "APPROVAL_REQUIRED" /\ to = "APPROVAL_REQUIRED"
           /\ passport'.approval /\ passport'.identity = passport.identity
  <2>1. Facts' = Facts \cup {"approval"}
    BY <1>1, <1>6, FactsGrow DEF Purpose
  <2>2. {"proof", "identity"} \subseteq Facts
    BY <1>6, InvParts, FactsAre DEF StateFits, Established
  <2>3. StageOf(passport.state)' = "deciding"
    BY <1>1, <1>6 DEF StageOf
  <2>4. Promise!Establish("approval")
    BY <1>1, <1>2, <2>1, <2>2, <2>3 DEF Promise!Establish, Promise!StageOf, Promise!Presupposed
  <2>5. QED BY <2>4 DEF Promise!Next, Promise!Fact
<1>7. QED BY <1>1, <1>4, <1>5, <1>6 DEF Attests

LEMMA AnsweredPromised ==
  ASSUME HistoryInv, Answered
  PROVE  [Promise!Next]_(Promise!vars)
<1>1. PICK steps \in Seq(ClaimStep), k \in Source :
        /\ Answers(steps, k)
        /\ AnsweredWell(steps) \/ AnsweredBadly(steps)
  BY DEF Answered
<1>2. /\ passport.state = "CLARIFICATION_REQUIRED" /\ passport'.risk = passport.risk
      /\ passport'.identity = passport.identity /\ passport'.approval = passport.approval
      /\ handoff' = handoff
  BY <1>1 DEF Answers
<1>3. StageOf(passport.state) = "deciding"
  BY <1>2 DEF StageOf
<1>4. CASE AnsweredWell(steps)
  <2>1. Facts' = Facts \cup {"proof"}
    BY <1>2, <1>4, FactsGrow DEF AnsweredWell, Purpose
  <2>2. StageOf(passport.state)' = "deciding"
    BY <1>4 DEF AnsweredWell, StageOf
  <2>3. Promise!Establish("proof")
    BY <1>2, <1>3, <2>1, <2>2 DEF Promise!Establish, Promise!StageOf, Promise!Presupposed
  <2>4. QED BY <2>3 DEF Promise!Next, Promise!Fact
<1>5. CASE AnsweredBadly(steps)
  <2>1. Facts' = Facts \cup {}
    BY <1>2, <1>5, FactsGrow DEF AnsweredBadly
  <2>2. StageOf(passport.state)' \in {"deciding", "stopped"}
    BY <1>5 DEF AnsweredBadly, StageOf
  <2>3. Promise!Stop \/ UNCHANGED Promise!vars
    BY <1>2, <1>3, <2>1, <2>2 DEF Promise!Stop, Promise!vars
  <2>4. QED BY <2>3 DEF Promise!Next
<1>6. QED BY <1>1, <1>4, <1>5

LEMMA RequestsPromised ==
  ASSUME HistoryInv, Requests
  PROVE  [Promise!Next]_(Promise!vars)
<1>1. /\ passport.state \in {"IDENTITY_ATTESTED", "APPROVAL_REQUIRED"}
      /\ passport'.state = "RESERVE_REQUESTED" /\ SameClaim
      /\ ReleasePolicy(passport) = "ALLOW_HANDOFF"
      /\ handoff' = [NoHandoff EXCEPT !.status = "PENDING"]
  BY DEF Requests, Committed
<1>2. handoff = NoHandoff
  BY <1>1, BeforeRequest DEF Granted, Releasing
<1>3. Facts' = Facts
  BY <1>1, <1>2, FactsStay DEF NoHandoff
<1>4. passport.accepted /\ passport.identity /\ (passport.risk = "VALUABLE" => passport.approval)
  BY <1>1, InvParts DEF StateFits, ReleasePolicy
<1>5. Promise!Gates \subseteq Facts
  BY <1>4, FactsAre DEF Promise!Gates, Established
<1>6. StageOf(passport.state) = "deciding" /\ StageOf(passport.state)' = "requested"
  BY <1>1 DEF StageOf
<1>7. Promise!Request
  BY <1>1, <1>3, <1>5, <1>6 DEF Promise!Request, SameClaim
<1>8. QED BY <1>7 DEF Promise!Next

LEMMA RelayPromised ==
  ASSUME HistoryInv, NEW kind \in {"RESERVE", "RELEASE"}, RelayActed(kind) \/ Reconciles(kind)
  PROVE  [Promise!Next]_(Promise!vars)
<1>1. handoff \in HandoffRecord
  BY InvParts DEF TypeOK
<1>2. /\ handoff'.attested = handoff.attested /\ handoff'.confirmed = handoff.confirmed
      /\ SameClaim
  BY <1>1 DEF RelayActed, Reconciles, HandoffRecord
<1>3. Facts' = Facts /\ passport'.risk = passport.risk
  BY <1>2, FactsStay DEF SameClaim
<1>4. CASE RelayActed(kind)
  <2>1. CASE kind = "RESERVE"
    <3>1. passport.state = "RESERVE_REQUESTED" /\ passport'.state = "RESERVED"
      BY <1>4, <2>1 DEF RelayActed, RequestState, Committed
    <3>2. Promise!Hold
      BY <1>3, <3>1 DEF Promise!Hold, StageOf
    <3>3. QED BY <3>2 DEF Promise!Next
  <2>2. CASE kind = "RELEASE"
    <3>1. passport.state = "RELEASE_REQUESTED" /\ passport'.state = "RELEASED"
      BY <1>4, <2>2 DEF RelayActed, RequestState, Committed
    <3>2. Promise!Release
      BY <1>3, <3>1 DEF Promise!Release, StageOf
    <3>3. QED BY <3>2 DEF Promise!Next
  <2>3. QED BY <2>1, <2>2
<1>5. CASE Reconciles(kind)
  <2>1. /\ passport.state \in {"RESERVE_REQUESTED", "RELEASE_REQUESTED"}
        /\ passport'.state = "RECONCILIATION_REQUIRED"
    BY <1>5 DEF Reconciles, Committed
  <2>2. Promise!Stop
    BY <1>3, <2>1 DEF Promise!Stop, StageOf
  <2>3. QED BY <2>2 DEF Promise!Next
<1>6. QED BY <1>4, <1>5

LEMMA HandoverPromised ==
  ASSUME HistoryInv, Issues \/ (\E p \in Purpose : Presents(p)) \/ Confirms \/ Closes
  PROVE  [Promise!Next]_(Promise!vars)
<1>1. handoff \in HandoffRecord
  BY InvParts DEF TypeOK
<1>2. SameClaim /\ passport'.risk = passport.risk
  BY DEF Issues, Presents, Confirms, Closes, SameClaim
<1>3. CASE Issues
  <2>1. Facts' = Facts
    BY <1>1, <1>2, <1>3, FactsStay DEF Issues, HandoffRecord
  <2>2. passport.state = "RESERVED" /\ passport'.state = "RESERVED"
    BY <1>3 DEF Issues, Committed
  <2>3. QED BY <1>2, <2>1, <2>2 DEF Promise!vars
<1>4. ASSUME NEW p \in Purpose, Presents(p) PROVE [Promise!Next]_(Promise!vars)
  <2>1. /\ passport.state \in {"RESERVED", "CLAIMANT_PRESENT"}
        /\ passport'.state \in {"RESERVED", "CLAIMANT_PRESENT"}
        /\ handoff' = [handoff EXCEPT !.attested = [@ EXCEPT ![p] = TRUE]]
    BY <1>4 DEF Presents, Committed
  <2>2. /\ handoff'.confirmed = handoff.confirmed
        /\ \A q \in Purpose : handoff'.attested[q] <=> handoff.attested[q] \/ q \in {p}
    BY <1>1, <2>1 DEF HandoffRecord
  <2>3. Facts' = Facts \cup {p}
    BY <1>2, <2>2, FactsGrow DEF SameClaim, Purpose
  <2>4. StageOf(passport.state) = "held" /\ StageOf(passport.state)' = "held"
    BY <2>1 DEF StageOf
  <2>5. Promise!Establish(p)
    BY <1>2, <2>3, <2>4 DEF Promise!Establish, Promise!StageOf, Promise!Presupposed, Purpose
  <2>6. QED BY <2>5 DEF Promise!Next, Promise!Fact, Purpose
<1>5. CASE Confirms
  <2>1. /\ passport.state = "CLAIMANT_PRESENT" /\ passport'.state = "RELEASE_REQUESTED"
        /\ BothAttested(handoff) /\ handoff' = [handoff EXCEPT !.confirmed = TRUE]
    BY <1>5 DEF Confirms, Committed
  <2>2. handoff'.attested = handoff.attested /\ handoff'.confirmed
    BY <1>1, <2>1 DEF HandoffRecord
  <2>3. Facts' = Facts \cup {"confirmation"}
    BY <1>2, <2>2, FactsGrow DEF SameClaim, Purpose
  <2>4. {"CLAIMANT", "CUSTODIAN"} \subseteq Facts
    BY <2>1, FactsAre DEF BothAttested, Established, Purpose
  <2>5. Promise!Confirm
    BY <1>2, <2>1, <2>3, <2>4 DEF Promise!Confirm, StageOf
  <2>6. QED BY <2>5 DEF Promise!Next
<1>6. CASE Closes
  <2>1. passport.state = "RELEASED" /\ passport'.state = "CLOSED" /\ handoff' = handoff
    BY <1>6 DEF Closes, Committed
  <2>2. Facts' = Facts
    BY <1>2, <2>1, FactsStay
  <2>3. Promise!Close
    BY <1>2, <2>1, <2>2 DEF Promise!Close, StageOf
  <2>4. QED BY <2>3 DEF Promise!Next
<1>7. QED BY <1>3, <1>4, <1>5, <1>6

LEMMA InitPromised == Init => Promise!Init
<1> SUFFICES ASSUME Init PROVE Promise!Init
  OBVIOUS
<1>1. /\ passport.state = "RECEIVED" /\ ~passport.accepted /\ ~passport.identity
      /\ ~passport.approval /\ handoff = NoHandoff
  BY DEF Init
<1>2. StageOf(passport.state) = "deciding"
  BY <1>1 DEF StageOf
<1>3. \A f : f \notin Facts
  BY <1>1 DEF Facts, NoHandoff, Purpose
<1>4. Facts = {} /\ (passport.risk = "VALUABLE") \in BOOLEAN
  BY <1>3
<1>5. QED BY <1>2, <1>4 DEF Promise!Init

\* Every behaviour of the service, with any number of handlers and keys, is one
\* of the promise: the stages in order, each on the facts it needs, no fact taken
\* back, nothing after a stop.
THEOREM PromiseImplemented == Spec => PromiseKept
<1>1. ASSUME HistoryInv, [Next]_vars
      PROVE  [Promise!Next]_(Promise!vars)
  <2>1. CASE CaseStep
    BY <1>1, <2>1, DecidesPromised, AnsweredPromised, RequestsPromised, RelayPromised,
       HandoverPromised DEF CaseStep
  <2>2. CASE UNCHANGED <<passport, handoff, tokens, log>>
    BY <2>2 DEF Promise!vars, StageOf, Facts
  <2>3. QED BY <1>1, <2>1, <2>2, RecordsStep
<1>2. HistoryInv /\ [Next]_vars => [Promise!Next]_(Promise!vars)
  BY <1>1
<1>3. QED BY <1>2, History, InitPromised, PTL DEF Spec, PromiseKept, Promise!Spec
=============================================================================
