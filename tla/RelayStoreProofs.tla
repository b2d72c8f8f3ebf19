-------------------------- MODULE RelayStoreProofs --------------------------
(***************************************************************************)
(* Proofs about RelayStore for any items, cases and keys and any length of *)
(* time.  The invariant is inductive as a whole; every operation is        *)
(* followed in two parts, the sweep of what has lapsed and the operation   *)
(* on what is left.                                                        *)
(***************************************************************************)
EXTENDS RelayStore, TLAPS

IInv == TypeOK /\ HoldIsLive /\ BothRolesPresented

Items == [Item -> ItemRecord]
Reservations == [Reservation -> ReservationRecord \cup {None}]
InOrder(rs) == \A r \in Reservation : rs[r] # None => RecordInOrder(rs[r])

\* The invariant of any pair of functions, items and reservations.
Good(is, rs) == is \in Items /\ rs \in Reservations /\ Consistent(is, rs) /\ InOrder(rs)

-----------------------------------------------------------------------------
(* The sweep *)

\* Cutting a time to the second takes away less than a second.
LEMMA Floored ==
  ASSUME NEW t \in Nat
  PROVE  Floor(t) \in Nat /\ Floor(t) <= t /\ t < Floor(t) + Second
<1>1. Second \in Nat /\ Second > 0
  BY SecondAssumption
<1>2. t % Second \in 0..(Second - 1) /\ t = Second * (t \div Second) + (t % Second)
  BY <1>1
<1>3. t \div Second \in Nat
  BY <1>1
<1>4. Second * (t \div Second) \in Nat
  BY <1>1, <1>3
<1>5. QED BY <1>1, <1>2, <1>4 DEF Floor

LEMMA ReservationItem ==
  ASSUME NEW r \in Reservation
  PROVE  r[2] \in Item
BY DEF Reservation

LEMMA AdvancedRecord ==
  ASSUME NEW record \in ReservationRecord, NEW status \in Status,
         NEW tokens \in Nat \cup {None}, NEW attested \in SUBSET Role
  PROVE  LET advanced == Advanced(record, status, tokens, attested)
         IN /\ advanced \in ReservationRecord
            /\ advanced.status = status
            /\ advanced.attested = attested
            /\ advanced.tokens = tokens
            /\ advanced.expires = record.expires
BY DEF Advanced, ReservationRecord

LEMMA ExpiredRecord ==
  ASSUME NEW record \in ReservationRecord
  PROVE  /\ Expired(record) \in ReservationRecord
         /\ Expired(record).status = "EXPIRED"
         /\ Expired(record).attested = record.attested
         /\ Expired(record).tokens = record.tokens
         /\ Expired(record).expires = record.expires
BY DEF Expired, Advanced, ReservationRecord, Status

LEMMA LapsedRecord ==
  ASSUME TypeOK, NEW r \in Reservation
  PROVE  /\ Lapsed(r) => /\ reservations[r] # None
                         /\ reservations[r] \in ReservationRecord
                         /\ reservations[r].status \in Live
         /\ SweptReservations[r] =
              IF Lapsed(r) THEN Expired(reservations[r]) ELSE reservations[r]
BY DEF Lapsed, IsLive, SweptReservations, TypeOK

LEMMA SweptTyped ==
  ASSUME TypeOK
  PROVE  SweptItems \in Items /\ SweptReservations \in Reservations
<1>1. ASSUME NEW i \in Item PROVE SweptItems[i] \in ItemRecord
  BY <1>1 DEF TypeOK, SweptItems, ItemRecord
<1>2. ASSUME NEW r \in Reservation PROVE SweptReservations[r] \in ReservationRecord \cup {None}
  <2>1. CASE Lapsed(r)
    BY <2>1, LapsedRecord, ExpiredRecord, <1>2
  <2>2. CASE ~Lapsed(r)
    BY <2>2, <1>2 DEF TypeOK, SweptReservations
  <2>3. QED BY <2>1, <2>2
<1>3. QED
  BY <1>1, <1>2 DEF Items, Reservations, SweptItems, SweptReservations

LEMMA SweptConsistent ==
  ASSUME TypeOK, HoldIsLive
  PROVE  Consistent(SweptItems, SweptReservations)
<1>1. ASSUME NEW r \in Reservation
      PROVE  /\ SweptReservations[r] = None <=> reservations[r] = None
             /\ reservations[r] # None =>
                  SweptReservations[r].status =
                    IF Lapsed(r) THEN "EXPIRED" ELSE reservations[r].status
  <2>1. CASE Lapsed(r)
    <3>1. reservations[r] # None /\ reservations[r] \in ReservationRecord
      BY <1>1, <2>1, LapsedRecord
    <3>2. Expired(reservations[r]) # None /\ Expired(reservations[r]).status = "EXPIRED"
      BY <3>1, ExpiredRecord, NoneAssumption
    <3>3. SweptReservations[r] = Expired(reservations[r])
      BY <1>1, <2>1, LapsedRecord
    <3>4. QED BY <2>1, <3>1, <3>2, <3>3
  <2>2. CASE ~Lapsed(r)
    BY <1>1, <2>2, LapsedRecord
  <2>3. QED BY <2>1, <2>2
<1>2. ASSUME NEW i \in Item
      PROVE  /\ SweptItems[i].status = "AVAILABLE" <=> SweptItems[i].holder = None
             /\ SweptItems[i].holder # None =>
                  /\ SweptItems[i] = items[i]
                  /\ items[i].status = "HELD" => ~Lapsed(items[i].holder)
  BY <1>2 DEF SweptItems, HoldIsLive, Consistent, TypeOK, ItemRecord
<1>3. ASSUME NEW i \in Item, SweptItems[i].holder # None
      PROVE  /\ SweptItems[i].holder[2] = i
             /\ SweptReservations[SweptItems[i].holder] # None
             /\ SweptItems[i].status = "HELD" =>
                  SweptReservations[SweptItems[i].holder].status \in Live
             /\ SweptItems[i].status = "RELEASED" =>
                  SweptReservations[SweptItems[i].holder].status = "HANDOFF_ATTESTED"
  <2>1. SweptItems[i] = items[i] /\ items[i].holder \in Reservation
    BY <1>2, <1>3 DEF TypeOK, ItemRecord
  <2>2. items[i].status = "HELD" => ~Lapsed(items[i].holder)
    BY <1>2, <1>3
  <2>3. items[i].status = "RELEASED" => ~Lapsed(items[i].holder)
    BY <1>3, <2>1 DEF HoldIsLive, Consistent, Lapsed, IsLive, Live
  <2>4. QED
    BY <1>1, <1>3, <2>1, <2>2, <2>3 DEF HoldIsLive, Consistent
<1>4. ASSUME NEW r \in Reservation, SweptReservations[r] # None,
             SweptReservations[r].status # "EXPIRED"
      PROVE  SweptItems[r[2]].holder = r
  <2>1. ~Lapsed(r) /\ reservations[r] # None /\ reservations[r].status # "EXPIRED"
    BY <1>1, <1>4
  <2>2. r[2] \in Item /\ items[r[2]].holder = r
    BY <2>1, ReservationItem, <1>4 DEF HoldIsLive, Consistent
  <2>3. QED
    BY <2>1, <2>2 DEF SweptItems
<1>5. QED
  BY <1>2, <1>3, <1>4 DEF Consistent

LEMMA SweptInOrder ==
  ASSUME TypeOK, BothRolesPresented
  PROVE  InOrder(SweptReservations)
<1> SUFFICES ASSUME NEW r \in Reservation, SweptReservations[r] # None
             PROVE  RecordInOrder(SweptReservations[r])
  BY DEF InOrder
<1>1. CASE Lapsed(r)
  <2>1. reservations[r] \in ReservationRecord /\ RecordInOrder(reservations[r])
    BY <1>1, LapsedRecord DEF BothRolesPresented
  <2>2. QED
    BY <1>1, <2>1, LapsedRecord, ExpiredRecord DEF RecordInOrder
<1>2. CASE ~Lapsed(r)
  BY <1>2, LapsedRecord DEF BothRolesPresented
<1>3. QED BY <1>1, <1>2

LEMMA SweptGood == IInv => Good(SweptItems, SweptReservations)
BY SweptTyped, SweptConsistent, SweptInOrder DEF Good, IInv

LEMMA GoodIsInvariant == Good(items', reservations') /\ now' \in Time => IInv'
BY DEF Good, IInv, TypeOK, HoldIsLive, BothRolesPresented, Items, Reservations, InOrder

-----------------------------------------------------------------------------
(* The operations, on any items and reservations for which the invariant   *)
(* holds                                                                   *)

LEMMA GoodStep ==
  ASSUME NEW is, NEW rs, Good(is, rs), NEW r \in Reservation,
         is[r[2]].holder \in {None, r},
         NEW item \in ItemRecord, item.holder = r,
         NEW record \in ReservationRecord, RecordInOrder(record),
         \/ item.status = "HELD" /\ record.status \in Live
         \/ item.status = "RELEASED" /\ record.status = "HANDOFF_ATTESTED"
  PROVE  Good([is EXCEPT ![r[2]] = item], [rs EXCEPT ![r] = record])
<1> DEFINE is2 == [is EXCEPT ![r[2]] = item]
           rs2 == [rs EXCEPT ![r] = record]
<1>1. r[2] \in Item /\ is \in Items /\ rs \in Reservations
  BY ReservationItem DEF Good
<1>2. is2 \in Items /\ rs2 \in Reservations
  BY <1>1 DEF Items, Reservations
<1>3. /\ is2[r[2]] = item /\ \A j \in Item : j # r[2] => is2[j] = is[j]
      /\ rs2[r] = record /\ \A q \in Reservation : q # r => rs2[q] = rs[q]
  BY <1>1 DEF Items, Reservations
<1> HIDE DEF is2, rs2
<1>4. InOrder(rs2)
  BY <1>3 DEF InOrder, Good
<1>5. record # None /\ r # None
  BY NoneAssumption
<1>6. ASSUME NEW j \in Item
      PROVE  /\ is2[j].status = "AVAILABLE" <=> is2[j].holder = None
             /\ is2[j].holder # None =>
                  /\ is2[j].holder[2] = j
                  /\ rs2[is2[j].holder] # None
                  /\ is2[j].status = "HELD" => rs2[is2[j].holder].status \in Live
                  /\ is2[j].status = "RELEASED" =>
                       rs2[is2[j].holder].status = "HANDOFF_ATTESTED"
  <2>1. CASE j = r[2]
    BY <1>3, <1>5, <2>1 DEF Live
  <2>2. CASE j # r[2]
    <3>1. is2[j] = is[j] /\ is[j].holder \in Reservation \cup {None}
      BY <1>1, <1>3, <2>2 DEF Items, ItemRecord
    <3>2. is[j].holder # None => is[j].holder[2] = j
      BY DEF Good, Consistent
    <3>3. is[j].holder # None => rs2[is[j].holder] = rs[is[j].holder]
      BY <1>3, <2>2, <3>1, <3>2
    <3>4. QED BY <3>1, <3>3 DEF Good, Consistent
  <2>3. QED BY <2>1, <2>2
<1>7. ASSUME NEW q \in Reservation, rs2[q] # None, rs2[q].status # "EXPIRED"
      PROVE  is2[q[2]].holder = q
  <2>1. CASE q = r
    BY <1>3, <2>1
  <2>2. CASE q # r
    <3>1. rs2[q] = rs[q] /\ q[2] \in Item
      BY <1>3, <1>7, <2>2, ReservationItem
    <3>2. is[q[2]].holder = q /\ q # None
      BY <1>7, <3>1, NoneAssumption DEF Good, Consistent
    <3>3. q[2] # r[2]
      BY <2>2, <3>2 DEF Good, Consistent
    <3>4. QED BY <1>3, <3>1, <3>2, <3>3
  <2>3. QED BY <2>1, <2>2
<1>8. QED
  BY <1>2, <1>4, <1>6, <1>7 DEF Good, Consistent, is2, rs2

\* The fields of a typed record.
LEMMA RecordFields ==
  ASSUME NEW record \in ReservationRecord
  PROVE  /\ record.status \in Status /\ record.expires \in Nat
         /\ record.tokens \in Nat \cup {None} /\ record.attested \in SUBSET Role
BY DEF ReservationRecord

LEMMA ReserveKeepsGood ==
  ASSUME IInv, NEW k \in Key, NEW c \in Case, NEW i \in Item, NEW expires \in Nat,
         Reserve(k, c, i, SweptItems[i].version, expires)
  PROVE  Good(items', reservations')
<1> DEFINE r == <<c, i, k>>
           item == [status |-> "HELD", holder |-> r, version |-> SweptItems[i].version + 1]
           record == [status |-> "HELD", version |-> 1, expires |-> Floor(expires),
                      tokens |-> None, attested |-> {}]
<1>1. r \in Reservation /\ r[2] = i /\ Floor(expires) \in Nat
  BY Floored DEF Reservation
<1>2. Good(SweptItems, SweptReservations)
  BY SweptGood
<1>3. SweptItems[i].holder = None /\ SweptItems[i].version \in Nat
  BY <1>2 DEF Good, Consistent, Reserve, Reservable, Items, ItemRecord
<1>4. item \in ItemRecord /\ item.holder = r /\ item.status = "HELD"
  BY <1>1, <1>3 DEF ItemRecord
<1>5. /\ record \in ReservationRecord /\ record.status = "HELD" /\ record.attested = {}
      /\ record.tokens = None
  BY <1>1 DEF ReservationRecord, Status, Live
<1>6. record.status \in Live
  BY <1>5 DEF Live
<1>7. RecordInOrder(record)
  BY <1>5 DEF RecordInOrder
<1>8. /\ items' = [SweptItems EXCEPT ![i] = item]
      /\ reservations' = [SweptReservations EXCEPT ![r] = record]
  BY DEF Reserve
<1> HIDE DEF item, record, r
<1>9. Good([SweptItems EXCEPT ![r[2]] = item], [SweptReservations EXCEPT ![r] = record])
  <2>1. SweptItems[r[2]].holder \in {None, r}
    BY <1>1, <1>3
  <2>2. QED BY <1>1, <1>2, <1>4, <1>5, <1>6, <1>7, <2>1, GoodStep
<1>10. QED
  BY <1>1, <1>8, <1>9

\* An operation on a reservation that is not expired.
LEMMA CurrentReservation ==
  ASSUME IInv, NEW r \in Reservation, NEW version, Current(r, version)
  PROVE  /\ SweptReservations[r] \in ReservationRecord
         /\ RecordInOrder(SweptReservations[r])
         /\ r[2] \in Item
         /\ SweptItems[r[2]] \in ItemRecord
         /\ SweptItems[r[2]].holder = r
         /\ SweptReservations[r].status \in Live => SweptItems[r[2]].status = "HELD"
<1>1. Good(SweptItems, SweptReservations) /\ r[2] \in Item
  BY SweptGood, ReservationItem
<1>2. SweptReservations[r] # None /\ SweptReservations[r].status # "EXPIRED"
  BY DEF Current
<1>3. SweptReservations[r] \in ReservationRecord /\ SweptItems[r[2]] \in ItemRecord
  BY <1>1, <1>2 DEF Good, Items, Reservations
<1>4. RecordInOrder(SweptReservations[r]) /\ SweptItems[r[2]].holder = r
  BY <1>1, <1>2 DEF Good, InOrder, Consistent
<1>5. ASSUME SweptReservations[r].status \in Live PROVE SweptItems[r[2]].status = "HELD"
  <2>1. r # None /\ SweptReservations[r].status # "HANDOFF_ATTESTED"
    BY <1>5, NoneAssumption DEF Live
  <2>2. SweptItems[r[2]].status \notin {"AVAILABLE", "RELEASED"}
    BY <1>1, <1>4, <2>1 DEF Good, Consistent
  <2>3. QED BY <1>3, <2>2 DEF ItemRecord
<1>6. QED BY <1>1, <1>3, <1>4, <1>5

\* An operation that leaves the item held.
LEMMA AdvanceKeepsGood ==
  ASSUME IInv, NEW r \in Reservation, NEW version, Current(r, version),
         SweptReservations[r].status \in Live,
         NEW record \in ReservationRecord, RecordInOrder(record), record.status \in Live
  PROVE  Good(SweptItems, [SweptReservations EXCEPT ![r] = record])
<1> DEFINE item == SweptItems[r[2]]
<1>1. item \in ItemRecord /\ item.holder = r /\ item.status = "HELD"
  BY CurrentReservation
<1>2. Good(SweptItems, SweptReservations) /\ SweptItems[r[2]].holder \in {None, r}
  BY <1>1, SweptGood
<1>3. [SweptItems EXCEPT ![r[2]] = item] = SweptItems
  BY <1>2 DEF Good, Items
<1> HIDE DEF item
<1>4. Good([SweptItems EXCEPT ![r[2]] = item], [SweptReservations EXCEPT ![r] = record])
  BY <1>1, <1>2, GoodStep
<1>5. QED BY <1>3, <1>4

LEMMA IssueKeepsGood ==
  ASSUME IInv, NEW k, NEW r \in Reservation, NEW version, NEW expires \in Nat,
         IssueCredentials(k, r, version, expires)
  PROVE  Good(items', reservations')
<1> DEFINE old == SweptReservations[r]
           tokens == Floor(expires)
           record == Advanced(old, "TOKENS_ISSUED", tokens, {})
<1>1. /\ Current(r, version) /\ old.status = "HELD" /\ expires <= old.expires
      /\ items' = SweptItems
      /\ reservations' = [SweptReservations EXCEPT ![r] = record]
  BY DEF IssueCredentials, Advance
<1>2. /\ old \in ReservationRecord /\ old.expires \in Nat
      /\ tokens \in Nat /\ tokens <= expires
  BY <1>1, CurrentReservation, RecordFields, Floored
<1>3. "TOKENS_ISSUED" \in Status /\ "TOKENS_ISSUED" \in Live /\ old.status \in Live
  BY <1>1 DEF Status, Live
<1> HIDE DEF old, tokens
<1>4. /\ record \in ReservationRecord /\ record.status = "TOKENS_ISSUED"
      /\ record.attested = {} /\ record.tokens = tokens
      /\ record.expires = old.expires
  BY <1>2, <1>3, AdvancedRecord
<1> HIDE DEF record
<1>5. RecordInOrder(record) /\ record.status \in Live
  BY <1>1, <1>2, <1>3, <1>4 DEF RecordInOrder
<1>6. Good(SweptItems, [SweptReservations EXCEPT ![r] = record])
  <2>1. SweptReservations[r].status \in Live
    BY <1>3 DEF old
  <2>2. QED BY <1>1, <1>4, <1>5, <2>1, AdvanceKeepsGood
<1>7. QED BY <1>1, <1>6

LEMMA AttestKeepsGood ==
  ASSUME IInv, NEW k, NEW r \in Reservation, NEW version, NEW role \in Role,
         RecordAttestation(k, r, version, role)
  PROVE  Good(items', reservations')
<1> DEFINE old == SweptReservations[r]
           next == NextStatus(r, role)
           record == Advanced(old, next, old.tokens, old.attested \cup {role})
<1>1. /\ Current(r, version) /\ Presentable(r, role)
      /\ items' = SweptItems
      /\ reservations' = [SweptReservations EXCEPT ![r] = record]
  BY DEF RecordAttestation, Advance
<1>2. /\ role \notin old.attested
      /\ old.status \in {"TOKENS_ISSUED", "PARTIALLY_ATTESTED"} /\ old.status \in Live
  BY <1>1 DEF Presentable, Live
<1>3. /\ old \in ReservationRecord /\ RecordInOrder(old)
      /\ old.tokens \in Nat \cup {None} /\ old.attested \in SUBSET Role
  BY <1>1, CurrentReservation, RecordFields
<1>4. next = IF old.attested \cup {role} = Role THEN "CALLBACK_READY" ELSE "PARTIALLY_ATTESTED"
  BY DEF NextStatus
<1>5. next \in Status /\ next \in Live
  BY <1>4 DEF Status, Live
<1> HIDE DEF old, next
<1>6. old.attested \cup {role} \in SUBSET Role
  BY <1>3
<1>7. /\ record \in ReservationRecord /\ record.status = next
      /\ record.attested = old.attested \cup {role} /\ record.tokens = old.tokens
      /\ record.expires = old.expires
  <2> DEFINE tokens == old.tokens
             attested == old.attested \cup {role}
  <2>1. /\ old \in ReservationRecord /\ next \in Status
        /\ tokens \in Nat \cup {None} /\ attested \in SUBSET Role
    BY <1>3, <1>5, <1>6
  <2> HIDE DEF tokens, attested
  <2>2. LET advanced == Advanced(old, next, tokens, attested)
        IN /\ advanced \in ReservationRecord /\ advanced.status = next
           /\ advanced.attested = attested /\ advanced.tokens = tokens
           /\ advanced.expires = old.expires
    BY <2>1, AdvancedRecord
  <2>3. QED BY <2>2 DEF tokens, attested
<1> HIDE DEF record
<1>8. RecordInOrder(record) /\ record.status \in Live
  <2>1. CASE old.attested \cup {role} = Role
    BY <1>3, <1>4, <1>5, <1>7, <2>1 DEF RecordInOrder
  <2>2. CASE old.attested \cup {role} # Role
    <3>1. old.attested = {}
      BY <1>2, <1>3, <2>2 DEF RecordInOrder, Role
    <3>2. QED BY <1>3, <1>4, <1>5, <1>7, <2>2, <3>1 DEF RecordInOrder
  <2>3. QED BY <2>1, <2>2
<1>9. Good(SweptItems, [SweptReservations EXCEPT ![r] = record])
  <2>1. SweptReservations[r].status \in Live
    BY <1>2 DEF old
  <2>2. QED BY <1>1, <1>7, <1>8, <2>1, AdvanceKeepsGood
<1>10. QED BY <1>1, <1>9

LEMMA FinalizeKeepsGood ==
  ASSUME IInv, NEW k, NEW r \in Reservation, NEW version, FinalizeHandoff(k, r, version)
  PROVE  Good(items', reservations')
<1> DEFINE old == SweptReservations[r]
           record == Advanced(old, "HANDOFF_ATTESTED", old.tokens, old.attested)
           held == SweptItems[r[2]]
           item == [status |-> "RELEASED", holder |-> r, version |-> held.version + 1]
<1>1. /\ Current(r, version) /\ old.status = "CALLBACK_READY"
      /\ reservations' = [SweptReservations EXCEPT ![r] = record]
  BY DEF FinalizeHandoff, Advance
<1>2. /\ old \in ReservationRecord /\ RecordInOrder(old)
      /\ old.tokens \in Nat \cup {None} /\ old.attested \in SUBSET Role
      /\ held \in ItemRecord /\ held.holder = r /\ r[2] \in Item
  BY <1>1, CurrentReservation, RecordFields
<1>3. items' = [SweptItems EXCEPT ![r[2]] = item]
  <2>1. SweptItems \in Items
    BY SweptGood DEF Good
  <2>2. QED BY <1>2, <2>1 DEF FinalizeHandoff, Items
<1> HIDE DEF held
<1>4. item \in ItemRecord /\ item.holder = r /\ item.status = "RELEASED"
  BY <1>2 DEF ItemRecord
<1>5. "HANDOFF_ATTESTED" \in Status
  BY DEF Status
<1> HIDE DEF old
<1>6. /\ record \in ReservationRecord /\ record.status = "HANDOFF_ATTESTED"
      /\ record.attested = old.attested /\ record.tokens = old.tokens
      /\ record.expires = old.expires
  <2> DEFINE tokens == old.tokens
             attested == old.attested
  <2>1. old \in ReservationRecord /\ tokens \in Nat \cup {None} /\ attested \in SUBSET Role
    BY <1>2
  <2> HIDE DEF item, tokens, attested
  <2>2. LET advanced == Advanced(old, "HANDOFF_ATTESTED", tokens, attested)
        IN /\ advanced \in ReservationRecord /\ advanced.status = "HANDOFF_ATTESTED"
           /\ advanced.attested = attested /\ advanced.tokens = tokens
           /\ advanced.expires = old.expires
    BY <1>5, <2>1, AdvancedRecord
  <2>3. QED BY <2>2 DEF tokens, attested
<1> HIDE DEF record, item
<1>7. RecordInOrder(record)
  BY <1>1, <1>2, <1>6 DEF RecordInOrder
<1>8. Good([SweptItems EXCEPT ![r[2]] = item], [SweptReservations EXCEPT ![r] = record])
  <2>1. Good(SweptItems, SweptReservations) /\ SweptItems[r[2]].holder \in {None, r}
    BY <1>2, SweptGood DEF held
  <2>2. QED BY <1>4, <1>6, <1>7, <2>1, GoodStep
<1>9. QED BY <1>1, <1>3, <1>8

-----------------------------------------------------------------------------
(* The invariant *)

LEMMA InitGood == Init => IInv
<1> SUFFICES ASSUME Init PROVE IInv
  OBVIOUS
<1>1. /\ \A i \in Item : items[i] = [status |-> "AVAILABLE", holder |-> None, version |-> 1]
      /\ \A r \in Reservation : reservations[r] = None
  BY DEF Init
<1>2. TypeOK
  BY EndOfTimeAssumption DEF Init, TypeOK, ItemRecord, Time
<1>3. HoldIsLive /\ BothRolesPresented
  BY <1>1 DEF HoldIsLive, Consistent, BothRolesPresented
<1>4. QED BY <1>2, <1>3 DEF IInv

LEMMA TimesAreNumbers == \A t \in Time : t \in Nat
BY EndOfTimeAssumption DEF Time

\* An operation reads the clock anew.
LEMMA ClockTyped == Meanwhile => now' \in Time
BY DEF Meanwhile

LEMMA NextKeepsInvariant == IInv /\ [Next]_vars => IInv'
<1> SUFFICES ASSUME IInv, [Next]_vars PROVE IInv'
  OBVIOUS
<1>1. ASSUME NEW k \in Key, NEW c \in Case, NEW i \in Item, NEW expires \in Time,
             Reserve(k, c, i, SweptItems[i].version, expires)
      PROVE  IInv'
  <2>1. now' \in Time
    BY <1>1, ClockTyped DEF Reserve
  <2>2. QED BY <1>1, <2>1, ReserveKeepsGood, GoodIsInvariant, TimesAreNumbers
<1>2. ASSUME NEW k \in Key, NEW r \in Reservation, Request(k, r)
      PROVE  IInv'
  <2> DEFINE version == SweptReservations[r].version
  <2>1. ASSUME NEW expires \in Time, IssueCredentials(k, r, version, expires)
        PROVE  IInv'
    <3>1. now' \in Time
      BY <2>1, ClockTyped DEF IssueCredentials
    <3>2. Good(items', reservations')
      BY <1>2, <2>1, IssueKeepsGood, TimesAreNumbers
    <3>3. QED BY <3>1, <3>2, GoodIsInvariant
  <2>2. ASSUME NEW role \in Role, RecordAttestation(<<k, role>>, r, version, role)
        PROVE  IInv'
    <3>1. now' \in Time
      BY <2>2, ClockTyped DEF RecordAttestation
    <3>2. Good(items', reservations')
      BY <1>2, <2>2, AttestKeepsGood
    <3>3. QED BY <3>1, <3>2, GoodIsInvariant
  <2>3. ASSUME FinalizeHandoff(k, r, version) PROVE IInv'
    <3>1. now' \in Time
      BY <2>3, ClockTyped DEF FinalizeHandoff
    <3>2. Good(items', reservations')
      BY <1>2, <2>3, FinalizeKeepsGood
    <3>3. QED BY <3>1, <3>2, GoodIsInvariant
  <2>4. QED BY <1>2, <2>1, <2>2, <2>3 DEF Request
<1>3. CASE Sweep
  <2>1. now' \in Time /\ items' = SweptItems /\ reservations' = SweptReservations
    BY <1>3, ClockTyped DEF Sweep
  <2>2. Good(items', reservations')
    BY <2>1, SweptGood
  <2>3. QED BY <2>1, <2>2, GoodIsInvariant
<1>4. CASE UNCHANGED vars
  BY <1>4 DEF vars, IInv, TypeOK, HoldIsLive, BothRolesPresented
<1>5. QED BY <1>1, <1>2, <1>3, <1>4 DEF Next

\* The three parts of the invariant hold together.
THEOREM InvariantHolds == Spec => []IInv
BY InitGood, NextKeepsInvariant, PTL DEF Spec

\* Every item, reservation and reading of the clock is of its type.
THEOREM TypeCorrect == Spec => []TypeOK
<1>1. IInv => TypeOK
  BY DEF IInv
<1>2. QED
  BY <1>1, InvariantHolds, PTL

\* Items and reservations agree, for any number of cases that ask for them
\* (create_reservation, finalize_handoff_attestation, _expire_locked).
THEOREM HoldsAreLive == Spec => []HoldIsLive
<1>1. IInv => HoldIsLive
  BY DEF IInv
<1>2. QED
  BY <1>1, InvariantHolds, PTL

\* Only the presentations of both roles lead to a handoff (record_attestation,
\* finalize_handoff_attestation).
THEOREM HandoffTakesBothRoles == Spec => []BothRolesPresented
<1>1. IInv => BothRolesPresented
  BY DEF IInv
<1>2. QED
  BY <1>1, InvariantHolds, PTL

-----------------------------------------------------------------------------
(* Time: what an operation does to a reservation, and when it began *)

\* The sweep gives up exactly what has lapsed.
LEMMA SweepInWindow ==
  ASSUME IInv, NEW q \in Reservation, reservations'[q] = SweptReservations[q]
  PROVE  StepInWindow(q)
<1>1. CASE Lapsed(q)
  <2>1. SweptReservations[q].status = "EXPIRED"
    BY <1>1, LapsedRecord, ExpiredRecord DEF IInv
  <2>2. QED BY <1>1, <2>1 DEF StepInWindow, Lapsed
<1>2. CASE ~Lapsed(q)
  BY <1>2, LapsedRecord DEF IInv, StepInWindow
<1>3. QED BY <1>1, <1>2

\* An operation that gives one reservation another record.
LEMMA ChangeInWindow ==
  ASSUME IInv, NEW r \in Reservation, NEW record,
         reservations' = [SweptReservations EXCEPT ![r] = record],
         reservations'[r] = record => StepInWindow(r)
  PROVE  \A q \in Reservation : StepInWindow(q)
<1> SUFFICES ASSUME NEW q \in Reservation PROVE StepInWindow(q)
  OBVIOUS
<1>1. SweptReservations \in Reservations
  BY SweptTyped DEF IInv
<1>2. CASE q = r
  BY <1>1, <1>2 DEF Reservations
<1>3. CASE q # r
  <2>1. reservations'[q] = SweptReservations[q]
    BY <1>1, <1>3 DEF Reservations
  <2>2. QED BY <2>1, SweepInWindow
<1>4. QED BY <1>2, <1>3

\* What was not given up by the sweep began before its end.
LEMMA CurrentWindow ==
  ASSUME IInv, NEW r \in Reservation, NEW version, Current(r, version),
         SweptReservations[r].status \in Live
  PROVE  /\ SweptReservations[r] = reservations[r] /\ reservations[r] # None
         /\ reservations[r].expires \in Nat /\ now < reservations[r].expires
         /\ reservations[r].tokens \in Nat \cup {None}
<1>1. ~Lapsed(r)
  BY LapsedRecord, ExpiredRecord DEF Current, IInv
<1>2. SweptReservations[r] = reservations[r] /\ reservations[r] # None
  BY <1>1, LapsedRecord DEF Current, IInv
<1>3. reservations[r].expires \in Nat /\ reservations[r].tokens \in Nat \cup {None}
  BY <1>2, CurrentReservation, RecordFields
<1>4. now \in Nat
  BY TimesAreNumbers DEF IInv, TypeOK
<1>5. now < reservations[r].expires
  BY <1>1, <1>2, <1>3, <1>4 DEF Lapsed, IsLive
<1>6. QED BY <1>2, <1>3, <1>5

LEMMA ReserveInWindow ==
  ASSUME IInv, NEW k \in Key, NEW c \in Case, NEW i \in Item, NEW expires \in Nat,
         Reserve(k, c, i, SweptItems[i].version, expires),
         reservations[<<c, i, k>>] = None
  PROVE  \A q \in Reservation : StepInWindow(q)
<1> DEFINE r == <<c, i, k>>
           record == [status |-> "HELD", version |-> 1, expires |-> Floor(expires),
                      tokens |-> None, attested |-> {}]
<1>1. r \in Reservation
  BY DEF Reservation
<1>2. reservations' = [SweptReservations EXCEPT ![r] = record]
  BY DEF Reserve
<1>3. now' \in Nat /\ now' < expires
  BY TimesAreNumbers DEF Reserve, Meanwhile
<1>4. record.expires = Floor(expires)
  OBVIOUS
<1>5. NewEnd(record.expires)
  <2>1. Floor(expires) \in Nat /\ expires < Floor(expires) + Second /\ Second \in Nat
    BY Floored, SecondAssumption
  <2>2. QED BY <1>3, <1>4, <2>1 DEF NewEnd
<1> HIDE DEF r, record
<1>6. reservations'[r] = record => StepInWindow(r)
  BY <1>5 DEF StepInWindow, r
<1>7. QED BY <1>1, <1>2, <1>6, ChangeInWindow

LEMMA IssueInWindow ==
  ASSUME IInv, NEW k, NEW r \in Reservation, NEW version, NEW expires \in Nat,
         IssueCredentials(k, r, version, expires)
  PROVE  \A q \in Reservation : StepInWindow(q)
<1> DEFINE tokens == Floor(expires)
           record == Advanced(SweptReservations[r], "TOKENS_ISSUED", tokens, {})
<1>1. /\ Current(r, version) /\ SweptReservations[r].status = "HELD"
      /\ reservations' = [SweptReservations EXCEPT ![r] = record]
  BY DEF IssueCredentials, Advance
<1>2. /\ SweptReservations[r] = reservations[r] /\ now < reservations[r].expires
      /\ reservations[r] # None
  BY <1>1, CurrentWindow DEF Live
<1>3. reservations[r].tokens = None
  BY <1>1, <1>2, CurrentReservation DEF RecordInOrder
<1>4. NewEnd(tokens)
  <2>1. tokens \in Nat /\ expires < tokens + Second /\ Second \in Nat
    BY Floored, SecondAssumption
  <2>2. now' \in Nat /\ now' < expires
    BY TimesAreNumbers DEF IssueCredentials, Meanwhile
  <2> HIDE DEF tokens
  <2>3. QED BY <2>1, <2>2 DEF NewEnd
<1>5. record.tokens = tokens
  BY DEF Advanced
<1> HIDE DEF record, tokens
<1>6. reservations'[r] = record => StepInWindow(r)
  BY <1>2, <1>3, <1>4, <1>5 DEF StepInWindow
<1>7. QED BY <1>1, <1>6, ChangeInWindow

\* An operation that uses the credentials.
LEMMA UseInWindow ==
  ASSUME IInv, NEW r \in Reservation, NEW version, NEW status, NEW attested,
         Current(r, version), SweptReservations[r].status \in Live, Usable(r), Meanwhile,
         Advance(r, status, SweptReservations[r].tokens, attested)
  PROVE  \A q \in Reservation : StepInWindow(q)
<1> DEFINE old == SweptReservations[r]
           record == Advanced(old, status, old.tokens, attested)
<1>1. reservations' = [SweptReservations EXCEPT ![r] = record]
  BY DEF Advance
<1>2. /\ old = reservations[r] /\ now < reservations[r].expires
      /\ reservations[r].tokens \in Nat \cup {None}
  BY CurrentWindow
<1>3. reservations[r].tokens \in Nat /\ now < reservations[r].tokens
  <2>1. PICK checked \in now..now' : checked < old.tokens
    BY DEF Usable, Before
  <2>2. old.tokens # None /\ now \in Nat
    BY TimesAreNumbers DEF Usable, IInv, TypeOK
  <2>3. old.tokens \in Nat
    BY <1>2, <2>2
  <2> HIDE DEF old
  <2>4. checked \in Nat /\ now <= checked
    <3>1. now' \in Nat
      BY EndOfTimeAssumption DEF Meanwhile, Time
    <3>2. QED BY <2>1, <2>2, <3>1
  <2>5. now < old.tokens
    BY <2>1, <2>2, <2>3, <2>4
  <2>6. QED BY <1>2, <2>3, <2>5
<1>4. reservations[r].tokens # None
  BY <1>3, NoneAssumption
<1> HIDE DEF record, old
<1>5. reservations'[r] = record => StepInWindow(r)
  BY <1>2, <1>3, <1>4 DEF StepInWindow
<1>6. QED BY <1>1, <1>5, ChangeInWindow

-----------------------------------------------------------------------------
(* The store is a lock of its items *)

\* A reservation was made by a request that is answered for good.
MadeOnce ==
  \A r \in Reservation :
    reservations[r] # None => \E a \in answered : a.scope = <<"reserve", r[3]>>

LockInv == IInv /\ MadeOnce

\* Who holds the items and to whom they went, as the items say it, and the
\* reservations that are over.
Holder(is) == [i \in Item |-> IF is[i].status = "HELD" THEN is[i].holder ELSE None]
Recipient(is) == [i \in Item |-> IF is[i].status = "RELEASED" THEN is[i].holder ELSE None]
Ended(rs) == {r \in Reservation : rs[r] # None /\ rs[r].status \notin Live}

Lapsing == {r \in Reservation : Lapsed(r)}

\* What the lock reads off the reservations is what the items say.
LEMMA LockReads ==
  IInv => HeldFor = Holder(items) /\ ReleasedTo = Recipient(items) /\ Over = Ended(reservations)
<1> SUFFICES ASSUME IInv
             PROVE  HeldFor = Holder(items) /\ ReleasedTo = Recipient(items)
                    /\ Over = Ended(reservations)
  OBVIOUS
<1>1. Consistent(items, reservations) /\ TypeOK
  BY DEF IInv, HoldIsLive
<1>2. ASSUME NEW i \in Item PROVE HeldFor[i] = Holder(items)[i]
  <2>1. \A r \in Reservation : r[2] = i /\ IsLive(r) => items[i].holder = r /\ items[i].status = "HELD"
    <3> SUFFICES ASSUME NEW r \in Reservation, r[2] = i, IsLive(r)
                 PROVE  items[i].holder = r /\ items[i].status = "HELD"
      OBVIOUS
    <3>1. reservations[r] # None /\ reservations[r].status \notin {"EXPIRED", "HANDOFF_ATTESTED"}
      BY DEF IsLive, Live
    <3>2. items[i].holder = r /\ r # None
      BY <1>1, <3>1, NoneAssumption DEF Consistent
    <3>3. items[i].status \notin {"AVAILABLE", "RELEASED"}
      BY <1>1, <3>1, <3>2 DEF Consistent
    <3>4. items[i].status \in {"AVAILABLE", "HELD", "RELEASED"}
      BY <1>1 DEF TypeOK, ItemRecord
    <3>5. QED BY <3>2, <3>3, <3>4
  <2>2. CASE items[i].status = "HELD"
    <3>1. /\ items[i].holder \in Reservation /\ items[i].holder[2] = i /\ IsLive(items[i].holder)
      BY <1>1, <2>2 DEF Consistent, TypeOK, ItemRecord, IsLive
    <3>2. HeldFor[i] = items[i].holder
      BY <2>1, <3>1 DEF HeldFor
    <3>3. QED BY <2>2, <3>2 DEF Holder
  <2>3. CASE items[i].status # "HELD"
    BY <2>1, <2>3 DEF HeldFor, Holder
  <2>4. QED BY <2>2, <2>3
<1>3. HeldFor = Holder(items)
  BY <1>2 DEF HeldFor, Holder
<1>4. ReleasedTo = Recipient(items) /\ Over = Ended(reservations)
  BY DEF ReleasedTo, Recipient, Over, Ended, IsLive
<1>5. QED BY <1>3, <1>4

LEMMA LockReadsNext ==
  IInv' => (HeldFor = Holder(items) /\ ReleasedTo = Recipient(items) /\ Over = Ended(reservations))'
BY LockReads, PTL

\* What the sweep does to the lock: the holds that lapsed are given up.
LEMMA SweptLock ==
  ASSUME IInv
  PROVE  /\ Lapsing \in SUBSET Lock!Held
         /\ Lock!Kept(Lapsing) = Holder(SweptItems)
         /\ Recipient(SweptItems) = Recipient(items)
         /\ Ended(SweptReservations) = Ended(reservations) \cup Lapsing
<1>1. HeldFor = Holder(items) /\ TypeOK /\ Consistent(items, reservations)
  BY LockReads DEF IInv, HoldIsLive
<1>2. \A i \in Item : Lock!Kept(Lapsing)[i] = IF Holder(items)[i] \in Lapsing THEN None
                                               ELSE Holder(items)[i]
  BY <1>1 DEF Lock!Kept
<1>3. ASSUME NEW r \in Lapsing PROVE r \in Lock!Held
  <2>1. IsLive(r) /\ r[2] \in Item /\ r # None
    BY ReservationItem, NoneAssumption DEF Lapsing, Lapsed
  <2>2. items[r[2]].holder = r /\ items[r[2]].status \notin {"AVAILABLE", "RELEASED"}
    BY <1>1, <1>3, <2>1 DEF Consistent, IsLive, Live, Lapsing
  <2>3. items[r[2]].status = "HELD"
    BY <1>1, <2>1, <2>2 DEF TypeOK, ItemRecord
  <2>4. HeldFor[r[2]] = r
    BY <1>1, <2>1, <2>2, <2>3 DEF Holder
  <2>5. QED BY <2>1, <2>4 DEF Lock!Held
<1>4. ASSUME NEW i \in Item
      PROVE  Lock!Kept(Lapsing)[i] = Holder(SweptItems)[i]
  <2>1. CASE items[i].status = "HELD"
    <3>1. items[i].holder \in Reservation
      BY <1>1, <2>1 DEF Consistent, TypeOK, ItemRecord
    <3>2. QED BY <1>2, <2>1, <3>1 DEF Holder, SweptItems, Lapsing
  <2>2. CASE items[i].status # "HELD"
    <3>1. Holder(items)[i] = None /\ Holder(SweptItems)[i] = None
      BY <2>2 DEF Holder, SweptItems
    <3>2. QED BY <1>2, <3>1
  <2>3. QED BY <2>1, <2>2
<1>5. Lock!Kept(Lapsing) = Holder(SweptItems)
  BY <1>4 DEF Lock!Kept, Holder
<1>6. Recipient(SweptItems) = Recipient(items)
  <2>1. \A i \in Item : /\ SweptItems[i].status = "RELEASED" <=> items[i].status = "RELEASED"
                        /\ items[i].status = "RELEASED" => SweptItems[i] = items[i]
    BY DEF SweptItems
  <2>2. QED BY <2>1 DEF Recipient
<1>7. ASSUME NEW r \in Reservation
      PROVE  r \in Ended(SweptReservations) <=> r \in Ended(reservations) \cup Lapsing
  <2>1. CASE Lapsed(r)
    <3>1. reservations[r] \in ReservationRecord
      BY <1>1, <2>1, LapsedRecord
    <3>2. /\ SweptReservations[r] = Expired(reservations[r])
          /\ SweptReservations[r].status = "EXPIRED" /\ SweptReservations[r] # None
      BY <1>1, <2>1, <3>1, LapsedRecord, ExpiredRecord, NoneAssumption
    <3>3. QED BY <2>1, <3>2 DEF Ended, Lapsing, Live
  <2>2. CASE ~Lapsed(r)
    BY <1>1, <2>2, LapsedRecord DEF Ended, Lapsing
  <2>3. QED BY <2>1, <2>2
<1>8. Ended(SweptReservations) = Ended(reservations) \cup Lapsing
  BY <1>7 DEF Ended, Lapsing
<1>9. QED BY <1>3, <1>5, <1>6, <1>8 DEF Lapsing

\* An operation that leaves items and ended reservations as the sweep left them.
LEMMA SweepLocks ==
  ASSUME IInv, IInv', items' = SweptItems, Ended(reservations)' = Ended(SweptReservations)
  PROVE  Lock!Next
<1>1. /\ HeldFor' = Holder(SweptItems) /\ ReleasedTo' = Recipient(SweptItems)
      /\ Over' = Ended(SweptReservations)
  <2>1. HeldFor' = Holder(items') /\ ReleasedTo' = Recipient(items') /\ Over' = Ended(reservations)'
    BY LockReadsNext DEF Holder, Recipient
  <2>2. QED BY <2>1
<1>2. ReleasedTo = Recipient(items) /\ Over = Ended(reservations)
  BY LockReads
<1>3. Lock!Expire(Lapsing)
  BY <1>1, <1>2, SweptLock DEF Lock!Expire
<1>4. QED BY <1>3, SweptLock DEF Lock!Next

\* A reservation that is there after the sweep was there before.
LEMMA SweptKeeps ==
  ASSUME IInv, NEW r \in Reservation
  PROVE  SweptReservations[r] = None <=> reservations[r] = None
<1>1. CASE Lapsed(r)
  BY <1>1, LapsedRecord, ExpiredRecord, NoneAssumption DEF IInv
<1>2. CASE ~Lapsed(r)
  BY <1>2, LapsedRecord DEF IInv
<1>3. QED BY <1>1, <1>2

\* An operation that changes a reservation which is there.
LEMMA ChangeKeepsMade ==
  ASSUME LockInv, NEW r \in Reservation, SweptReservations[r] # None, NEW record,
         reservations' = [SweptReservations EXCEPT ![r] = record], answered \subseteq answered'
  PROVE  MadeOnce'
<1> SUFFICES ASSUME NEW q \in Reservation, reservations'[q] # None
             PROVE  \E a \in answered' : a.scope = <<"reserve", q[3]>>
  BY DEF MadeOnce
<1>1. SweptReservations \in Reservations
  BY SweptTyped DEF LockInv, IInv
<1>2. SweptReservations[q] # None
  BY <1>1 DEF Reservations
<1>3. reservations[q] # None
  BY <1>2, SweptKeeps DEF LockInv
<1>4. QED BY <1>3 DEF LockInv, MadeOnce

\* One item and one reservation change together.
LEMMA LockAt ==
  ASSUME IInv, NEW r \in Reservation, NEW item, NEW record,
         items' = [SweptItems EXCEPT ![r[2]] = item],
         reservations' = [SweptReservations EXCEPT ![r] = record], IInv'
  PROVE  /\ HeldFor' = [Lock!Kept(Lapsing) EXCEPT ![r[2]] =
                          IF item.status = "HELD" THEN item.holder ELSE None]
         /\ ReleasedTo' = [ReleasedTo EXCEPT ![r[2]] =
                             IF item.status = "RELEASED" THEN item.holder ELSE None]
         /\ Over' = ((Over \cup Lapsing) \ {r}) \cup
                      {q \in {r} : record # None /\ record.status \notin Live}
<1>1. /\ SweptItems \in Items /\ SweptReservations \in Reservations /\ r[2] \in Item
  BY SweptTyped, ReservationItem DEF IInv
<1>2. /\ HeldFor' = Holder(items') /\ ReleasedTo' = Recipient(items')
      /\ Over' = Ended(reservations')
  BY LockReadsNext DEF Holder, Recipient, Ended
<1>3. /\ Lock!Kept(Lapsing) = Holder(SweptItems) /\ ReleasedTo = Recipient(SweptItems)
      /\ Over \cup Lapsing = Ended(SweptReservations)
  BY SweptLock, LockReads
<1>4. \A i \in Item : items'[i] = IF i = r[2] THEN item ELSE SweptItems[i]
  BY <1>1 DEF Items
<1> DEFINE nowHeld == IF item.status = "HELD" THEN item.holder ELSE None
           nowOut == IF item.status = "RELEASED" THEN item.holder ELSE None
<1>5. Holder(items') = [Holder(SweptItems) EXCEPT ![r[2]] = nowHeld]
  <2>1. \A i \in Item : Holder(items')[i] = IF i = r[2] THEN nowHeld ELSE Holder(SweptItems)[i]
    BY <1>4 DEF Holder
  <2> HIDE DEF nowHeld
  <2>2. \A i \in Item : Holder(items')[i] = [Holder(SweptItems) EXCEPT ![r[2]] = nowHeld][i]
    BY <2>1 DEF Holder
  <2>3. QED BY <2>2 DEF Holder
<1>6. Recipient(items') = [Recipient(SweptItems) EXCEPT ![r[2]] = nowOut]
  <2>1. \A i \in Item : Recipient(items')[i] = IF i = r[2] THEN nowOut ELSE Recipient(SweptItems)[i]
    BY <1>4 DEF Recipient
  <2> HIDE DEF nowOut
  <2>2. \A i \in Item : Recipient(items')[i] = [Recipient(SweptItems) EXCEPT ![r[2]] = nowOut][i]
    BY <2>1 DEF Recipient
  <2>3. QED BY <2>2 DEF Recipient
<1>7. \A q \in Reservation : reservations'[q] = IF q = r THEN record ELSE SweptReservations[q]
  BY <1>1 DEF Reservations
<1>8. Ended(reservations') = (Ended(SweptReservations) \ {r}) \cup
                               {q \in {r} : record # None /\ record.status \notin Live}
  BY <1>7 DEF Ended
<1>9. QED BY <1>2, <1>3, <1>5, <1>6, <1>8

\* A request that is served makes a reservation that was not there: its key was
\* not used.
LEMMA ReservedAnew ==
  ASSUME LockInv, NEW k \in Key, NEW c \in Case, NEW i \in Item, NEW version, NEW expires,
         Reserve(k, c, i, version, expires)
  PROVE  reservations[<<c, i, k>>] = None
<1> DEFINE r == <<c, i, k>>
<1>1. r \in Reservation /\ r[3] = k
  BY DEF Reservation
<1>2. \A a \in answered : a.scope # <<"reserve", k>>
  BY DEF Reserve, Fresh
<1> HIDE DEF r
<1>3. reservations[r] = None
  BY <1>1, <1>2 DEF LockInv, MadeOnce
<1>4. QED BY <1>3 DEF r

LEMMA ReserveLocks ==
  ASSUME LockInv, IInv', NEW k \in Key, NEW c \in Case, NEW i \in Item, NEW expires \in Nat,
         Reserve(k, c, i, SweptItems[i].version, expires)
  PROVE  MadeOnce' /\ Lock!Next
<1> DEFINE r == <<c, i, k>>
           item == [status |-> "HELD", holder |-> r, version |-> SweptItems[i].version + 1]
           record == [status |-> "HELD", version |-> 1, expires |-> Floor(expires),
                      tokens |-> None, attested |-> {}]
<1>1. r \in Reservation /\ r[2] = i /\ r[3] = k /\ r # None
  BY NoneAssumption DEF Reservation
<1>2. /\ items' = [SweptItems EXCEPT ![i] = item]
      /\ reservations' = [SweptReservations EXCEPT ![r] = record]
      /\ answered' = answered \cup {[scope |-> <<"reserve", k>>,
                                     body |-> <<c, i, SweptItems[i].version, expires>>]}
  BY DEF Reserve, Answer
<1>3. item.status = "HELD" /\ item.holder = r /\ record.status = "HELD"
  OBVIOUS
<1>4. IInv /\ MadeOnce /\ \A a \in answered : a.scope # <<"reserve", k>>
  BY DEF LockInv, Reserve, Fresh
<1> HIDE DEF r, item, record
<1>5. reservations[r] = None /\ SweptReservations[r] = None
  BY <1>1, <1>4, SweptKeeps DEF MadeOnce
<1>6. MadeOnce'
  <2> SUFFICES ASSUME NEW q \in Reservation, reservations'[q] # None
               PROVE  \E a \in answered' : a.scope = <<"reserve", q[3]>>
    BY DEF MadeOnce
  <2>1. CASE q = r
    <3> DEFINE a == [scope |-> <<"reserve", k>>, body |-> <<c, i, SweptItems[i].version, expires>>]
    <3>1. a.scope = <<"reserve", q[3]>>
      BY <1>1, <2>1
    <3>2. a \in answered'
      BY <1>2
    <3>3. QED BY <3>1, <3>2
  <2>2. CASE q # r
    <3>1. SweptReservations \in Reservations
      BY <1>4, SweptTyped DEF IInv
    <3>2. reservations[q] # None
      BY <1>2, <1>4, <2>2, <3>1, SweptKeeps DEF Reservations
    <3>3. QED BY <1>2, <1>4, <3>2 DEF MadeOnce
  <2>3. QED BY <2>1, <2>2
<1>7. items' = [SweptItems EXCEPT ![r[2]] = item]
  BY <1>1, <1>2
<1>8. /\ HeldFor' = [Lock!Kept(Lapsing) EXCEPT ![r[2]] =
                       IF item.status = "HELD" THEN item.holder ELSE None]
      /\ ReleasedTo' = [ReleasedTo EXCEPT ![r[2]] =
                          IF item.status = "RELEASED" THEN item.holder ELSE None]
      /\ Over' = ((Over \cup Lapsing) \ {r}) \cup
                   {q \in {r} : record # None /\ record.status \notin Live}
  BY <1>1, <1>2, <1>4, <1>7, LockAt
<1>9. SweptItems[i].status = "AVAILABLE" /\ Good(SweptItems, SweptReservations)
  BY <1>4, SweptGood DEF Reserve, Reservable
<1>10. Holder(SweptItems)[i] = None /\ Recipient(SweptItems)[i] = None
  BY <1>9 DEF Holder, Recipient
<1>11. Lock!Kept(Lapsing)[i] = None /\ ReleasedTo[i] = None
  BY <1>4, <1>10, SweptLock, LockReads
<1>12. r \notin Over \cup Lapsing
  BY <1>5 DEF Over, Lapsing, Lapsed, IsLive
<1>13. \A j \in Item : HeldFor[j] # r
  <2> SUFFICES ASSUME NEW j \in Item PROVE HeldFor[j] # r
    OBVIOUS
  <2>1. HeldFor[j] = IF items[j].status = "HELD" THEN items[j].holder ELSE None
    BY <1>4, LockReads DEF Holder
  <2>2. items[j].holder # None => reservations[items[j].holder] # None
    BY <1>4 DEF IInv, HoldIsLive, Consistent
  <2>3. QED BY <1>1, <1>5, <2>1, <2>2
<1>14. HeldFor' = [Lock!Kept(Lapsing) EXCEPT ![i] = r]
  BY <1>1, <1>3, <1>8
<1>15. ReleasedTo' = ReleasedTo
  BY <1>1, <1>3, <1>8, <1>11 DEF ReleasedTo
<1>16. Over' = Over \cup Lapsing
  BY <1>3, <1>8, <1>12 DEF Live
<1>17. Lock!Hold(Lapsing, i, r)
  BY <1>11, <1>12, <1>13, <1>14, <1>15, <1>16 DEF Lock!Hold
<1>18. QED BY <1>1, <1>4, <1>6, <1>17, SweptLock DEF Lock!Next

\* An operation on a live reservation that leaves it live.
LEMMA AdvanceLocks ==
  ASSUME LockInv, IInv', NEW r \in Reservation, NEW version, Current(r, version),
         SweptReservations[r].status \in Live, NEW record,
         items' = SweptItems, reservations' = [SweptReservations EXCEPT ![r] = record],
         record.status \in Live, answered \subseteq answered'
  PROVE  MadeOnce' /\ Lock!Next
<1>1. IInv /\ SweptReservations[r] # None /\ SweptReservations \in Reservations
  BY SweptTyped DEF LockInv, IInv, Current
<1>2. MadeOnce'
  BY <1>1, ChangeKeepsMade
<1>3. \A q \in Reservation : reservations'[q] = IF q = r THEN record ELSE SweptReservations[q]
  BY <1>1 DEF Reservations
<1>4. Ended(reservations)' = Ended(SweptReservations)
  BY <1>1, <1>3 DEF Ended
<1>5. QED BY <1>1, <1>2, <1>4, SweepLocks

LEMMA FinalizeLocks ==
  ASSUME LockInv, IInv', NEW k, NEW r \in Reservation, NEW version, FinalizeHandoff(k, r, version)
  PROVE  MadeOnce' /\ Lock!Next
<1> DEFINE old == SweptReservations[r]
           record == Advanced(old, "HANDOFF_ATTESTED", old.tokens, old.attested)
           i == r[2]
           item == [status |-> "RELEASED", holder |-> r, version |-> SweptItems[i].version + 1]
<1>1. IInv /\ Current(r, version) /\ old # None /\ i \in Item
      /\ SweptItems \in Items
  BY SweptTyped, ReservationItem DEF LockInv, IInv, FinalizeHandoff, Current
<1>2. /\ items' = [SweptItems EXCEPT ![i] = item]
      /\ reservations' = [SweptReservations EXCEPT ![r] = record]
      /\ answered \subseteq answered'
      /\ SweptItems[i].status = "HELD" /\ SweptItems[i].holder = r
  BY <1>1 DEF FinalizeHandoff, Advance, Answer, Items
<1>3. /\ item.status = "RELEASED" /\ item.holder = r
      /\ record.status = "HANDOFF_ATTESTED"
  BY DEF Advanced
<1>4. record # None
  <2>1. old \in ReservationRecord
    BY <1>1, CurrentReservation
  <2>2. old.tokens \in Nat \cup {None} /\ old.attested \in SUBSET Role
    BY <2>1, RecordFields
  <2> HIDE DEF old
  <2>3. record \in ReservationRecord
    BY <2>1, <2>2, AdvancedRecord DEF Status
  <2>4. QED BY <2>3, NoneAssumption
<1>5. MadeOnce'
  BY <1>1, <1>2, ChangeKeepsMade
<1> HIDE DEF old, record, item
<1>6. /\ HeldFor' = [Lock!Kept(Lapsing) EXCEPT ![i] =
                       IF item.status = "HELD" THEN item.holder ELSE None]
      /\ ReleasedTo' = [ReleasedTo EXCEPT ![i] =
                          IF item.status = "RELEASED" THEN item.holder ELSE None]
      /\ Over' = ((Over \cup Lapsing) \ {r}) \cup
                   {q \in {r} : record # None /\ record.status \notin Live}
  BY <1>1, <1>2, LockAt
<1>7. Lock!Kept(Lapsing)[i] = r
  BY <1>1, <1>2, SweptLock DEF Holder
<1>8. HeldFor[i] = r /\ r \notin Lapsing /\ r # None
  <2>1. Lock!Kept(Lapsing)[i] = IF HeldFor[i] \in Lapsing THEN None ELSE HeldFor[i]
    BY <1>1 DEF Lock!Kept
  <2>2. r # None
    BY NoneAssumption
  <2>3. QED BY <1>7, <2>1, <2>2
<1>9. /\ HeldFor' = [Lock!Kept(Lapsing) EXCEPT ![i] = None]
      /\ ReleasedTo' = [ReleasedTo EXCEPT ![i] = HeldFor[i]]
      /\ Over' = Over \cup Lapsing \cup {HeldFor[i]}
  BY <1>3, <1>4, <1>6, <1>8 DEF Live
<1>10. Lock!Release(Lapsing, i)
  BY <1>8, <1>9 DEF Lock!Release
<1>11. QED BY <1>1, <1>5, <1>10, SweptLock DEF Lock!Next

LEMMA IssueLocks ==
  ASSUME LockInv, IInv', NEW k, NEW r \in Reservation, NEW version, NEW expires,
         IssueCredentials(k, r, version, expires)
  PROVE  MadeOnce' /\ Lock!Next
<1> DEFINE record == Advanced(SweptReservations[r], "TOKENS_ISSUED", Floor(expires), {})
<1>1. Current(r, version) /\ SweptReservations[r].status \in Live
  BY DEF IssueCredentials, Live
<1>2. record.status \in Live
  BY DEF Advanced, Live
<1>3. SweptReservations \in Reservations
  BY SweptTyped DEF LockInv, IInv
<1>4. /\ items' = SweptItems /\ answered \subseteq answered'
      /\ reservations' = [SweptReservations EXCEPT ![r] = record]
  BY <1>3 DEF IssueCredentials, Advance, Answer, Reservations
<1> HIDE DEF record
<1>5. QED BY <1>1, <1>2, <1>4, AdvanceLocks

LEMMA AttestLocks ==
  ASSUME LockInv, IInv', NEW k, NEW r \in Reservation, NEW version, NEW role,
         RecordAttestation(k, r, version, role)
  PROVE  MadeOnce' /\ Lock!Next
<1> DEFINE old == SweptReservations[r]
           record == Advanced(old, NextStatus(r, role), old.tokens, old.attested \cup {role})
<1>1. Current(r, version) /\ SweptReservations[r].status \in Live
  BY DEF RecordAttestation, Presentable, Live
<1>2. record.status \in Live
  BY DEF Advanced, NextStatus, Live
<1>3. SweptReservations \in Reservations
  BY SweptTyped DEF LockInv, IInv
<1>4. /\ items' = SweptItems /\ answered \subseteq answered'
      /\ reservations' = [SweptReservations EXCEPT ![r] = record]
  BY <1>3 DEF RecordAttestation, Advance, Answer, Reservations
<1> HIDE DEF record
<1>5. QED BY <1>1, <1>2, <1>4, AdvanceLocks

\* A read or a refusal, and a step that does not reach the store.
LEMMA ReadLocks ==
  ASSUME LockInv, IInv', Sweep
  PROVE  MadeOnce' /\ Lock!Next
<1>1. /\ items' = SweptItems /\ reservations' = SweptReservations /\ answered' = answered
  BY DEF Sweep
<1>2. MadeOnce'
  BY <1>1, SweptKeeps DEF LockInv, MadeOnce
<1>3. Ended(reservations)' = Ended(SweptReservations)
  BY <1>1 DEF Ended
<1>4. QED BY <1>1, <1>2, <1>3, SweepLocks DEF LockInv

LEMMA StillLocks ==
  ASSUME LockInv, UNCHANGED vars
  PROVE  MadeOnce' /\ UNCHANGED Lock!vars
<1>1. MadeOnce'
  BY DEF vars, MadeOnce, LockInv
<1>2. HeldFor' = HeldFor /\ ReleasedTo' = ReleasedTo /\ Over' = Over
  BY DEF vars, HeldFor, ReleasedTo, Over, IsLive
<1>3. QED BY <1>1, <1>2 DEF Lock!vars

\* Every step of the store is a step of the lock, or leaves it as it is.
LEMMA LockNext ==
  LockInv /\ [Next]_vars => LockInv' /\ [Lock!Next]_(Lock!vars)
<1> SUFFICES ASSUME LockInv, [Next]_vars
             PROVE  LockInv' /\ [Lock!Next]_(Lock!vars)
  OBVIOUS
<1>1. IInv /\ IInv'
  BY NextKeepsInvariant DEF LockInv
<1>2. ASSUME NEW k \in Key, NEW c \in Case, NEW i \in Item, NEW expires \in Time,
             Reserve(k, c, i, SweptItems[i].version, expires)
      PROVE  MadeOnce' /\ Lock!Next
  BY <1>1, <1>2, ReserveLocks, TimesAreNumbers
<1>3. ASSUME NEW k \in Key, NEW r \in Reservation, Request(k, r)
      PROVE  MadeOnce' /\ Lock!Next
  <2> DEFINE version == SweptReservations[r].version
  <2>1. ASSUME NEW expires \in Time, IssueCredentials(k, r, version, expires)
        PROVE  MadeOnce' /\ Lock!Next
    BY <1>1, <2>1, IssueLocks
  <2>2. ASSUME NEW role \in Role, RecordAttestation(<<k, role>>, r, version, role)
        PROVE  MadeOnce' /\ Lock!Next
    BY <1>1, <2>2, AttestLocks
  <2>3. ASSUME FinalizeHandoff(k, r, version) PROVE MadeOnce' /\ Lock!Next
    BY <1>1, <2>3, FinalizeLocks
  <2>4. QED BY <1>3, <2>1, <2>2, <2>3 DEF Request
<1>4. ASSUME Sweep PROVE MadeOnce' /\ Lock!Next
  BY <1>1, <1>4, ReadLocks
<1>5. ASSUME UNCHANGED vars PROVE MadeOnce' /\ UNCHANGED Lock!vars
  BY <1>5, StillLocks
<1>6. QED BY <1>1, <1>2, <1>3, <1>4, <1>5 DEF Next, LockInv

LEMMA LockInit == Init => LockInv /\ Lock!Init
<1> SUFFICES ASSUME Init PROVE LockInv /\ Lock!Init
  OBVIOUS
<1>1. IInv /\ \A r \in Reservation : reservations[r] = None
  BY InitGood DEF Init
<1>2. MadeOnce
  BY <1>1 DEF MadeOnce
<1>3. HeldFor = [i \in Item |-> None] /\ Over = {}
  BY <1>1 DEF HeldFor, Over, IsLive
<1>4. ReleasedTo = [i \in Item |-> None]
  BY DEF Init, ReleasedTo
<1>5. QED BY <1>1, <1>2, <1>3, <1>4 DEF LockInv, Lock!Init

\* The store implements the lock of ItemLock: although it gives up holds only
\* when it is next asked, answers repeats from memory and serves several cases,
\* an item is held for at most one reservation, a reservation that is over stays
\* over, and an item that was handed over is never held again (simulator store.py).
THEOREM StoreIsLock == Spec => ItemsLocked
BY LockInit, LockNext, PTL DEF Spec, ItemsLocked, Lock!Spec

-----------------------------------------------------------------------------
(* Every operation begins before the end of what it changes *)

LEMMA NextInWindow ==
  LockInv /\ [Next]_vars => [\A r \in Reservation : StepInWindow(r)]_vars
<1> SUFFICES ASSUME LockInv, Next PROVE \A r \in Reservation : StepInWindow(r)
  OBVIOUS
<1>1. ASSUME NEW k \in Key, NEW c \in Case, NEW i \in Item, NEW expires \in Time,
             Reserve(k, c, i, SweptItems[i].version, expires)
      PROVE  \A r \in Reservation : StepInWindow(r)
  <2>1. IInv /\ reservations[<<c, i, k>>] = None
    BY <1>1, ReservedAnew DEF LockInv
  <2>2. QED BY <1>1, <2>1, ReserveInWindow, TimesAreNumbers
<1>2. ASSUME NEW k \in Key, NEW r \in Reservation, Request(k, r)
      PROVE  \A q \in Reservation : StepInWindow(q)
  <2> DEFINE version == SweptReservations[r].version
  <2>1. ASSUME NEW expires \in Time, IssueCredentials(k, r, version, expires)
        PROVE  \A q \in Reservation : StepInWindow(q)
    BY <1>2, <2>1, IssueInWindow, TimesAreNumbers DEF LockInv
  <2>2. ASSUME NEW role \in Role, RecordAttestation(<<k, role>>, r, version, role)
        PROVE  \A q \in Reservation : StepInWindow(q)
    <3>1. /\ Current(r, version) /\ SweptReservations[r].status \in Live
          /\ Usable(r) /\ Meanwhile
          /\ Advance(r, NextStatus(r, role), SweptReservations[r].tokens,
                     SweptReservations[r].attested \cup {role})
      BY <2>2 DEF RecordAttestation, Presentable, Live
    <3>2. QED BY <1>2, <3>1, UseInWindow DEF LockInv
  <2>3. ASSUME FinalizeHandoff(k, r, version)
        PROVE  \A q \in Reservation : StepInWindow(q)
    <3>1. /\ Current(r, version) /\ SweptReservations[r].status \in Live
          /\ Usable(r) /\ Meanwhile
          /\ Advance(r, "HANDOFF_ATTESTED", SweptReservations[r].tokens,
                     SweptReservations[r].attested)
      BY <2>3 DEF FinalizeHandoff, Live
    <3>2. QED BY <1>2, <3>1, UseInWindow DEF LockInv
  <2>4. QED BY <1>2, <2>1, <2>2, <2>3 DEF Request
<1>3. CASE Sweep
  BY <1>3, SweepInWindow DEF Sweep, LockInv
<1>4. QED BY <1>1, <1>2, <1>3 DEF Next

\* What an operation does to a reservation it began before the end of, for any
\* readings of the clock and any length of a second (now, isoformat,
\* _expire_locked).
THEOREM OperationsBeginInWindow == Spec => BegunInWindow
BY LockInit, LockNext, NextInWindow, PTL DEF Spec, BegunInWindow
=============================================================================
