-------------------------- MODULE RelayHandoffProofs --------------------------
(***************************************************************************)
(* Proofs about RelayHandoff for any cases, items, handlers, keys and      *)
(* times.  The relay's own invariant is taken from RelayStoreProofs; what  *)
(* is added says how far the handoff of a case has come on either side, and *)
(* which effect each stored answer stands for.                             *)
(***************************************************************************)
EXTENDS RelayHandoff, RelayStoreProofs

\* The effects a reservation has seen: its version without the step that gives
\* it up.
Level(record) == IF record.status = "EXPIRED" THEN record.version - 1 ELSE record.version

Presented(attested, level) ==
  /\ level <= 2 => attested = {}
  /\ level = 3 => \E role \in Role : attested = {role}
  /\ level >= 4 => attested = Role

\* At the relay, the version tells the status.
RecordFits(record) ==
  /\ Level(record) \in 1..5
  /\ record.status = "HELD" => record.version = 1
  /\ record.status = "TOKENS_ISSUED" => record.version = 2
  /\ record.status = "PARTIALLY_ATTESTED" => record.version = 3
  /\ record.status = "CALLBACK_READY" => record.version = 4
  /\ record.status = "HANDOFF_ATTESTED" <=> Level(record) = 5
  /\ record.tokens = None <=> Level(record) = 1
  /\ Presented(record.attested, Level(record))

RelayFits == \A r \in Reservation : reservations[r] # None => RecordFits(reservations[r])

\* At the service, the version last told tells the state and what is recorded.
HandoffFits(p, h) ==
  /\ h.remote \in 0..5
  /\ p.state = "RESERVE_REQUESTED" => h.remote = 0
  /\ p.state = "RESERVED" => h.remote \in 1..3 /\ "CLAIMANT" \notin h.attested
  /\ p.state = "CLAIMANT_PRESENT" => h.remote \in 3..4
  /\ p.state = "RELEASE_REQUESTED" => h.remote = 4
  /\ p.state = "RELEASED" => h.remote = 5
  /\ p.state = "RECONCILIATION_REQUIRED" => h.remote \in {0, 4}
  /\ h.expires = None <=> h.remote = 0
  /\ h.issued = None <=> h.remote <= 1
  /\ Presented(h.attested, h.remote)

\* What is recorded fits the version by itself, whatever the state.
HandoffSide(h) ==
  /\ h.remote \in 0..5
  /\ h.expires = None <=> h.remote = 0
  /\ h.issued = None <=> h.remote <= 1
  /\ Presented(h.attested, h.remote)

\* The two sides of a case: the relay is as far as the service, or one effect
\* ahead.
Follows(c) ==
  LET record == reservations[Reserved(c)]
      remote == handoff[c].remote
  IN /\ record = None => remote = 0
     /\ record # None => Level(record) \in {remote, remote + 1}
     /\ remote # 0 => record # None /\ Backed(record, handoff[c], passport[c].state)

CaseFits(c) == HandoffFits(passport[c], handoff[c]) /\ Follows(c)
CasesFit == \A c \in Case : CaseFits(c)

-----------------------------------------------------------------------------
(* The stored answers *)

Entry(scope, body) == [scope |-> scope, body |-> body]
ReserveEntry(c, e) == Entry(<<"reserve", c>>, <<c, ItemOf[c], ItemVersion, e>>)
TokensEntry(c, k, v, e) == Entry(<<"credentials", <<c, k>>>>, <<Reserved(c), v, e>>)
AttestEntry(c, k, v, role) == Entry(<<"attestation", <<c, k>>>>, <<Reserved(c), v, role>>)
ReleaseEntry(c, v) == Entry(<<"handoff", c>>, <<Reserved(c), v>>)

TokensCommand(c, k) == [op |-> "tokens", case |-> c, key |-> k]
AttestCommand(c, k, role) == [op |-> "attest", case |-> c, key |-> k, role |-> role]

\* A client's command that took effect at version v is committed, or the service
\* is still where it was then.
Pending(command, c, v) == command \in receipts \/ handoff[c].remote = v
Unrecorded(command, c, v, role) ==
  command \in receipts \/ (handoff[c].remote = v /\ role \notin handoff[c].attested)

ReserveDone(c, e) ==
  reservations[Reserved(c)] # None /\ reservations[Reserved(c)].expires = Floor(e)

TokensDone(c, k, v, e) ==
  /\ v = 1
  /\ reservations[Reserved(c)] # None
  /\ Level(reservations[Reserved(c)]) > 1
  /\ reservations[Reserved(c)].tokens = Floor(e)
  /\ Pending(TokensCommand(c, k), c, v)

AttestDone(c, k, v, role) ==
  /\ v \in 2..3
  /\ reservations[Reserved(c)] # None
  /\ Level(reservations[Reserved(c)]) > v
  /\ role \in reservations[Reserved(c)].attested
  /\ Unrecorded(AttestCommand(c, k, role), c, v, role)

ReleaseDone(c) ==
  reservations[Reserved(c)] # None /\ Level(reservations[Reserved(c)]) = 5

\* Each stored answer stands for an effect the reservation shows.
AnswersDone ==
  /\ \A c \in Case, e \in Nat : ReserveEntry(c, e) \in answered => ReserveDone(c, e)
  /\ \A c \in Case, k \in ClientKey, v \in Nat, e \in Nat :
       TokensEntry(c, k, v, e) \in answered => TokensDone(c, k, v, e)
  /\ \A c \in Case, k \in ClientKey, v \in Nat, role \in Role :
       AttestEntry(c, k, v, role) \in answered => AttestDone(c, k, v, role)
  /\ \A c \in Case, v \in Nat : ReleaseEntry(c, v) \in answered => ReleaseDone(c)

\* A reservation that exists was answered.
ReservationsAnswered ==
  \A c \in Case :
    reservations[Reserved(c)] # None => \E a \in answered : a.scope = <<"reserve", c>>

\* A version is served to one command.
TokensServedOnce ==
  \A c \in Case, k1 \in ClientKey, k2 \in ClientKey,
     v1 \in Nat, v2 \in Nat, e1 \in Nat, e2 \in Nat :
    TokensEntry(c, k1, v1, e1) \in answered /\ TokensEntry(c, k2, v2, e2) \in answered
      => k1 = k2

AttestsServedOnce ==
  \A c \in Case, k1 \in ClientKey, k2 \in ClientKey, v \in Nat, r1 \in Role, r2 \in Role :
    AttestEntry(c, k1, v, r1) \in answered /\ AttestEntry(c, k2, v, r2) \in answered
      => k1 = k2 /\ r1 = r2

AnswersFit ==
  AnswersDone /\ ReservationsAnswered /\ TokensServedOnce /\ AttestsServedOnce

-----------------------------------------------------------------------------
(* The commands under way *)

CommandFits(q) ==
  /\ q.command.op = "reserve" => q.passport.state = "RESERVE_REQUESTED" /\ q.expires \in Nat
  /\ q.command.op = "tokens" =>
       q.passport.state = "RESERVED" /\ q.handoff.issued = None /\ q.expires \in Nat
  /\ q.command.op = "attest" =>
       q.passport.state \in {"RESERVED", "CLAIMANT_PRESENT"} /\ q.handoff.issued # None
  /\ q.command.op = "release" => q.passport.state = "RELEASE_REQUESTED"

\* The case a command read is the case still, or of an earlier version.
ReadCase(p, c) ==
  p.version <= passport[c].version /\ (p.version = passport[c].version => p = passport[c])

\* The handoff it read after that is the handoff still, or the reservation has come
\* further; and if the case is still what it was, so is the handoff.
Read(p, h, c) ==
  /\ ReadCase(p, c)
  /\ p.version = passport[c].version => h = handoff[c]
  /\ h = handoff[c] \/ h.remote < handoff[c].remote

\* A command that has not read the handoff yet.
ReadingFits(q) ==
  LET c == q.command.case
  IN /\ ReadCase(q.passport, c)
     /\ q.command.op = "reserve" => q.passport.state = "RESERVE_REQUESTED"
     /\ q.command.op = "tokens" => q.passport.state = "RESERVED" /\ handoff[c].remote >= 1
     /\ q.command.op = "attest" =>
          q.passport.state \in {"RESERVED", "CLAIMANT_PRESENT"} /\ handoff[c].remote >= 2
     /\ q.command.op = "release" => q.passport.state = "RELEASE_REQUESTED"

CallFits(q) ==
  /\ HandoffSide(q.handoff)
  /\ CommandFits(q)
  /\ Read(q.passport, q.handoff, q.command.case)
  /\ q.at = "accepted" => Entry(Scope(q), Body(q)) \in answered

Asked == {"calling", "accepted", "failed"}

StageFits(q) ==
  /\ q.at = "reading" => ReadingFits(q)
  /\ q.at \in Asked => CallFits(q)

CallsFit == \A h \in Handler : StageFits(call[h])

HandoffInv ==
  IInv /\ HandoffTypeOK /\ RelayFits /\ CasesFit /\ AnswersFit /\ CallsFit

-----------------------------------------------------------------------------
(* Keys, commands and entries *)

LEMMA ReservedTyped ==
  ASSUME NEW c \in Case
  PROVE  /\ Reserved(c) \in Reservation
         /\ Reserved(c)[2] = ItemOf[c] /\ ItemOf[c] \in Item /\ c \in Key
         /\ \A d \in Case : Reserved(d) = Reserved(c) => d = c
BY RowsAssumption, ItemOfAssumption DEF Reserved, Reservation

LEMMA CallTyped ==
  ASSUME NEW q \in Call
  PROVE  /\ q.at \in Asked
         /\ q.command \in Command /\ q.passport \in Passport /\ q.handoff \in Handoff
         /\ q.expires \in Nat \cup {None}
BY DEF Call, Asked

LEMMA ReadingTyped ==
  ASSUME NEW q \in Reading
  PROVE  q.at = "reading" /\ q.command \in Command /\ q.passport \in Passport
BY DEF Reading

\* What is recorded beside the state.
LEMMA SideOfHandoff ==
  ASSUME NEW p, NEW h, HandoffFits(p, h)
  PROVE  HandoffSide(h)
BY DEF HandoffFits, HandoffSide

LEMMA CommandForms ==
  ASSUME NEW command \in Command
  PROVE  /\ command.case \in Case
         /\ command.op \in {"reserve", "tokens", "attest", "release"}
         /\ command.op = "tokens" =>
              command.key \in ClientKey /\ command = TokensCommand(command.case, command.key)
         /\ command.op = "attest" =>
              /\ command.key \in ClientKey /\ command.role \in Role
              /\ command = AttestCommand(command.case, command.key, command.role)
BY DEF Command, TokensCommand, AttestCommand

LEMMA EntryForms ==
  ASSUME NEW q
  PROVE  LET c == q.command.case
             v == q.handoff.remote
             entry == Entry(Scope(q), Body(q))
         IN /\ q.command.op = "reserve" => entry = ReserveEntry(c, q.expires)
            /\ q.command.op = "tokens" => entry = TokensEntry(c, q.command.key, v, q.expires)
            /\ q.command.op = "attest" =>
                 entry = AttestEntry(c, q.command.key, v, q.command.role)
            /\ q.command.op = "release" => entry = ReleaseEntry(c, v)
BY DEF Scope, Body, RequestKey, ReserveEntry, TokensEntry, AttestEntry, ReleaseEntry

\* Entries of different requests are different.
LEMMA EntriesApart ==
  /\ \A c, d, e, f : ReserveEntry(c, e) = ReserveEntry(d, f) => c = d /\ e = f
  /\ \A c, d, k, l, v, w, e, f :
       TokensEntry(c, k, v, e) = TokensEntry(d, l, w, f) => c = d /\ k = l /\ v = w /\ e = f
  /\ \A c, d, k, l, v, w, r, s :
       AttestEntry(c, k, v, r) = AttestEntry(d, l, w, s) => c = d /\ k = l /\ v = w /\ r = s
  /\ \A c, d, v, w : ReleaseEntry(c, v) = ReleaseEntry(d, w) => c = d /\ v = w
BY DEF Entry, ReserveEntry, TokensEntry, AttestEntry, ReleaseEntry

LEMMA KindsApart ==
  /\ \A c, e, d, k, v, f : ReserveEntry(c, e) # TokensEntry(d, k, v, f)
  /\ \A c, e, d, k, v, r : ReserveEntry(c, e) # AttestEntry(d, k, v, r)
  /\ \A c, e, d, v : ReserveEntry(c, e) # ReleaseEntry(d, v)
  /\ \A c, k, v, e, d, l, w, r : TokensEntry(c, k, v, e) # AttestEntry(d, l, w, r)
  /\ \A c, k, v, e, d, w : TokensEntry(c, k, v, e) # ReleaseEntry(d, w)
  /\ \A c, k, v, r, d, w : AttestEntry(c, k, v, r) # ReleaseEntry(d, w)
BY DEF Entry, ReserveEntry, TokensEntry, AttestEntry, ReleaseEntry

-----------------------------------------------------------------------------
(* The relay's records through a sweep and an effect *)

\* What the service was told of a record stays true of the next one.
Extends(old, new) ==
  /\ new.expires = old.expires
  /\ old.tokens # None => new.tokens = old.tokens
  /\ old.attested \subseteq new.attested
  /\ Level(new) >= Level(old)

LEMMA SweptRecord ==
  ASSUME IInv, RelayFits, NEW r \in Reservation
  PROVE  /\ reservations[r] = None <=> SweptReservations[r] = None
         /\ reservations[r] # None =>
              /\ SweptReservations[r] \in ReservationRecord
              /\ RecordFits(SweptReservations[r])
              /\ Extends(reservations[r], SweptReservations[r])
              /\ Level(SweptReservations[r]) = Level(reservations[r])
<1> DEFINE old == reservations[r]
           new == SweptReservations[r]
<1>1. CASE Lapsed(r)
  <2>1. /\ old \in ReservationRecord /\ old # None /\ old.status \in Live
        /\ new = Expired(old) /\ RecordFits(old)
    BY <1>1, LapsedRecord DEF IInv, RelayFits
  <2> HIDE DEF old, new
  <2>2. new \in ReservationRecord /\ new # None
    BY <2>1, ExpiredRecord, NoneAssumption
  <2>3. /\ new.status = "EXPIRED" /\ new.attested = old.attested /\ new.tokens = old.tokens
        /\ new.expires = old.expires
    BY <2>1, ExpiredRecord
  <2>4. new.version = old.version + 1 /\ old.version \in Nat /\ old.status # "EXPIRED"
    BY <2>1 DEF Expired, Advanced, ReservationRecord, Live
  <2>5. Level(new) = Level(old) /\ Level(old) \in Nat /\ Level(old) # 5
    BY <2>1, <2>3, <2>4 DEF Level, RecordFits, Live
  <2>6. RecordFits(new)
    BY <2>1, <2>3, <2>5 DEF RecordFits
  <2>7. Extends(old, new)
    BY <2>3, <2>5 DEF Extends
  <2>8. QED BY <2>1, <2>2, <2>5, <2>6, <2>7 DEF old, new
<1>2. CASE ~Lapsed(r)
  <2>1. new = old
    BY <1>2, LapsedRecord DEF IInv
  <2>2. old # None => old \in ReservationRecord /\ RecordFits(old)
    BY DEF IInv, TypeOK, RelayFits
  <2>3. old # None => Level(old) \in Nat
    BY <2>2 DEF RecordFits
  <2>4. old # None => Extends(old, old)
    BY <2>3 DEF Extends
  <2>5. QED BY <2>1, <2>2, <2>4
<1>3. QED BY <1>1, <1>2

\* What a request did that took effect.
EffectOf(q) ==
  LET r == Reserved(q.command.case)
      old == SweptReservations[r]
      new == reservations'[r]
  IN /\ new # None /\ RecordFits(new) /\ Level(new) = q.handoff.remote + 1
     /\ old = None => q.handoff.remote = 0
     /\ old # None => Level(old) = q.handoff.remote /\ Extends(old, new)
     /\ q.command.op = "reserve" => new.expires = Floor(q.expires)
     /\ q.command.op = "tokens" => new.tokens = Floor(q.expires) /\ q.handoff.remote = 1
     /\ q.command.op = "attest" =>
          /\ q.command.role \in new.attested /\ q.handoff.remote \in 2..3
          /\ old # None /\ q.command.role \notin old.attested
     /\ q.command.op = "release" => Level(new) = 5
     /\ \A s \in Reservation : s # r => reservations'[s] = SweptReservations[s]
     /\ answered' = answered \cup {Entry(Scope(q), Body(q))}
     /\ IInv'

LEMMA ReserveEffect ==
  ASSUME HandoffInv, NEW q \in Call, CallFits(q), q.command.op = "reserve", TakesEffect(q)
  PROVE  EffectOf(q)
<1> DEFINE c == q.command.case
           r == Reserved(c)
           record == [status |-> "HELD", version |-> 1, expires |-> Floor(q.expires),
                      tokens |-> None, attested |-> {}]
<1>1. c \in Case /\ r \in Reservation /\ r = <<c, ItemOf[c], c>>
  BY CallTyped, CommandForms, ReservedTyped DEF Reserved
<1>2. q.expires \in Nat /\ q.handoff.remote = 0 /\ Floor(q.expires) \in Nat
  BY Floored DEF CallFits, CommandFits, TakesEffect, AsksForItem
<1>3. Reserve(c, c, ItemOf[c], ItemVersion, q.expires)
  BY DEF TakesEffect, RequestKey
<1>4. /\ Fresh(<<"reserve", c>>) /\ Meanwhile /\ SweptItems[ItemOf[c]].version = ItemVersion
      /\ reservations' = [SweptReservations EXCEPT ![r] = record]
      /\ answered' = answered \cup {ReserveEntry(c, q.expires)}
  BY <1>1, <1>3 DEF Reserve, Answer, ReserveEntry, Entry
<1>5. IInv'
  <2>1. Reserve(c, c, ItemOf[c], SweptItems[ItemOf[c]].version, q.expires)
    BY <1>3, <1>4
  <2>2. IInv /\ c \in Key /\ ItemOf[c] \in Item
    BY <1>1, ReservedTyped DEF HandoffInv
  <2> HIDE DEF c
  <2>3. Good(items', reservations')
    BY <1>1, <1>2, <2>1, <2>2, ReserveKeepsGood
  <2>4. QED BY <1>4, <2>3, ClockTyped, GoodIsInvariant
<1>6. SweptReservations \in Reservations
  BY SweptTyped DEF HandoffInv, IInv
<1>7. reservations'[r] = record /\ \A s \in Reservation : s # r => reservations'[s] = SweptReservations[s]
  BY <1>1, <1>4, <1>6 DEF Reservations
<1>8. SweptReservations[r] = None
  <2>1. reservations[r] = None
    BY <1>1, <1>4 DEF HandoffInv, AnswersFit, ReservationsAnswered, Fresh
  <2>2. QED BY <1>1, <2>1, SweptRecord DEF HandoffInv
<1>9. /\ record.status = "HELD" /\ record.version = 1 /\ record.expires = Floor(q.expires)
      /\ record.tokens = None /\ record.attested = {}
  OBVIOUS
<1>10. record # None
  <2>1. record \in ReservationRecord
    BY <1>2 DEF ReservationRecord, Status, Live
  <2>2. QED BY <2>1, NoneAssumption
<1> HIDE DEF record
<1>11. RecordFits(record) /\ Level(record) = 1
  BY <1>9 DEF RecordFits, Level, Presented
<1>12. Entry(Scope(q), Body(q)) = ReserveEntry(c, q.expires)
  BY EntryForms
<1>13. QED
  BY <1>2, <1>4, <1>5, <1>7, <1>8, <1>9, <1>10, <1>11, <1>12 DEF EffectOf

\* The record an operation states the version of.
LEMMA StatedVersion ==
  ASSUME HandoffInv, NEW c \in Case, NEW v \in Nat,
         reservations[Reserved(c)] # None, Current(Reserved(c), v)
  PROVE  LET old == SweptReservations[Reserved(c)]
         IN /\ old \in ReservationRecord /\ old # None
            /\ RecordFits(old) /\ Level(old) = v /\ old.version = v
            /\ old.tokens \in Nat \cup {None} /\ old.attested \in SUBSET Role
<1>1. IInv /\ RelayFits /\ Reserved(c) \in Reservation
  BY ReservedTyped DEF HandoffInv
<1>2. /\ SweptReservations[Reserved(c)] \in ReservationRecord
      /\ RecordFits(SweptReservations[Reserved(c)])
  BY <1>1, SweptRecord
<1>3. QED BY <1>2, RecordFields DEF Current, Level

\* A record that an operation advances by one effect.
LEMMA AdvancedFits ==
  ASSUME NEW old \in ReservationRecord, RecordFits(old), NEW v \in Nat, Level(old) = v,
         old.version = v, old.status # "EXPIRED",
         NEW status \in Status, NEW tokens \in Nat \cup {None}, NEW attested \in SUBSET Role,
         old.attested \subseteq attested, old.tokens # None => tokens = old.tokens,
         tokens # None, Presented(attested, v + 1),
         \/ status = "TOKENS_ISSUED" /\ v = 1
         \/ status = "PARTIALLY_ATTESTED" /\ v = 2
         \/ status = "CALLBACK_READY" /\ v = 3
         \/ status = "HANDOFF_ATTESTED" /\ v = 4
  PROVE  LET new == Advanced(old, status, tokens, attested)
         IN /\ new # None /\ RecordFits(new) /\ Level(new) = v + 1 /\ Extends(old, new)
            /\ new.tokens = tokens /\ new.attested = attested
<1> DEFINE new == Advanced(old, status, tokens, attested)
<1>1. /\ new \in ReservationRecord /\ new.status = status /\ new.attested = attested
      /\ new.tokens = tokens /\ new.expires = old.expires
  BY AdvancedRecord
<1>2. new.version = v + 1
  BY DEF Advanced
<1> HIDE DEF new
<1>3. new # None
  BY <1>1, NoneAssumption
<1>4. Level(new) = v + 1
  BY <1>1, <1>2 DEF Level
<1>5. Extends(old, new)
  BY <1>1, <1>4 DEF Extends
<1>6. RecordFits(new)
  BY <1>1, <1>2, <1>4 DEF RecordFits
<1>7. QED BY <1>1, <1>3, <1>4, <1>5, <1>6 DEF new

\* The frame of an operation on a reservation.
LEMMA AdvanceFrame ==
  ASSUME HandoffInv, NEW r \in Reservation, NEW status, NEW tokens, NEW attested,
         Advance(r, status, tokens, attested)
  PROVE  /\ reservations'[r] = Advanced(SweptReservations[r], status, tokens, attested)
         /\ \A s \in Reservation : s # r => reservations'[s] = SweptReservations[s]
<1>1. SweptReservations \in Reservations
  BY SweptTyped DEF HandoffInv, IInv
<1>2. QED BY <1>1 DEF Advance, Reservations

LEMMA TokensEffect ==
  ASSUME HandoffInv, NEW q \in Call, CallFits(q), q.command.op = "tokens", TakesEffect(q)
  PROVE  EffectOf(q)
<1> DEFINE c == q.command.case
           r == Reserved(c)
           v == q.handoff.remote
           old == SweptReservations[r]
           end == Floor(q.expires)
<1>1. c \in Case /\ r \in Reservation
  BY CallTyped, CommandForms, ReservedTyped
<1>2. /\ q.expires \in Nat /\ v \in Nat /\ v <= 1
  BY DEF CallFits, CommandFits, HandoffSide
<1>3. reservations[r] # None /\ IssueCredentials(RequestKey(q), r, v, q.expires)
  BY DEF TakesEffect, AsksForItem
<1>4. /\ Current(r, v) /\ old.status = "HELD" /\ Meanwhile
      /\ Advance(r, "TOKENS_ISSUED", end, {})
      /\ answered' = answered \cup {Entry(Scope(q), Body(q))}
  BY <1>3 DEF IssueCredentials, Answer, Entry, Scope, Body
<1>5. IInv'
  <2>1. Good(items', reservations')
    BY <1>1, <1>2, <1>3, IssueKeepsGood DEF HandoffInv
  <2>2. QED BY <1>4, <2>1, ClockTyped, GoodIsInvariant
<1>6. /\ old \in ReservationRecord /\ old # None /\ RecordFits(old) /\ Level(old) = v
      /\ old.version = v
  BY <1>1, <1>2, <1>3, <1>4, StatedVersion
<1>7. v = 1 /\ old.tokens = None /\ old.attested = {}
  BY <1>4, <1>6 DEF RecordFits, Presented
<1>8. /\ reservations'[r] = Advanced(old, "TOKENS_ISSUED", end, {})
      /\ \A s \in Reservation : s # r => reservations'[s] = SweptReservations[s]
  BY <1>1, <1>4, AdvanceFrame
<1>9. end \in Nat
  BY <1>2, Floored
<1> HIDE DEF end
<1>10. /\ end # None /\ "TOKENS_ISSUED" \in Status /\ Presented({}, v + 1)
       /\ end \in Nat \cup {None} /\ {} \in SUBSET Role /\ old.status # "EXPIRED"
  BY <1>2, <1>4, <1>7, <1>9, NoneAssumption DEF Status, Live, Presented
<1> HIDE DEF old, v
<1>11. LET new == Advanced(old, "TOKENS_ISSUED", end, {})
       IN /\ new # None /\ RecordFits(new) /\ Level(new) = v + 1 /\ Extends(old, new)
          /\ new.tokens = end /\ new.attested = {}
  BY <1>2, <1>6, <1>7, <1>10, AdvancedFits
<1>12. QED
  BY <1>4, <1>5, <1>6, <1>7, <1>8, <1>11 DEF EffectOf, old, v, end

LEMMA AttestEffect ==
  ASSUME HandoffInv, NEW q \in Call, CallFits(q), q.command.op = "attest", TakesEffect(q)
  PROVE  EffectOf(q)
<1> DEFINE c == q.command.case
           r == Reserved(c)
           v == q.handoff.remote
           role == q.command.role
           old == SweptReservations[r]
           status == NextStatus(r, role)
           attested == old.attested \cup {role}
<1>1. c \in Case /\ r \in Reservation /\ role \in Role
  BY CallTyped, CommandForms, ReservedTyped
<1>2. v \in 2..5
  BY DEF CallFits, CommandFits, HandoffSide
<1>3. reservations[r] # None /\ RecordAttestation(RequestKey(q), r, v, role)
  BY DEF TakesEffect, AsksForItem
<1>4. /\ Current(r, v) /\ Presentable(r, role) /\ Meanwhile /\ old.tokens # None
      /\ Advance(r, status, old.tokens, attested)
      /\ answered' = answered \cup {Entry(Scope(q), Body(q))}
  BY <1>3 DEF RecordAttestation, Usable, Answer, Entry, Scope, Body
<1>5. IInv'
  <2>1. Good(items', reservations')
    BY <1>1, <1>3, AttestKeepsGood DEF HandoffInv
  <2>2. QED BY <1>4, <2>1, ClockTyped, GoodIsInvariant
<1>6. /\ old \in ReservationRecord /\ old # None /\ RecordFits(old) /\ Level(old) = v
      /\ old.version = v /\ old.tokens \in Nat \cup {None} /\ old.attested \in SUBSET Role
  BY <1>1, <1>2, <1>3, <1>4, StatedVersion
<1>7. /\ role \notin old.attested /\ old.status # "EXPIRED"
      /\ \/ old.status = "TOKENS_ISSUED" /\ v = 2
         \/ old.status = "PARTIALLY_ATTESTED" /\ v = 3
  BY <1>4, <1>6 DEF RecordFits, Presentable
<1>8. /\ reservations'[r] = Advanced(old, status, old.tokens, attested)
      /\ \A s \in Reservation : s # r => reservations'[s] = SweptReservations[s]
  BY <1>1, <1>4, AdvanceFrame
<1>9. status = IF attested = Role THEN "CALLBACK_READY" ELSE "PARTIALLY_ATTESTED"
  BY DEF NextStatus
<1> HIDE DEF old, v, status
<1>10. /\ attested \in SUBSET Role /\ old.attested \subseteq attested
       /\ status \in Status /\ Presented(attested, v + 1)
       /\ \/ status = "PARTIALLY_ATTESTED" /\ v = 2
          \/ status = "CALLBACK_READY" /\ v = 3
  <2>1. CASE v = 2
    <3>1. old.attested = {} /\ attested = {role} /\ attested # Role
      BY <1>1, <1>6, <2>1 DEF RecordFits, Presented, Role
    <3>2. status = "PARTIALLY_ATTESTED" /\ status \in Status
      BY <1>9, <3>1 DEF Status, Live
    <3>3. Presented(attested, v + 1)
      BY <1>1, <2>1, <3>1 DEF Presented
    <3>4. attested \in SUBSET Role /\ old.attested \subseteq attested
      BY <1>1, <3>1
    <3>5. QED BY <2>1, <3>2, <3>3, <3>4
  <2>2. CASE v = 3
    <3>1. attested = Role
      BY <1>1, <1>6, <1>7, <2>2 DEF RecordFits, Presented, Role
    <3>2. QED BY <1>1, <1>9, <2>2, <3>1 DEF Presented, Status, Live
  <2>3. QED BY <1>7, <2>1, <2>2
<1>11. v \in Nat
  BY <1>2
<1> DEFINE tokens == old.tokens
<1>12. tokens \in Nat \cup {None} /\ tokens # None /\ (old.tokens # None => tokens = old.tokens)
  BY <1>4, <1>6 DEF old
<1>13. role \in attested
  OBVIOUS
<1> HIDE DEF tokens, attested
<1>14. LET new == Advanced(old, status, tokens, attested)
       IN /\ new # None /\ RecordFits(new) /\ Level(new) = v + 1 /\ Extends(old, new)
          /\ new.tokens = tokens /\ new.attested = attested
  BY <1>6, <1>7, <1>10, <1>11, <1>12, AdvancedFits
<1>15. /\ reservations'[r] # None /\ RecordFits(reservations'[r])
       /\ Level(reservations'[r]) = v + 1 /\ Extends(old, reservations'[r])
       /\ role \in reservations'[r].attested /\ v \in 2..3
  BY <1>8, <1>10, <1>13, <1>14 DEF tokens
<1>16. QED
  BY <1>4, <1>5, <1>6, <1>7, <1>8, <1>15 DEF EffectOf, old, v

LEMMA ReleaseEffect ==
  ASSUME HandoffInv, NEW q \in Call, CallFits(q), q.command.op = "release", TakesEffect(q)
  PROVE  EffectOf(q)
<1> DEFINE c == q.command.case
           r == Reserved(c)
           v == q.handoff.remote
           old == SweptReservations[r]
<1>1. c \in Case /\ r \in Reservation
  BY CallTyped, CommandForms, ReservedTyped
<1>2. v \in Nat
  BY DEF CallFits, HandoffSide
<1>3. reservations[r] # None /\ FinalizeHandoff(RequestKey(q), r, v)
  BY DEF TakesEffect, AsksForItem
<1>4. /\ Current(r, v) /\ old.status = "CALLBACK_READY" /\ Meanwhile /\ old.tokens # None
      /\ Advance(r, "HANDOFF_ATTESTED", old.tokens, old.attested)
      /\ answered' = answered \cup {Entry(Scope(q), Body(q))}
  BY <1>3 DEF FinalizeHandoff, Usable, Answer, Entry, Scope, Body
<1>5. IInv'
  <2>1. Good(items', reservations')
    BY <1>1, <1>3, FinalizeKeepsGood DEF HandoffInv
  <2>2. QED BY <1>4, <2>1, ClockTyped, GoodIsInvariant
<1>6. /\ old \in ReservationRecord /\ old # None /\ RecordFits(old) /\ Level(old) = v
      /\ old.version = v /\ old.tokens \in Nat \cup {None} /\ old.attested \in SUBSET Role
  BY <1>1, <1>2, <1>3, <1>4, StatedVersion
<1>7. /\ reservations'[r] = Advanced(old, "HANDOFF_ATTESTED", old.tokens, old.attested)
      /\ \A s \in Reservation : s # r => reservations'[s] = SweptReservations[s]
  BY <1>1, <1>4, AdvanceFrame
<1>8. v = 4
  BY <1>4, <1>6 DEF RecordFits
<1>9. "HANDOFF_ATTESTED" \in Status /\ Presented(old.attested, v + 1) /\ old.status # "EXPIRED"
  BY <1>4, <1>6, <1>8 DEF Status, RecordFits, Presented
<1> DEFINE tokens == old.tokens
           attested == old.attested
<1>10. /\ tokens \in Nat \cup {None} /\ tokens # None /\ (old.tokens # None => tokens = old.tokens)
      /\ attested \in SUBSET Role /\ old.attested \subseteq attested
      /\ Presented(attested, v + 1)
  BY <1>4, <1>6, <1>9
<1> HIDE DEF old, v, tokens, attested
<1>11. LET new == Advanced(old, "HANDOFF_ATTESTED", tokens, attested)
       IN /\ new # None /\ RecordFits(new) /\ Level(new) = v + 1 /\ Extends(old, new)
          /\ new.tokens = tokens /\ new.attested = attested
  BY <1>2, <1>6, <1>9, <1>10, <1>8, AdvancedFits
<1>12. /\ reservations'[r] # None /\ RecordFits(reservations'[r])
       /\ Level(reservations'[r]) = v + 1 /\ Extends(old, reservations'[r])
       /\ Level(reservations'[r]) = 5
  BY <1>7, <1>11, <1>8 DEF tokens, attested
<1>13. QED
  BY <1>4, <1>5, <1>6, <1>7, <1>12 DEF EffectOf, old, v

LEMMA EveryEffect ==
  ASSUME HandoffInv, NEW q \in Call, CallFits(q), TakesEffect(q)
  PROVE  EffectOf(q)
<1>1. q.command.op \in {"reserve", "tokens", "attest", "release"}
  BY CallTyped, CommandForms
<1>2. QED BY <1>1, ReserveEffect, TokensEffect, AttestEffect, ReleaseEffect

-----------------------------------------------------------------------------
(* Steps of the relay *)

\* What a step of the relay may do to the reservation of a case.
Moves(c) ==
  LET old == reservations[Reserved(c)]
      new == reservations'[Reserved(c)]
  IN /\ old # None => new # None /\ Extends(old, new)
     /\ new # None =>
          \/ old # None /\ Level(new) = Level(old)
          \/ Level(new) = handoff[c].remote + 1

RelayMoves ==
  IInv' /\ RelayFits' /\ UNCHANGED service /\ \A c \in Case : Moves(c)

LEMMA SweepMoves ==
  ASSUME HandoffInv, Sweep, UNCHANGED service
  PROVE  RelayMoves
<1>1. IInv'
  BY NextKeepsInvariant DEF HandoffInv, Next
<1>2. \A r \in Reservation : reservations'[r] = SweptReservations[r]
  BY DEF Sweep
<1>3. RelayFits'
  BY <1>2, SweptRecord DEF RelayFits, HandoffInv
<1>4. ASSUME NEW c \in Case PROVE Moves(c)
  <2>1. Reserved(c) \in Reservation /\ reservations'[Reserved(c)] = SweptReservations[Reserved(c)]
    BY <1>2, ReservedTyped
  <2>2. QED BY <2>1, SweptRecord DEF Moves, HandoffInv
<1>5. QED BY <1>1, <1>3, <1>4 DEF RelayMoves

\* A request takes effect only where the service still is what was read: the
\* version it states is the relay's, and the service is never ahead.
LEMMA EffectMeets ==
  ASSUME HandoffInv, NEW q \in Call, CallFits(q), EffectOf(q)
  PROVE  handoff[q.command.case].remote = q.handoff.remote
<1> DEFINE c == q.command.case
           r == Reserved(c)
<1>1. c \in Case /\ r \in Reservation
  BY CallTyped, CommandForms, ReservedTyped
<1>2. Follows(c) /\ HandoffFits(passport[c], handoff[c]) /\ HandoffSide(q.handoff)
  BY <1>1 DEF HandoffInv, CasesFit, CaseFits, CallFits
<1>3. handoff[c].remote \in 0..5 /\ q.handoff.remote \in 0..5
  BY <1>2 DEF HandoffFits, HandoffSide
<1>4. q.handoff.remote <= handoff[c].remote
  BY <1>3 DEF CallFits, Read
<1>5. CASE reservations[r] = None
  <2>1. SweptReservations[r] = None
    BY <1>1, <1>5, SweptRecord DEF HandoffInv
  <2>2. QED BY <1>2, <1>5, <2>1 DEF Follows, EffectOf
<1>6. CASE reservations[r] # None
  <2>1. /\ SweptReservations[r] # None
        /\ Level(SweptReservations[r]) = Level(reservations[r])
    BY <1>1, <1>6, SweptRecord DEF HandoffInv
  <2>2. Level(reservations[r]) = q.handoff.remote
    BY <2>1 DEF EffectOf
  <2>3. Level(reservations[r]) \in {handoff[c].remote, handoff[c].remote + 1}
    BY <1>2, <1>6 DEF Follows
  <2>4. QED BY <1>3, <1>4, <2>2, <2>3
<1>7. QED BY <1>5, <1>6

LEMMA ExtendsTransitive ==
  ASSUME NEW a, NEW b, NEW c, Extends(a, b), Extends(b, c),
         Level(a) \in Nat, Level(b) \in Nat, Level(c) \in Nat
  PROVE  Extends(a, c)
BY DEF Extends

LEMMA EffectMoves ==
  ASSUME HandoffInv, NEW q \in Call, CallFits(q), EffectOf(q), UNCHANGED service
  PROVE  RelayMoves
<1> DEFINE c == q.command.case
           r == Reserved(c)
<1>1. c \in Case /\ r \in Reservation
  BY CallTyped, CommandForms, ReservedTyped
<1>2. /\ IInv' /\ reservations'[r] # None /\ RecordFits(reservations'[r])
      /\ Level(reservations'[r]) = q.handoff.remote + 1
      /\ \A s \in Reservation : s # r => reservations'[s] = SweptReservations[s]
  BY DEF EffectOf
<1>3. RelayFits'
  <2>1. ASSUME NEW s \in Reservation, reservations'[s] # None PROVE RecordFits(reservations'[s])
    BY <1>2, <2>1, SweptRecord DEF HandoffInv
  <2>2. QED BY <2>1 DEF RelayFits
<1>4. Moves(c)
  <2>1. Level(reservations'[r]) = handoff[c].remote + 1
    BY <1>2, EffectMeets
  <2>2. ASSUME reservations[r] # None PROVE Extends(reservations[r], reservations'[r])
    <3>1. /\ SweptReservations[r] # None
          /\ Extends(reservations[r], SweptReservations[r])
          /\ RecordFits(SweptReservations[r])
      BY <1>1, <2>2, SweptRecord DEF HandoffInv
    <3>2. Extends(SweptReservations[r], reservations'[r])
      BY <3>1 DEF EffectOf
    <3>3. RecordFits(reservations[r])
      BY <1>1, <2>2 DEF HandoffInv, RelayFits
    <3>4. /\ Level(reservations[r]) \in Nat /\ Level(SweptReservations[r]) \in Nat
          /\ Level(reservations'[r]) \in Nat
      BY <1>2, <3>1, <3>3 DEF RecordFits
    <3>5. QED BY <3>1, <3>2, <3>4, ExtendsTransitive
  <2>3. QED BY <1>2, <2>1, <2>2 DEF Moves
<1>5. ASSUME NEW d \in Case PROVE Moves(d)
  <2>1. CASE d = c
    BY <1>4, <2>1
  <2>2. CASE d # c
    <3>1. Reserved(d) \in Reservation /\ Reserved(d) # r
      BY <1>1, <2>2, ReservedTyped
    <3>2. reservations'[Reserved(d)] = SweptReservations[Reserved(d)]
      BY <1>2, <3>1
    <3>3. QED BY <3>1, <3>2, SweptRecord DEF Moves, HandoffInv
  <2>3. QED BY <2>1, <2>2
<1>6. QED BY <1>2, <1>3, <1>5 DEF RelayMoves

LEMMA MovesKeepCases ==
  ASSUME HandoffInv, RelayMoves
  PROVE  CasesFit'
<1> SUFFICES ASSUME NEW c \in Case PROVE CaseFits(c)'
  BY DEF CasesFit
<1> DEFINE old == reservations[Reserved(c)]
           new == reservations'[Reserved(c)]
           h == handoff[c]
<1>1. HandoffFits(passport[c], h) /\ Follows(c) /\ Moves(c)
  BY DEF HandoffInv, CasesFit, CaseFits, RelayMoves
<1>2. passport' = passport /\ handoff' = handoff
  BY DEF RelayMoves, service
<1>3. h.remote \in 0..5
  BY <1>1 DEF HandoffFits
<1>4. /\ old # None => RecordFits(old)
      /\ new # None => RecordFits(new)
  BY ReservedTyped DEF HandoffInv, RelayMoves, RelayFits
<1>5. /\ old = None => h.remote = 0
      /\ old # None => Level(old) \in {h.remote, h.remote + 1}
      /\ h.remote # 0 => old # None /\ Backed(old, h, passport[c].state)
  BY <1>1 DEF Follows
<1>6. /\ old # None => new # None /\ Extends(old, new)
      /\ new # None => \/ old # None /\ Level(new) = Level(old)
                       \/ Level(new) = h.remote + 1
  BY <1>1 DEF Moves
<1> HIDE DEF old, new, h
<1>7. h.remote # 0 => new # None /\ Backed(new, h, passport[c].state)
  <2> SUFFICES ASSUME h.remote # 0 PROVE new # None /\ Backed(new, h, passport[c].state)
    OBVIOUS
  <2>1. old # None /\ new # None /\ Extends(old, new) /\ Backed(old, h, passport[c].state)
    BY <1>5, <1>6
  <2>2. h.issued # None => old.tokens # None
    BY <2>1 DEF Backed
  <2>3. old.status = "HANDOFF_ATTESTED" => new.status = "HANDOFF_ATTESTED"
    BY <1>4, <2>1 DEF Extends, RecordFits
  <2>4. QED BY <2>1, <2>2, <2>3 DEF Backed, Extends
<1>8. Follows(c)'
  <2>1. /\ new = None => h.remote = 0
        /\ new # None => Level(new) \in {h.remote, h.remote + 1}
    BY <1>3, <1>5, <1>6
  <2>2. QED BY <1>2, <1>7, <2>1 DEF Follows, new, h
<1>9. HandoffFits(passport[c], handoff[c])'
  BY <1>1, <1>2 DEF h
<1>10. QED BY <1>8, <1>9 DEF CaseFits

\* An effect once there stays there.
LEMMA MovesKeepDone ==
  ASSUME HandoffInv, RelayMoves, NEW c \in Case
  PROVE  /\ \A e \in Nat : ReserveDone(c, e) => ReserveDone(c, e)'
         /\ \A k \in ClientKey, v \in Nat, e \in Nat :
              TokensDone(c, k, v, e) => TokensDone(c, k, v, e)'
         /\ \A k \in ClientKey, v \in Nat, role \in Role :
              AttestDone(c, k, v, role) => AttestDone(c, k, v, role)'
         /\ ReleaseDone(c) => ReleaseDone(c)'
<1> DEFINE old == reservations[Reserved(c)]
           new == reservations'[Reserved(c)]
<1>1. old # None => new # None /\ Extends(old, new)
  BY DEF RelayMoves, Moves
<1>2. handoff' = handoff /\ receipts' = receipts
  BY DEF RelayMoves, service
<1>3. /\ old # None => RecordFits(old)
      /\ new # None => RecordFits(new)
  BY ReservedTyped DEF HandoffInv, RelayMoves, RelayFits
<1>4. ASSUME old # None
      PROVE  /\ new # None /\ new.expires = old.expires /\ old.attested \subseteq new.attested
             /\ Level(new) >= Level(old) /\ Level(old) \in 1..5 /\ Level(new) \in 1..5
             /\ Level(old) > 1 => new.tokens = old.tokens
  BY <1>1, <1>3, <1>4 DEF Extends, RecordFits
<1> HIDE DEF new, old
<1>5. ASSUME NEW e \in Nat, ReserveDone(c, e) PROVE ReserveDone(c, e)'
  BY <1>4, <1>5 DEF ReserveDone, old, new
<1>6. ASSUME NEW k \in ClientKey, NEW v \in Nat, NEW e \in Nat, TokensDone(c, k, v, e)
      PROVE  TokensDone(c, k, v, e)'
  <2>1. /\ v = 1 /\ old # None /\ Level(old) > 1 /\ old.tokens = Floor(e)
        /\ Pending(TokensCommand(c, k), c, v)
    BY <1>6 DEF TokensDone, old
  <2>2. new # None /\ Level(new) > 1 /\ new.tokens = Floor(e)
    BY <1>4, <2>1
  <2>3. Pending(TokensCommand(c, k), c, v)'
    BY <1>2, <2>1 DEF Pending, TokensCommand
  <2>4. QED BY <2>1, <2>2, <2>3 DEF TokensDone, new
<1>7. ASSUME NEW k \in ClientKey, NEW v \in Nat, NEW role \in Role, AttestDone(c, k, v, role)
      PROVE  AttestDone(c, k, v, role)'
  <2>1. /\ v \in 2..3 /\ old # None /\ Level(old) > v /\ role \in old.attested
        /\ Unrecorded(AttestCommand(c, k, role), c, v, role)
    BY <1>7 DEF AttestDone, old
  <2>2. new # None /\ Level(new) > v /\ role \in new.attested
    BY <1>4, <2>1
  <2>3. Unrecorded(AttestCommand(c, k, role), c, v, role)'
    BY <1>2, <2>1 DEF Unrecorded, AttestCommand
  <2>4. QED BY <2>1, <2>2, <2>3 DEF AttestDone, new
<1>8. ASSUME ReleaseDone(c) PROVE ReleaseDone(c)'
  <2>1. old # None /\ Level(old) = 5
    BY <1>8 DEF ReleaseDone, old
  <2>2. new # None /\ Level(new) = 5
    BY <1>4, <2>1
  <2>3. QED BY <2>2 DEF ReleaseDone, new
<1>9. QED BY <1>5, <1>6, <1>7, <1>8

LEMMA KeptAnswersFit ==
  ASSUME HandoffInv, RelayMoves, answered' = answered,
         \A c \in Case : reservations'[Reserved(c)] # None => reservations[Reserved(c)] # None
  PROVE  AnswersFit'
<1>1. AnswersDone'
  BY MovesKeepDone DEF AnswersDone, HandoffInv, AnswersFit
<1>2. ReservationsAnswered'
  BY DEF ReservationsAnswered, HandoffInv, AnswersFit
<1>3. TokensServedOnce' /\ AttestsServedOnce'
  BY DEF TokensServedOnce, AttestsServedOnce, HandoffInv, AnswersFit
<1>4. QED BY <1>1, <1>2, <1>3 DEF AnswersFit

\* Whose entry it is.
LEMMA EntryOfCall ==
  ASSUME NEW q \in Call
  PROVE  LET X == Entry(Scope(q), Body(q))
             C == q.command
             n == q.handoff.remote
         IN /\ \A d, e : ReserveEntry(d, e) = X => C.op = "reserve" /\ d = C.case /\ e = q.expires
            /\ \A d, k, v, e :
                 TokensEntry(d, k, v, e) = X =>
                   C.op = "tokens" /\ d = C.case /\ k = C.key /\ v = n /\ e = q.expires
            /\ \A d, k, v, role :
                 AttestEntry(d, k, v, role) = X =>
                   C.op = "attest" /\ d = C.case /\ k = C.key /\ v = n /\ role = C.role
            /\ \A d, v : ReleaseEntry(d, v) = X => C.op = "release" /\ d = C.case /\ v = n
<1> DEFINE X == Entry(Scope(q), Body(q))
<1>1. q.command.op \in {"reserve", "tokens", "attest", "release"}
  BY CallTyped, CommandForms
<1>2. CASE q.command.op = "reserve"
  <2>1. X = ReserveEntry(q.command.case, q.expires)
    BY <1>2, EntryForms
  <2> HIDE DEF X
  <2>2. QED BY <1>2, <2>1, EntriesApart, KindsApart DEF X
<1>3. CASE q.command.op = "tokens"
  <2>1. X = TokensEntry(q.command.case, q.command.key, q.handoff.remote, q.expires)
    BY <1>3, EntryForms
  <2> HIDE DEF X
  <2>2. QED BY <1>3, <2>1, EntriesApart, KindsApart DEF X
<1>4. CASE q.command.op = "attest"
  <2>1. X = AttestEntry(q.command.case, q.command.key, q.handoff.remote, q.command.role)
    BY <1>4, EntryForms
  <2> HIDE DEF X
  <2>2. QED BY <1>4, <2>1, EntriesApart, KindsApart DEF X
<1>5. CASE q.command.op = "release"
  <2>1. X = ReleaseEntry(q.command.case, q.handoff.remote)
    BY <1>5, EntryForms
  <2> HIDE DEF X
  <2>2. QED BY <1>5, <2>1, EntriesApart, KindsApart DEF X
<1>6. QED BY <1>1, <1>2, <1>3, <1>4, <1>5

\* The service has not recorded the role that the relay just did.
LEMMA UnservedRole ==
  ASSUME HandoffInv, NEW q \in Call, CallFits(q), EffectOf(q), q.command.op = "attest"
  PROVE  q.command.role \notin handoff[q.command.case].attested
<1> DEFINE c == q.command.case
           r == Reserved(c)
<1>1. c \in Case /\ r \in Reservation
  BY CallTyped, CommandForms, ReservedTyped
<1>2. SweptReservations[r] # None /\ q.command.role \notin SweptReservations[r].attested
  BY DEF EffectOf
<1>3. reservations[r] # None /\ Extends(reservations[r], SweptReservations[r])
  BY <1>1, <1>2, SweptRecord DEF HandoffInv
<1>4. handoff[c].remote # 0
  BY EffectMeets DEF EffectOf
<1>5. Backed(reservations[r], handoff[c], passport[c].state)
  BY <1>1, <1>4 DEF HandoffInv, CasesFit, CaseFits, Follows
<1>6. QED BY <1>2, <1>3, <1>5 DEF Backed, Extends

\* The effect a request had is the one its entry stands for.
LEMMA EffectDone ==
  ASSUME HandoffInv, NEW q \in Call, CallFits(q), EffectOf(q), UNCHANGED service
  PROVE  LET c == q.command.case
             n == q.handoff.remote
         IN /\ q.command.op = "reserve" => ReserveDone(c, q.expires)'
            /\ q.command.op = "tokens" => TokensDone(c, q.command.key, n, q.expires)'
            /\ q.command.op = "attest" => AttestDone(c, q.command.key, n, q.command.role)'
            /\ q.command.op = "release" => ReleaseDone(c)'
<1> DEFINE c == q.command.case
           n == q.handoff.remote
           new == reservations'[Reserved(c)]
<1>1. /\ new # None /\ Level(new) = n + 1
      /\ q.command.op = "reserve" => new.expires = Floor(q.expires)
      /\ q.command.op = "tokens" => new.tokens = Floor(q.expires) /\ n = 1
      /\ q.command.op = "attest" => q.command.role \in new.attested /\ n \in 2..3
      /\ q.command.op = "release" => Level(new) = 5
  BY DEF EffectOf
<1>2. handoff'[c].remote = n
  BY EffectMeets DEF service
<1>3. q.command.op = "reserve" => ReserveDone(c, q.expires)'
  BY <1>1 DEF ReserveDone
<1>4. q.command.op = "tokens" => TokensDone(c, q.command.key, n, q.expires)'
  <2> SUFFICES ASSUME q.command.op = "tokens" PROVE TokensDone(c, q.command.key, n, q.expires)'
    OBVIOUS
  <2>1. Pending(TokensCommand(c, q.command.key), c, n)'
    BY <1>2 DEF Pending
  <2>2. n = 1 /\ new # None /\ Level(new) > 1 /\ new.tokens = Floor(q.expires)
    BY <1>1
  <2>3. QED BY <2>1, <2>2 DEF TokensDone
<1>5. q.command.op = "attest" => AttestDone(c, q.command.key, n, q.command.role)'
  <2> SUFFICES ASSUME q.command.op = "attest"
               PROVE  AttestDone(c, q.command.key, n, q.command.role)'
    OBVIOUS
  <2>1. Unrecorded(AttestCommand(c, q.command.key, q.command.role), c, n, q.command.role)'
    <3>1. q.command.role \notin handoff[c].attested /\ handoff' = handoff
      BY UnservedRole DEF service
    <3>2. QED BY <1>2, <3>1 DEF Unrecorded
  <2>2. n \in 2..3 /\ new # None /\ Level(new) > n /\ q.command.role \in new.attested
    BY <1>1
  <2>3. QED BY <2>1, <2>2 DEF AttestDone
<1>6. q.command.op = "release" => ReleaseDone(c)'
  BY <1>1 DEF ReleaseDone
<1>7. QED BY <1>3, <1>4, <1>5, <1>6

LEMMA EffectAnswersFit ==
  ASSUME HandoffInv, NEW q \in Call, CallFits(q), EffectOf(q), UNCHANGED service
  PROVE  AnswersFit'
<1> DEFINE c == q.command.case
           n == q.handoff.remote
           X == Entry(Scope(q), Body(q))
<1>1. answered' = answered \cup {X}
  BY DEF EffectOf
<1>2. RelayMoves /\ c \in Case
  BY EffectMoves, CallTyped, CommandForms
<1>3. AnswersDone /\ ReservationsAnswered /\ TokensServedOnce /\ AttestsServedOnce
  BY DEF HandoffInv, AnswersFit
<1>4. reservations[Reserved(c)] # None => Level(reservations[Reserved(c)]) = n
  BY <1>2, ReservedTyped, SweptRecord DEF EffectOf, HandoffInv
<1>5. n \in 0..5
  BY DEF CallFits, HandoffSide
<1> HIDE DEF X
<1>6. AnswersDone'
  <2>1. ASSUME NEW d \in Case, NEW e \in Nat, ReserveEntry(d, e) \in answered'
        PROVE  ReserveDone(d, e)'
    <3>1. CASE ReserveEntry(d, e) \in answered
      BY <1>2, <1>3, <3>1, MovesKeepDone DEF AnswersDone
    <3>2. CASE ReserveEntry(d, e) = X
      BY <3>2, EntryOfCall, EffectDone DEF X
    <3>3. QED BY <1>1, <2>1, <3>1, <3>2
  <2>2. ASSUME NEW d \in Case, NEW k \in ClientKey, NEW v \in Nat, NEW e \in Nat,
               TokensEntry(d, k, v, e) \in answered'
        PROVE  TokensDone(d, k, v, e)'
    <3>1. CASE TokensEntry(d, k, v, e) \in answered
      BY <1>2, <1>3, <3>1, MovesKeepDone DEF AnswersDone
    <3>2. CASE TokensEntry(d, k, v, e) = X
      BY <3>2, EntryOfCall, EffectDone DEF X
    <3>3. QED BY <1>1, <2>2, <3>1, <3>2
  <2>3. ASSUME NEW d \in Case, NEW k \in ClientKey, NEW v \in Nat, NEW role \in Role,
               AttestEntry(d, k, v, role) \in answered'
        PROVE  AttestDone(d, k, v, role)'
    <3>1. CASE AttestEntry(d, k, v, role) \in answered
      BY <1>2, <1>3, <3>1, MovesKeepDone DEF AnswersDone
    <3>2. CASE AttestEntry(d, k, v, role) = X
      BY <3>2, EntryOfCall, EffectDone DEF X
    <3>3. QED BY <1>1, <2>3, <3>1, <3>2
  <2>4. ASSUME NEW d \in Case, NEW v \in Nat, ReleaseEntry(d, v) \in answered'
        PROVE  ReleaseDone(d)'
    <3>1. CASE ReleaseEntry(d, v) \in answered
      BY <1>2, <1>3, <3>1, MovesKeepDone DEF AnswersDone
    <3>2. CASE ReleaseEntry(d, v) = X
      BY <3>2, EntryOfCall, EffectDone DEF X
    <3>3. QED BY <1>1, <2>4, <3>1, <3>2
  <2>5. QED BY <2>1, <2>2, <2>3, <2>4 DEF AnswersDone
<1>7. ReservationsAnswered'
  <2> SUFFICES ASSUME NEW d \in Case, reservations'[Reserved(d)] # None
               PROVE  \E a \in answered' : a.scope = <<"reserve", d>>
    BY DEF ReservationsAnswered
  <2>1. CASE reservations[Reserved(d)] # None
    BY <1>1, <1>3, <2>1 DEF ReservationsAnswered
  <2>2. CASE reservations[Reserved(d)] = None
    <3>1. d = c
      <4>1. SweptReservations[Reserved(d)] = None
        BY <2>2, ReservedTyped, SweptRecord DEF HandoffInv
      <4>2. QED BY <1>2, <4>1, ReservedTyped DEF EffectOf
    <3>2. n = 0
      BY <2>2, <3>1, ReservedTyped, SweptRecord DEF EffectOf, HandoffInv
    <3>3. q.command.op = "reserve"
      <4>2. q.command.op # "release"
        BY <3>2 DEF EffectOf
      <4>3. q.command.op \notin {"tokens", "attest"}
        BY <3>2 DEF EffectOf
      <4>4. QED BY <4>2, <4>3, CallTyped, CommandForms
    <3>4. X.scope = <<"reserve", c>>
      BY <3>3 DEF X, Entry, Scope, RequestKey
    <3>5. QED BY <1>1, <3>1, <3>4
  <2>3. QED BY <2>1, <2>2
\* An entry of the version that is served now would show an effect that is not
\* there.
<1>8. /\ \A k \in ClientKey, v \in Nat, e \in Nat :
           q.command.op = "tokens" => TokensEntry(c, k, v, e) \notin answered
      /\ \A k \in ClientKey, role \in Role : AttestEntry(c, k, n, role) \notin answered
  <2>1. ASSUME NEW k \in ClientKey, NEW v \in Nat, NEW e \in Nat, q.command.op = "tokens",
               TokensEntry(c, k, v, e) \in answered
        PROVE  FALSE
    <3>1. TokensDone(c, k, v, e)
      BY <1>2, <1>3, <2>1 DEF AnswersDone
    <3>2. reservations[Reserved(c)] # None /\ Level(reservations[Reserved(c)]) > 1
      BY <3>1 DEF TokensDone
    <3>3. n = 1
      BY <2>1 DEF EffectOf
    <3>4. QED BY <1>4, <3>2, <3>3
  <2>2. ASSUME NEW k \in ClientKey, NEW role \in Role, AttestEntry(c, k, n, role) \in answered
        PROVE  FALSE
    <3>1. n \in Nat
      BY <1>5
    <3>2. AttestDone(c, k, n, role)
      BY <1>2, <1>3, <2>2, <3>1 DEF AnswersDone
    <3>3. reservations[Reserved(c)] # None /\ Level(reservations[Reserved(c)]) > n
      BY <3>2 DEF AttestDone
    <3>4. QED BY <1>4, <3>1, <3>3
  <2>3. QED BY <2>1, <2>2
<1>9. TokensServedOnce'
  <2> SUFFICES ASSUME NEW d \in Case, NEW k1 \in ClientKey, NEW k2 \in ClientKey,
                      NEW v1 \in Nat, NEW v2 \in Nat, NEW e1 \in Nat, NEW e2 \in Nat,
                      TokensEntry(d, k1, v1, e1) \in answered',
                      TokensEntry(d, k2, v2, e2) \in answered'
               PROVE  k1 = k2
    BY DEF TokensServedOnce
  <2>1. TokensEntry(d, k1, v1, e1) = X => d = c /\ q.command.op = "tokens" /\ k1 = q.command.key
    BY EntryOfCall DEF X
  <2>2. TokensEntry(d, k2, v2, e2) = X => d = c /\ q.command.op = "tokens" /\ k2 = q.command.key
    BY EntryOfCall DEF X
  <2>3. TokensEntry(d, k1, v1, e1) \in answered \/ TokensEntry(d, k1, v1, e1) = X
    BY <1>1
  <2>4. TokensEntry(d, k2, v2, e2) \in answered \/ TokensEntry(d, k2, v2, e2) = X
    BY <1>1
  <2>5. CASE TokensEntry(d, k1, v1, e1) \in answered /\ TokensEntry(d, k2, v2, e2) \in answered
    BY <1>3, <2>5 DEF TokensServedOnce
  <2>6. QED BY <1>8, <2>1, <2>2, <2>3, <2>4, <2>5
<1>10. AttestsServedOnce'
  <2> SUFFICES ASSUME NEW d \in Case, NEW k1 \in ClientKey, NEW k2 \in ClientKey,
                      NEW v \in Nat, NEW r1 \in Role, NEW r2 \in Role,
                      AttestEntry(d, k1, v, r1) \in answered',
                      AttestEntry(d, k2, v, r2) \in answered'
               PROVE  k1 = k2 /\ r1 = r2
    BY DEF AttestsServedOnce
  <2>1. AttestEntry(d, k1, v, r1) = X =>
          d = c /\ v = n /\ k1 = q.command.key /\ r1 = q.command.role
    BY EntryOfCall DEF X
  <2>2. AttestEntry(d, k2, v, r2) = X =>
          d = c /\ v = n /\ k2 = q.command.key /\ r2 = q.command.role
    BY EntryOfCall DEF X
  <2>3. AttestEntry(d, k1, v, r1) \in answered \/ AttestEntry(d, k1, v, r1) = X
    BY <1>1
  <2>4. AttestEntry(d, k2, v, r2) \in answered \/ AttestEntry(d, k2, v, r2) = X
    BY <1>1
  <2>5. CASE AttestEntry(d, k1, v, r1) \in answered /\ AttestEntry(d, k2, v, r2) \in answered
    BY <1>3, <2>5 DEF AttestsServedOnce
  <2>6. QED BY <1>8, <2>1, <2>2, <2>3, <2>4, <2>5
<1>11. QED BY <1>6, <1>7, <1>9, <1>10 DEF AnswersFit

LEMMA CallOf ==
  ASSUME HandoffInv, NEW h \in Handler, call[h].at \in Asked
  PROVE  call[h] \in Call /\ CallFits(call[h])
<1>1. call[h] \in Call \cup Reading \cup {Idle} /\ StageFits(call[h])
  BY DEF HandoffInv, HandoffTypeOK, CallsFit
<1>2. call[h] \notin Reading /\ call[h] # Idle
  BY DEF Reading, Idle, Asked
<1>3. QED BY <1>1, <1>2 DEF StageFits

LEMMA ReadingOf ==
  ASSUME HandoffInv, NEW h \in Handler, call[h].at = "reading"
  PROVE  call[h] \in Reading /\ ReadingFits(call[h])
<1>1. call[h] \in Call \cup Reading \cup {Idle} /\ StageFits(call[h])
  BY DEF HandoffInv, HandoffTypeOK, CallsFit
<1>2. call[h] \notin Call /\ call[h] # Idle
  BY DEF Call, Idle
<1>3. QED BY <1>1, <1>2 DEF StageFits

\* A call that nothing it was read from has changed for.
LEMMA CallKept ==
  ASSUME HandoffInv, UNCHANGED service, answered \subseteq answered', NEW q, CallFits(q)
  PROVE  CallFits(q)'
<1>1. HandoffSide(q.handoff)' /\ CommandFits(q)'
  BY DEF CallFits, HandoffSide, CommandFits, Presented
<1>2. Read(q.passport, q.handoff, q.command.case)'
  BY DEF CallFits, Read, ReadCase, service
<1>3. (q.at = "accepted" => Entry(Scope(q), Body(q)) \in answered)'
  BY DEF CallFits, Entry, Scope, Body, RequestKey, Reserved
<1>4. QED BY <1>1, <1>2, <1>3 DEF CallFits

LEMMA StageKept ==
  ASSUME HandoffInv, UNCHANGED service, answered \subseteq answered', NEW q, StageFits(q)
  PROVE  StageFits(q)'
<1>1. CASE q.at \in Asked
  <2>1. CallFits(q)'
    BY <1>1, CallKept DEF StageFits
  <2>2. q.at # "reading"
    BY <1>1 DEF Asked
  <2>3. QED BY <2>1, <2>2 DEF StageFits
<1>2. CASE q.at \notin Asked
  <2>1. q.at = "reading" => ReadingFits(q)'
    BY DEF StageFits, ReadingFits, ReadCase, service
  <2>2. QED BY <1>2, <2>1 DEF StageFits, Asked
<1>3. QED BY <1>1, <1>2

\* One command goes on while the service and the others stay where they are.
LEMMA CallStep ==
  ASSUME HandoffInv, UNCHANGED service, answered \subseteq answered',
         NEW h \in Handler, NEW next \in Call \cup Reading \cup {Idle},
         call' = [call EXCEPT ![h] = next], StageFits(next)'
  PROVE  HandoffTypeOK' /\ CallsFit'
<1>1. call \in [Handler -> Call \cup Reading \cup {Idle}]
  BY DEF HandoffInv, HandoffTypeOK
<1>2. HandoffTypeOK'
  <2>1. call' \in [Handler -> Call \cup Reading \cup {Idle}]
    BY <1>1
  <2>2. QED BY <2>1 DEF HandoffInv, HandoffTypeOK, service
<1>3. CallsFit'
  <2> SUFFICES ASSUME NEW g \in Handler PROVE StageFits(call[g])'
    BY DEF CallsFit
  <2>1. CASE g = h
    <3>1. call'[g] = next
      BY <1>1, <2>1
    <3>2. QED BY <3>1
  <2>2. CASE g # h
    <3>1. call'[g] = call[g]
      BY <1>1, <2>2
    <3> PICK p : p = call[g] /\ StageFits(p)
      BY DEF HandoffInv, CallsFit
    <3>2. StageFits(p)'
      BY StageKept
    <3>3. QED BY <3>1, <3>2
  <2>3. QED BY <2>1, <2>2
<1>4. QED BY <1>2, <1>3

LEMMA GoesKeepsCalls ==
  ASSUME HandoffInv, UNCHANGED service, answered \subseteq answered',
         NEW h \in Handler, call[h].at \in Asked,
         NEW at \in {"accepted", "failed"}, Goes(h, at),
         at = "accepted" => Entry(Scope(call[h]), Body(call[h])) \in answered'
  PROVE  HandoffTypeOK' /\ CallsFit'
<1> PICK q \in Call : q = call[h] /\ CallFits(q)
  BY CallOf
<1> DEFINE next == [at |-> at, command |-> q.command, passport |-> q.passport,
                    handoff |-> q.handoff, expires |-> q.expires]
<1>1. next \in Call /\ next.at = at
  BY CallTyped DEF Call
<1>2. /\ next.command = q.command /\ next.passport = q.passport /\ next.handoff = q.handoff
      /\ next.expires = q.expires
  OBVIOUS
<1>3. call \in [Handler -> Call \cup Reading \cup {Idle}]
  BY DEF HandoffInv, HandoffTypeOK
<1>4. call' = [call EXCEPT ![h] = next]
  BY <1>3 DEF Goes
<1> HIDE DEF next
<1>5. CallFits(next)'
  <2>1. CallFits(q)'
    BY CallKept
  <2>2. HandoffSide(next.handoff)' /\ Read(next.passport, next.handoff, next.command.case)'
    BY <1>2, <2>1 DEF CallFits
  <2>3. CommandFits(next)'
    BY <1>2, <2>1 DEF CallFits, CommandFits
  <2>4. Scope(next) = Scope(q) /\ Body(next) = Body(q)
    BY <1>2 DEF Scope, Body, RequestKey
  <2>5. (next.at = "accepted" => Entry(Scope(next), Body(next)) \in answered)'
    <3>1. next.at = "accepted" => Entry(Scope(q), Body(q)) \in answered'
      BY <1>1
    <3>2. QED BY <2>4, <3>1 DEF Entry, Scope, Body, RequestKey, Reserved
  <2>6. QED BY <2>2, <2>3, <2>5 DEF CallFits
<1>6. StageFits(next)'
  BY <1>1, <1>5 DEF StageFits
<1>7. QED BY <1>1, <1>4, <1>6, CallStep

-----------------------------------------------------------------------------
(* The actions at the relay *)

LEMMA EffectKeeps ==
  ASSUME HandoffInv, NEW h \in Handler, call[h].at = "calling", TakesEffect(call[h]),
         NEW at \in {"accepted", "failed"}, Goes(h, at), UNCHANGED service
  PROVE  HandoffInv'
<1>1. call[h].at \in Asked
  BY DEF Asked
<1> PICK q \in Call : q = call[h] /\ CallFits(q)
  BY <1>1, CallOf
<1>2. EffectOf(q)
  BY EveryEffect
<1>3. answered' = answered \cup {Entry(Scope(q), Body(q))}
  BY <1>2 DEF EffectOf
<1>4. RelayMoves /\ AnswersFit'
  BY <1>2, EffectMoves, EffectAnswersFit
<1>5. CasesFit'
  BY <1>4, MovesKeepCases
<1>6. HandoffTypeOK' /\ CallsFit'
  BY <1>1, <1>3, GoesKeepsCalls
<1>7. QED BY <1>4, <1>5, <1>6 DEF HandoffInv, RelayMoves

LEMMA ReplayKeeps ==
  ASSUME HandoffInv, NEW h \in Handler, call[h].at = "calling", RelayReplays(call[h]),
         UNCHANGED vars, Goes(h, "accepted"), UNCHANGED service
  PROVE  HandoffInv'
<1>1. call[h].at \in Asked
  BY DEF Asked
<1>2. Entry(Scope(call[h]), Body(call[h])) \in answered' /\ answered' = answered
  BY DEF RelayReplays, Entry, vars
<1>3. HandoffTypeOK' /\ CallsFit'
  BY <1>1, <1>2, GoesKeepsCalls
<1>4. IInv' /\ RelayFits'
  BY NextKeepsInvariant DEF HandoffInv, RelayFits, vars
<1>5. CasesFit' /\ AnswersFit'
  <2>1. reservations' = reservations
    BY DEF vars
  <2>2. ASSUME NEW c \in Case PROVE Moves(c)
    <3>1. reservations[Reserved(c)] # None => RecordFits(reservations[Reserved(c)])
      BY ReservedTyped DEF HandoffInv, RelayFits
    <3>2. QED BY <2>1, <3>1 DEF Moves, Extends, RecordFits
  <2>3. RelayMoves
    BY <1>4, <2>2 DEF RelayMoves
  <2>4. QED BY <1>2, <2>1, <2>3, MovesKeepCases, KeptAnswersFit
<1>6. QED BY <1>3, <1>4, <1>5 DEF HandoffInv

LEMMA SweepKeeps ==
  ASSUME HandoffInv, Sweep, UNCHANGED service
  PROVE  IInv' /\ RelayFits' /\ CasesFit' /\ AnswersFit' /\ answered' = answered
<1>1. RelayMoves /\ answered' = answered
  BY SweepMoves DEF Sweep
<1>2. \A c \in Case : reservations'[Reserved(c)] # None => reservations[Reserved(c)] # None
  BY ReservedTyped, SweptRecord DEF Sweep, HandoffInv
<1>3. QED BY <1>1, <1>2, MovesKeepCases, KeptAnswersFit DEF RelayMoves

LEMMA NotDoneKeeps ==
  ASSUME HandoffInv, NEW h \in Handler, NotDone(h)
  PROVE  HandoffInv'
<1>1. call[h].at \in Asked /\ Sweep /\ Goes(h, "failed") /\ UNCHANGED service
  BY DEF NotDone, Asked
<1>2. IInv' /\ RelayFits' /\ CasesFit' /\ AnswersFit' /\ answered' = answered
  BY <1>1, SweepKeeps
<1>3. HandoffTypeOK' /\ CallsFit'
  BY <1>1, <1>2, GoesKeepsCalls
<1>4. QED BY <1>2, <1>3 DEF HandoffInv

LEMMA ReadKeeps ==
  ASSUME HandoffInv, RelayRead
  PROVE  HandoffInv'
<1>1. Sweep /\ UNCHANGED service /\ call' = call
  BY DEF RelayRead
<1>2. IInv' /\ RelayFits' /\ CasesFit' /\ AnswersFit' /\ answered' = answered
  BY <1>1, SweepKeeps
<1>3. HandoffTypeOK'
  BY <1>1 DEF HandoffInv, HandoffTypeOK, service
<1>4. CallsFit'
  <2> SUFFICES ASSUME NEW g \in Handler PROVE StageFits(call[g])'
    BY DEF CallsFit
  <2> PICK p : p = call[g] /\ StageFits(p)
    BY DEF HandoffInv, CallsFit
  <2>1. StageFits(p)'
    BY <1>1, <1>2, StageKept
  <2>2. QED BY <1>1, <2>1
<1>5. QED BY <1>2, <1>3, <1>4 DEF HandoffInv

-----------------------------------------------------------------------------
(* The actions at the service *)

LEMMA UnmovedRelay ==
  ASSUME HandoffInv, UNCHANGED vars
  PROVE  /\ IInv' /\ RelayFits'
         /\ reservations' = reservations /\ answered' = answered
BY NextKeepsInvariant DEF HandoffInv, RelayFits, vars

\* A step that changes neither the relay nor what the service recorded.
LEMMA QuietSides ==
  ASSUME HandoffInv, UNCHANGED vars, UNCHANGED service
  PROVE  IInv' /\ RelayFits' /\ CasesFit' /\ AnswersFit' /\ answered' = answered
<1>1. IInv' /\ RelayFits' /\ reservations' = reservations /\ answered' = answered
  BY UnmovedRelay
<1>2. passport' = passport /\ handoff' = handoff /\ receipts' = receipts
  BY DEF service
<1>3. CasesFit'
  <2> SUFFICES ASSUME NEW d \in Case PROVE CaseFits(d)'
    BY DEF CasesFit
  <2>1. HandoffFits(passport[d], handoff[d]) /\ Follows(d)
    BY DEF HandoffInv, CasesFit, CaseFits
  <2>2. passport'[d] = passport[d] /\ handoff'[d] = handoff[d]
    BY <1>2
  <2>3. HandoffFits(passport[d], handoff[d])'
    BY <2>1, <2>2
  <2>4. Follows(d)'
    BY <1>1, <2>1, <2>2 DEF Follows
  <2>5. QED BY <2>3, <2>4 DEF CaseFits
<1>4. AnswersFit'
  <2>1. AnswersDone /\ ReservationsAnswered /\ TokensServedOnce /\ AttestsServedOnce
    BY DEF HandoffInv, AnswersFit
  <2>2. ReservationsAnswered' /\ TokensServedOnce' /\ AttestsServedOnce'
    BY <1>1, <2>1 DEF ReservationsAnswered, TokensServedOnce, AttestsServedOnce
  <2>3. ASSUME NEW d \in Case
        PROVE  /\ \A e \in Nat : ReserveDone(d, e) => ReserveDone(d, e)'
               /\ \A k \in ClientKey, v \in Nat, e \in Nat :
                    TokensDone(d, k, v, e) => TokensDone(d, k, v, e)'
               /\ \A k \in ClientKey, v \in Nat, role \in Role :
                    AttestDone(d, k, v, role) => AttestDone(d, k, v, role)'
               /\ ReleaseDone(d) => ReleaseDone(d)'
    BY <1>1, <1>2
       DEF ReserveDone, TokensDone, AttestDone, ReleaseDone, Pending, Unrecorded
  <2>4. AnswersDone'
    BY <1>1, <2>1, <2>3 DEF AnswersDone
  <2>5. QED BY <2>2, <2>4 DEF AnswersFit
<1>5. QED BY <1>1, <1>3, <1>4

\* What is known of a case.
LEMMA CaseKnown ==
  ASSUME HandoffInv, NEW c \in Case
  PROVE  /\ passport[c] \in Passport /\ handoff[c] \in Handoff
         /\ passport[c].version \in Nat
         /\ HandoffFits(passport[c], handoff[c])
         /\ handoff[c].remote # 0 =>
              /\ reservations[Reserved(c)] # None
              /\ Backed(reservations[Reserved(c)], handoff[c], passport[c].state)
         /\ reservations[Reserved(c)] # None =>
              /\ RecordFits(reservations[Reserved(c)])
              /\ Level(reservations[Reserved(c)]) \in {handoff[c].remote, handoff[c].remote + 1}
BY ReservedTyped DEF HandoffInv, HandoffTypeOK, Passport, CasesFit, CaseFits, Follows, RelayFits

LEMMA StartKeeps ==
  ASSUME HandoffInv, NEW h \in Handler, NEW command \in Command, Starts(h, command),
         command.op = "reserve" => passport[command.case].state = "RESERVE_REQUESTED",
         command.op = "tokens" => passport[command.case].state = "RESERVED",
         command.op = "attest" =>
           /\ passport[command.case].state \in {"RESERVED", "CLAIMANT_PRESENT"}
           /\ handoff[command.case].issued # None,
         command.op = "release" => passport[command.case].state = "RELEASE_REQUESTED"
  PROVE  HandoffInv'
<1> DEFINE c == command.case
<1> PICK q : q = [at |-> "reading", command |-> command, passport |-> passport[c]]
  OBVIOUS
<1>1. c \in Case /\ passport[c] \in Passport
  BY CommandForms DEF HandoffInv, HandoffTypeOK
<1>2. q.at = "reading" /\ q.command = command /\ q.passport = passport[c]
  OBVIOUS
<1>3. q \in Reading
  BY <1>1 DEF Reading
<1>4. UNCHANGED vars /\ UNCHANGED service /\ call' = [call EXCEPT ![h] = q]
  BY DEF Starts
<1>5. IInv' /\ RelayFits' /\ CasesFit' /\ AnswersFit' /\ answered' = answered
  BY <1>4, QuietSides
<1>6. StageFits(q)
  <2>1. ReadCase(q.passport, c)
    BY <1>1, <1>2 DEF ReadCase, Passport
  <2>2. /\ q.command.op = "tokens" => handoff[c].remote >= 1
        /\ q.command.op = "attest" => handoff[c].remote >= 2
    BY <1>1, <1>2, CaseKnown DEF HandoffFits
  <2>3. ReadingFits(q)
    BY <1>2, <2>1, <2>2 DEF ReadingFits
  <2>4. QED BY <1>2, <2>3 DEF StageFits, Asked
<1>7. StageFits(q)'
  BY <1>4, <1>5, <1>6, StageKept
<1>8. HandoffTypeOK' /\ CallsFit'
  BY <1>3, <1>4, <1>5, <1>7, CallStep
<1>9. QED BY <1>5, <1>8 DEF HandoffInv

\* The handoff is read beside a case that may have moved on, and has not if it is
\* what it was.
LEMMA ReadHandoffKeeps ==
  ASSUME HandoffInv, NEW h \in Handler, ReadHandoff(h)
  PROVE  HandoffInv'
<1>1. call[h].at = "reading"
  BY DEF ReadHandoff
<1> PICK q \in Reading : q = call[h] /\ ReadingFits(q)
  BY <1>1, ReadingOf
<1> DEFINE c == q.command.case
<1>2. /\ c \in Case /\ q.command \in Command /\ q.passport \in Passport
      /\ handoff[c] \in Handoff /\ HandoffFits(passport[c], handoff[c])
      /\ q.command.op \in {"reserve", "tokens", "attest", "release"}
  BY ReadingTyped, CommandForms, CaseKnown
<1>3. call \in [Handler -> Call \cup Reading \cup {Idle}]
  BY DEF HandoffInv, HandoffTypeOK
<1>4. now \in Nat
  BY TimesAreNumbers DEF HandoffInv, IInv, TypeOK
<1>5. /\ UNCHANGED vars /\ UNCHANGED service
      /\ \/ q.command.op = "reserve" /\ Requests(h, now + HoldTime)
         \/ /\ q.command.op = "tokens" /\ handoff[c].issued = None
            /\ Requests(h, TokenExpiry(c))
         \/ q.command.op \in {"attest", "release"} /\ Requests(h, None)
  BY DEF ReadHandoff
<1>6. handoff[c].remote >= 1 => handoff[c].expires \in Nat
  BY <1>2 DEF HandoffFits, Handoff
<1>7. q.command.op = "tokens" => TokenExpiry(c) \in Nat
  BY <1>4, <1>6, TimesAssumption DEF ReadingFits, TokenExpiry, Earlier
<1>8. PICK expires \in Nat \cup {None} :
        /\ Requests(h, expires)
        /\ q.command.op \in {"reserve", "tokens"} => expires \in Nat
        /\ q.command.op = "tokens" => handoff[c].issued = None
  <2>1. now + HoldTime \in Nat
    BY <1>4, TimesAssumption
  <2>2. QED BY <1>5, <1>7, <2>1
<1> PICK next : next = [at |-> "calling", command |-> q.command, passport |-> q.passport,
                        handoff |-> handoff[c], expires |-> expires]
  OBVIOUS
<1>9. /\ next.at = "calling" /\ next.command = q.command /\ next.passport = q.passport
      /\ next.handoff = handoff[c] /\ next.expires = expires
  OBVIOUS
<1>10. next \in Call
  BY <1>2 DEF Call
<1>11. call' = [call EXCEPT ![h] = next]
  BY <1>3, <1>8 DEF Requests
<1>12. IInv' /\ RelayFits' /\ CasesFit' /\ AnswersFit' /\ answered' = answered
  BY <1>5, QuietSides
<1>13. CallFits(next)
  <2>1. HandoffSide(next.handoff)
    BY <1>2, <1>9, SideOfHandoff
  <2>2. q.command.op = "attest" => handoff[c].issued # None
    BY <1>2 DEF ReadingFits, HandoffFits
  <2>3. CommandFits(next)
    BY <1>8, <1>9, <2>2 DEF CommandFits, ReadingFits
  <2>4. Read(next.passport, next.handoff, next.command.case)
    BY <1>9 DEF Read, ReadingFits
  <2>5. next.at # "accepted"
    BY <1>9
  <2>6. QED BY <2>1, <2>3, <2>4, <2>5 DEF CallFits
<1>14. StageFits(next)
  BY <1>9, <1>13 DEF StageFits
<1>15. StageFits(next)'
  BY <1>5, <1>12, <1>14, StageKept
<1>16. HandoffTypeOK' /\ CallsFit'
  BY <1>5, <1>10, <1>11, <1>12, <1>15, CallStep
<1>17. QED BY <1>12, <1>16 DEF HandoffInv

\* The clients' commands that were served at the version the service is at are
\* committed by the step.
Committed(c) ==
  /\ \A k \in ClientKey, v \in Nat, e \in Nat :
       TokensEntry(c, k, v, e) \in answered /\ v = handoff[c].remote =>
         TokensCommand(c, k) \in receipts'
  /\ \A k \in ClientKey, v \in Nat, role \in Role :
       AttestEntry(c, k, v, role) \in answered /\ v = handoff[c].remote =>
         AttestCommand(c, k, role) \in receipts'

\* What a step of the service may do to a case.
CaseSteps(c) ==
  \/ passport'[c] = passport[c] /\ handoff'[c] = handoff[c]
  \/ /\ passport'[c].version > passport[c].version
     /\ CaseFits(c)'
     /\ \/ handoff'[c] = handoff[c] /\ handoff[c].remote \in {0, 4}
        \/ handoff'[c].remote > handoff[c].remote /\ Committed(c)

LEMMA ReadKept ==
  ASSUME HandoffInv, NEW c \in Case, CaseSteps(c), NEW p \in Passport, NEW h \in Handoff,
         Read(p, h, c),
         passport'[c] \in Passport, handoff'[c] \in Handoff
  PROVE  Read(p, h, c)'
<1>1. /\ passport[c].version \in Nat /\ passport'[c].version \in Nat /\ p.version \in Nat
      /\ handoff[c].remote \in Nat /\ handoff'[c].remote \in Nat /\ h.remote \in Nat
  BY DEF HandoffInv, HandoffTypeOK, Passport, Handoff
<1>2. CASE passport'[c] = passport[c] /\ handoff'[c] = handoff[c]
  BY <1>2 DEF Read, ReadCase
<1>3. CASE /\ passport'[c].version > passport[c].version
           /\ handoff'[c] = handoff[c] /\ handoff[c].remote \in {0, 4}
  BY <1>1, <1>3 DEF Read, ReadCase
<1>4. CASE /\ passport'[c].version > passport[c].version
           /\ handoff'[c].remote > handoff[c].remote
  BY <1>1, <1>4 DEF Read, ReadCase
<1>5. QED BY <1>2, <1>3, <1>4 DEF CaseSteps

LEMMA ReadingKept ==
  ASSUME HandoffInv, NEW q \in Reading, CaseSteps(q.command.case), ReadingFits(q),
         passport'[q.command.case] \in Passport, handoff'[q.command.case] \in Handoff
  PROVE  ReadingFits(q)'
<1> DEFINE c == q.command.case
<1>1. c \in Case /\ q.passport \in Passport
  BY ReadingTyped, CommandForms
<1>2. /\ passport[c].version \in Nat /\ passport'[c].version \in Nat
      /\ q.passport.version \in Nat
      /\ handoff[c].remote \in Nat /\ handoff'[c].remote \in Nat
  BY <1>1 DEF HandoffInv, HandoffTypeOK, Passport, Handoff
<1>3. /\ passport'[c] = passport[c] \/ passport'[c].version > passport[c].version
      /\ handoff'[c].remote >= handoff[c].remote
  BY <1>2 DEF CaseSteps
<1>4. ReadCase(q.passport, c)'
  BY <1>2, <1>3 DEF ReadCase, ReadingFits
<1>5. QED BY <1>2, <1>3, <1>4 DEF ReadingFits

LEMMA ServiceStep ==
  ASSUME HandoffInv, UNCHANGED vars,
         passport' \in [Case -> Passport], handoff' \in [Case -> Handoff],
         receipts' \subseteq Command, receipts \subseteq receipts',
         call' \in [Handler -> Call \cup Reading \cup {Idle}],
         \A g \in Handler : call'[g] \in {call[g], Idle},
         \A c \in Case : CaseSteps(c)
  PROVE  HandoffInv'
<1>1. IInv' /\ RelayFits' /\ reservations' = reservations /\ answered' = answered
  BY UnmovedRelay
<1>2. HandoffTypeOK'
  BY DEF HandoffTypeOK
<1>3. CasesFit'
  <2> SUFFICES ASSUME NEW c \in Case PROVE CaseFits(c)'
    BY DEF CasesFit
  <2>1. CASE passport'[c] = passport[c] /\ handoff'[c] = handoff[c]
    <3>1. HandoffFits(passport[c], handoff[c]) /\ Follows(c)
      BY DEF HandoffInv, CasesFit, CaseFits
    <3>2. HandoffFits(passport[c], handoff[c])'
      BY <2>1, <3>1
    <3>3. Follows(c)'
      BY <1>1, <2>1, <3>1 DEF Follows
    <3>4. QED BY <3>2, <3>3 DEF CaseFits
  <2>2. CASE CaseFits(c)'
    BY <2>2
  <2>3. QED BY <2>1, <2>2 DEF CaseSteps
<1>4. AnswersFit'
  <2>1. ASSUME NEW c \in Case, NEW k \in ClientKey, NEW v \in Nat, NEW e \in Nat,
               TokensEntry(c, k, v, e) \in answered
        PROVE  TokensDone(c, k, v, e)'
    <3>1. TokensDone(c, k, v, e)
      BY <2>1 DEF HandoffInv, AnswersFit, AnswersDone
    <3>2. TokensCommand(c, k) \in receipts' \/ handoff'[c].remote = v
      BY <2>1, <3>1 DEF TokensDone, Pending, CaseSteps, Committed
    <3>3. QED BY <1>1, <3>1, <3>2 DEF TokensDone, Pending
  <2>2. ASSUME NEW c \in Case, NEW k \in ClientKey, NEW v \in Nat, NEW role \in Role,
               AttestEntry(c, k, v, role) \in answered
        PROVE  AttestDone(c, k, v, role)'
    <3>1. AttestDone(c, k, v, role)
      BY <2>2 DEF HandoffInv, AnswersFit, AnswersDone
    <3>2. v \in 2..3 /\ Unrecorded(AttestCommand(c, k, role), c, v, role)
      BY <3>1 DEF AttestDone
    <3>3. Unrecorded(AttestCommand(c, k, role), c, v, role)'
      <4> DEFINE command == AttestCommand(c, k, role)
      <4>1. command \in receipts \/ (handoff[c].remote = v /\ role \notin handoff[c].attested)
        BY <3>2 DEF Unrecorded
      <4>2. handoff'[c] = handoff[c] \/ Committed(c)
        BY DEF CaseSteps
      <4>3. CASE command \in receipts
        BY <4>3 DEF Unrecorded
      <4>4. CASE handoff[c].remote = v /\ role \notin handoff[c].attested
        <5>1. handoff'[c] = handoff[c] \/ command \in receipts'
          BY <2>2, <4>2, <4>4 DEF Committed
        <5>2. QED BY <4>4, <5>1 DEF Unrecorded
      <4>5. QED BY <4>1, <4>3, <4>4
    <3>4. QED BY <1>1, <3>1, <3>3 DEF AttestDone
  <2>3. AnswersDone'
    <3>1. ASSUME NEW c \in Case, NEW e \in Nat, ReserveEntry(c, e) \in answered
          PROVE  ReserveDone(c, e)'
      BY <1>1, <3>1 DEF HandoffInv, AnswersFit, AnswersDone, ReserveDone
    <3>2. ASSUME NEW c \in Case, NEW v \in Nat, ReleaseEntry(c, v) \in answered
          PROVE  ReleaseDone(c)'
      BY <1>1, <3>2 DEF HandoffInv, AnswersFit, AnswersDone, ReleaseDone
    <3>3. QED BY <1>1, <2>1, <2>2, <3>1, <3>2 DEF AnswersDone
  <2>4. ReservationsAnswered' /\ TokensServedOnce' /\ AttestsServedOnce'
    BY <1>1 DEF HandoffInv, AnswersFit, ReservationsAnswered, TokensServedOnce, AttestsServedOnce
  <2>5. QED BY <2>3, <2>4 DEF AnswersFit
<1>5. CallsFit'
  <2> SUFFICES ASSUME NEW g \in Handler PROVE StageFits(call[g])'
    BY DEF CallsFit
  <2>1. CASE call'[g] = Idle
    BY <2>1 DEF StageFits, Idle, Asked
  <2>2. CASE call'[g] = call[g] /\ call[g].at = "reading"
    <3> PICK p \in Reading : p = call[g] /\ ReadingFits(p)
      BY <2>2, ReadingOf
    <3>1. p.command.case \in Case
      BY ReadingTyped, CommandForms
    <3>2. ReadingFits(p)'
      BY <3>1, ReadingKept
    <3>3. StageFits(p)'
      BY <2>2, <3>2 DEF StageFits, Asked
    <3>4. QED BY <2>2, <3>3
  <2>3. CASE call'[g] = call[g] /\ call[g].at \in Asked
    <3> PICK p \in Call : p = call[g] /\ CallFits(p)
      BY <2>3, CallOf
    <3> DEFINE c == p.command.case
    <3>1. c \in Case /\ p.passport \in Passport /\ p.handoff \in Handoff
      BY CallTyped, CommandForms
    <3>2. Read(p.passport, p.handoff, c)'
      BY <3>1, ReadKept DEF CallFits
    <3>3. HandoffSide(p.handoff)' /\ CommandFits(p)'
      BY DEF CallFits, HandoffSide, CommandFits, Presented
    <3>4. (p.at = "accepted" => Entry(Scope(p), Body(p)) \in answered)'
      BY <1>1 DEF CallFits, Entry, Scope, Body, RequestKey, Reserved
    <3>5. CallFits(p)'
      BY <3>2, <3>3, <3>4 DEF CallFits
    <3>6. StageFits(p)'
      BY <2>3, <3>5 DEF StageFits, Asked
    <3>7. QED BY <2>3, <3>6
  <2>4. CASE call'[g] = call[g] /\ call[g].at \notin Asked \cup {"reading"}
    <3> PICK p : p = call[g]
      OBVIOUS
    <3>1. StageFits(p)'
      BY <2>4 DEF StageFits
    <3>2. QED BY <2>4, <3>1
  <2>5. QED BY <2>1, <2>2, <2>3, <2>4
<1>6. QED BY <1>1, <1>2, <1>3, <1>4, <1>5 DEF HandoffInv

\* A step of the service on one case.
LEMMA CaseStep ==
  ASSUME HandoffInv, UNCHANGED vars, NEW c \in Case, NEW p \in Passport, NEW h \in Handoff,
         passport' = [passport EXCEPT ![c] = p], handoff' = [handoff EXCEPT ![c] = h],
         p.version = passport[c].version + 1,
         HandoffFits(p, h),
         h.remote # 0 =>
           /\ reservations[Reserved(c)] # None
           /\ Backed(reservations[Reserved(c)], h, p.state)
           /\ Level(reservations[Reserved(c)]) \in {h.remote, h.remote + 1},
         \/ h = handoff[c] /\ h.remote \in {0, 4}
         \/ h.remote = handoff[c].remote + 1 /\ Committed(c)
  PROVE  /\ passport' \in [Case -> Passport] /\ handoff' \in [Case -> Handoff]
         /\ \A d \in Case : CaseSteps(d)
<1>1. /\ passport \in [Case -> Passport] /\ handoff \in [Case -> Handoff]
      /\ passport[c].version \in Nat /\ handoff[c].remote \in Nat
  BY DEF HandoffInv, HandoffTypeOK, Passport, Handoff
<1>2. passport' \in [Case -> Passport] /\ handoff' \in [Case -> Handoff]
  BY <1>1
<1>3. /\ passport'[c] = p /\ handoff'[c] = h /\ reservations' = reservations
      /\ \A d \in Case \ {c} : passport'[d] = passport[d] /\ handoff'[d] = handoff[d]
  BY <1>1 DEF vars
<1>4. HandoffFits(passport[c], handoff[c])'
  BY <1>3
<1>5. Follows(c)'
  <2>1. CASE h.remote = 0
    <3>1. h = handoff[c]
      BY <1>1, <2>1
    <3>2. Follows(c)
      BY DEF HandoffInv, CasesFit, CaseFits
    <3>3. QED BY <1>3, <2>1, <3>1, <3>2 DEF Follows
  <2>2. CASE h.remote # 0
    BY <1>3, <2>2 DEF Follows
  <2>3. QED BY <2>1, <2>2
<1>6. CaseSteps(c)
  <2>1. p.version > passport[c].version
    BY <1>1
  <2>2. CASE h = handoff[c] /\ h.remote \in {0, 4}
    BY <1>3, <1>4, <1>5, <2>1, <2>2 DEF CaseSteps, CaseFits
  <2>3. CASE h.remote = handoff[c].remote + 1 /\ Committed(c)
    <3>1. h.remote > handoff[c].remote
      BY <1>1, <2>3
    <3>2. QED BY <1>3, <1>4, <1>5, <2>1, <2>3, <3>1 DEF CaseSteps, CaseFits
  <2>4. QED BY <2>2, <2>3
<1>7. \A d \in Case : CaseSteps(d)
  BY <1>3, <1>6 DEF CaseSteps
<1>8. QED BY <1>2, <1>7

\* The end of a command.
LEMMA EndsTyped ==
  ASSUME HandoffInv, NEW h \in Handler, Ends(h)
  PROVE  /\ call' \in [Handler -> Call \cup Reading \cup {Idle}]
         /\ \A g \in Handler : call'[g] \in {call[g], Idle}
BY DEF HandoffInv, HandoffTypeOK, Ends

LEMMA CallIdleTyped ==
  ASSUME HandoffInv, call' = call
  PROVE  /\ call' \in [Handler -> Call \cup Reading \cup {Idle}]
         /\ \A g \in Handler : call'[g] \in {call[g], Idle}
BY DEF HandoffInv, HandoffTypeOK

\* A command that changes nothing.
LEMMA QuietKeeps ==
  ASSUME HandoffInv, NEW h \in Handler, Ends(h), UNCHANGED <<vars, service>>
  PROVE  HandoffInv'
<1>1. /\ passport' = passport /\ handoff' = handoff /\ receipts' = receipts
      /\ UNCHANGED vars
  BY DEF service
<1>2. \A c \in Case : CaseSteps(c)
  BY <1>1 DEF CaseSteps
<1>3. /\ passport' \in [Case -> Passport] /\ handoff' \in [Case -> Handoff]
      /\ receipts' \subseteq Command /\ receipts \subseteq receipts'
  BY <1>1 DEF HandoffInv, HandoffTypeOK
<1>4. QED BY <1>1, <1>2, <1>3, EndsTyped, ServiceStep

\* Entries of the clients' commands are of versions 1 to 3.
LEMMA EntryVersions ==
  ASSUME HandoffInv, NEW c \in Case
  PROVE  /\ \A k \in ClientKey, v \in Nat, e \in Nat :
              TokensEntry(c, k, v, e) \in answered => v = 1
         /\ \A k \in ClientKey, v \in Nat, role \in Role :
              AttestEntry(c, k, v, role) \in answered => v \in 2..3
BY DEF HandoffInv, AnswersFit, AnswersDone, TokensDone, AttestDone

LEMMA BeginReleaseKeeps ==
  ASSUME HandoffInv, NEW c \in Case, BeginRelease(c)
  PROVE  HandoffInv'
<1> DEFINE p == [state |-> "RELEASE_REQUESTED", version |-> passport[c].version + 1]
           h == handoff[c]
<1>1. /\ passport \in [Case -> Passport] /\ handoff \in [Case -> Handoff] /\ receipts \subseteq Command
  BY DEF HandoffInv, HandoffTypeOK
<1>2. /\ passport' = [passport EXCEPT ![c] = p] /\ handoff' = [handoff EXCEPT ![c] = h]
      /\ UNCHANGED vars /\ receipts' = receipts /\ call' = call
      /\ passport[c].state = "CLAIMANT_PRESENT" /\ h.attested = Role
  BY <1>1 DEF BeginRelease, MayRelease
<1>3. p \in Passport /\ h \in Handoff /\ p.state = "RELEASE_REQUESTED" /\ p.version = passport[c].version + 1
  BY CaseKnown DEF Passport, PassportState
<1>4. HandoffFits(passport[c], h)
  BY CaseKnown
<1>5. h.remote = 4
  <2>1. h.remote \in 3..4
    BY <1>2, <1>4 DEF HandoffFits
  <2>2. h.remote # 3
    BY <1>2, <1>4 DEF HandoffFits, Presented, Role
  <2>3. QED BY <2>1, <2>2
<1> HIDE DEF p
<1>6. HandoffFits(p, h)
  BY <1>3, <1>4, <1>5 DEF HandoffFits
<1>7. /\ reservations[Reserved(c)] # None
      /\ Backed(reservations[Reserved(c)], h, p.state)
      /\ Level(reservations[Reserved(c)]) \in {h.remote, h.remote + 1}
  BY <1>3, <1>5, CaseKnown DEF Backed
<1>8. /\ passport' \in [Case -> Passport] /\ handoff' \in [Case -> Handoff]
      /\ \A d \in Case : CaseSteps(d)
  BY <1>2, <1>3, <1>5, <1>6, <1>7, CaseStep
<1>9. QED BY <1>1, <1>2, <1>8, CallIdleTyped, ServiceStep

LEMMA ReleasedSteps ==
  ASSUME HandoffInv, NEW c \in Case, passport[c].state = "RELEASE_REQUESTED",
         reservations[Reserved(c)] # None, Level(reservations[Reserved(c)]) = 5,
         NEW remote \in Nat, remote = handoff[c].remote, Released(c, remote), UNCHANGED vars
  PROVE  /\ passport' \in [Case -> Passport] /\ handoff' \in [Case -> Handoff]
         /\ \A d \in Case : CaseSteps(d)
<1> DEFINE old == handoff[c]
           p == [state |-> "RELEASED", version |-> passport[c].version + 1]
           h == [remote |-> remote + 1, expires |-> old.expires, issued |-> old.issued,
                 attested |-> old.attested]
           record == reservations[Reserved(c)]
<1>1. /\ passport \in [Case -> Passport] /\ handoff \in [Case -> Handoff]
  BY DEF HandoffInv, HandoffTypeOK
<1>2. /\ passport' = [passport EXCEPT ![c] = p] /\ handoff' = [handoff EXCEPT ![c] = h]
  BY <1>1 DEF Released
<1>3. /\ old \in Handoff /\ HandoffFits(passport[c], old) /\ Backed(record, old, passport[c].state)
      /\ RecordFits(record) /\ remote = 4 /\ old.remote = 4
  <2>1. HandoffFits(passport[c], old) /\ old \in Handoff
    BY CaseKnown
  <2>2. old.remote = 4
    BY <2>1 DEF HandoffFits
  <2>3. QED BY <2>1, <2>2, CaseKnown
<1>4. /\ p \in Passport /\ p.state = "RELEASED" /\ p.version = passport[c].version + 1
  BY CaseKnown DEF Passport, PassportState
<1>5. /\ h \in Handoff /\ h.remote = 5 /\ h.expires = old.expires /\ h.issued = old.issued
      /\ h.attested = old.attested
  BY <1>3 DEF Handoff
<1>6. Committed(c)
  <2>1. handoff[c].remote = 4
    BY <1>3
  <2>2. QED BY <2>1, EntryVersions DEF Committed
<1> HIDE DEF old, p, h, record
<1>7. HandoffFits(p, h)
  BY <1>3, <1>4, <1>5 DEF HandoffFits, Presented
<1>8. Backed(record, h, p.state)
  BY <1>3, <1>5 DEF Backed, RecordFits, record
<1>9. h.remote = handoff[c].remote + 1
  BY <1>3, <1>5 DEF old
<1>10. Level(reservations[Reserved(c)]) \in {h.remote, h.remote + 1}
  BY <1>5
<1>11. QED
  BY <1>2, <1>4, <1>5, <1>6, <1>7, <1>8, <1>9, <1>10, CaseStep DEF record

LEMMA ReceiveCallbackKeeps ==
  ASSUME HandoffInv, NEW c \in Case, ReceiveCallback(c)
  PROVE  HandoffInv'
<1> DEFINE record == reservations[Reserved(c)]
<1>1. /\ record # None /\ record.status = "HANDOFF_ATTESTED"
      /\ passport[c].state = "RELEASE_REQUESTED" /\ Released(c, record.version - 1)
      /\ UNCHANGED vars /\ receipts' = receipts /\ call' = call
  BY DEF ReceiveCallback
<1>2. RecordFits(record) /\ HandoffFits(passport[c], handoff[c])
  BY <1>1, CaseKnown
<1> DEFINE remote == record.version - 1
<1>3. Level(record) = 5 /\ remote = 4 /\ handoff[c].remote = 4
  BY <1>1, <1>2 DEF RecordFits, HandoffFits, Level
<1>4. Released(c, remote) /\ remote \in Nat /\ remote = handoff[c].remote
  BY <1>1, <1>3
<1> HIDE DEF remote
<1>5. /\ passport' \in [Case -> Passport] /\ handoff' \in [Case -> Handoff]
      /\ \A d \in Case : CaseSteps(d)
  BY <1>1, <1>3, <1>4, ReleasedSteps
<1>6. receipts \subseteq Command
  BY DEF HandoffInv, HandoffTypeOK
<1>7. QED BY <1>1, <1>5, <1>6, CallIdleTyped, ServiceStep

\* A command that finds the case as it read it.
LEMMA UnmovedCase ==
  ASSUME HandoffInv, NEW h \in Handler, NEW q \in Call, q = call[h], CallFits(q), Unmoved(h)
  PROVE  /\ q.command.case \in Case
         /\ passport[q.command.case] = q.passport /\ handoff[q.command.case] = q.handoff
         /\ q.handoff \in Handoff /\ q.handoff.remote \in Nat
         /\ HandoffFits(q.passport, q.handoff)
<1> DEFINE c == q.command.case
<1>1. c \in Case /\ q.handoff \in Handoff /\ passport[c] = q.passport
  BY CallTyped, CommandForms DEF Unmoved
<1>2. HandoffFits(passport[c], handoff[c])
  BY <1>1, CaseKnown
<1>3. handoff[c] = q.handoff
  BY <1>1 DEF CallFits, Read
<1>4. QED BY <1>1, <1>2, <1>3 DEF Handoff

LEMMA CommitReleaseKeeps ==
  ASSUME HandoffInv, NEW h \in Handler, CommitRelease(h)
  PROVE  HandoffInv'
<1>1. call[h].at \in Asked
  BY DEF CommitRelease, Asked
<1> PICK q \in Call : q = call[h] /\ CallFits(q)
  BY <1>1, CallOf
<1> DEFINE c == q.command.case
<1>2. /\ q.at = "accepted" /\ q.command.op = "release" /\ Ends(h)
      /\ UNCHANGED vars /\ receipts' = receipts
      /\ IF Unmoved(h) THEN Released(c, q.handoff.remote)
         ELSE passport' = passport /\ handoff' = handoff
  BY DEF CommitRelease
<1>3. CASE ~Unmoved(h)
  BY <1>2, <1>3, QuietKeeps DEF service
<1>4. CASE Unmoved(h)
  <2>1. /\ c \in Case /\ passport[c] = q.passport /\ handoff[c] = q.handoff
        /\ q.handoff.remote \in Nat
    BY <1>4, UnmovedCase
  <2>2. passport[c].state = "RELEASE_REQUESTED"
    BY <1>2, <2>1 DEF CallFits, CommandFits
  <2>3. ReleaseEntry(c, q.handoff.remote) \in answered
    BY <1>2, EntryForms DEF CallFits
  <2>4. reservations[Reserved(c)] # None /\ Level(reservations[Reserved(c)]) = 5
    BY <2>1, <2>3 DEF HandoffInv, AnswersFit, AnswersDone, ReleaseDone
  <2>5. Released(c, q.handoff.remote) /\ q.handoff.remote = handoff[c].remote
    BY <1>2, <1>4, <2>1
  <2>6. /\ passport' \in [Case -> Passport] /\ handoff' \in [Case -> Handoff]
        /\ \A d \in Case : CaseSteps(d)
    BY <1>2, <2>1, <2>2, <2>4, <2>5, ReleasedSteps
  <2>7. receipts \subseteq Command
    BY DEF HandoffInv, HandoffTypeOK
  <2>8. QED BY <1>2, <2>6, <2>7, EndsTyped, ServiceStep
<1>5. QED BY <1>3, <1>4

LEMMA CommitReserveKeeps ==
  ASSUME HandoffInv, NEW h \in Handler, CommitReserve(h)
  PROVE  HandoffInv'
<1>1. call[h].at \in Asked
  BY DEF CommitReserve, Asked
<1> PICK q \in Call : q = call[h] /\ CallFits(q)
  BY <1>1, CallOf
<1> DEFINE c == q.command.case
           old == handoff[c]
           p == [state |-> "RESERVED", version |-> passport[c].version + 1]
           next == [remote |-> 1, expires |-> Floor(q.expires), issued |-> old.issued,
                    attested |-> old.attested]
<1>2. /\ passport \in [Case -> Passport] /\ handoff \in [Case -> Handoff]
      /\ receipts \subseteq Command
  BY DEF HandoffInv, HandoffTypeOK
<1>3. /\ q.at = "accepted" /\ q.command.op = "reserve" /\ Ends(h)
      /\ UNCHANGED vars /\ receipts' = receipts
      /\ IF Unmoved(h)
         THEN /\ passport' = [passport EXCEPT ![c] = p]
              /\ handoff' = [handoff EXCEPT ![c] = next]
         ELSE passport' = passport /\ handoff' = handoff
  BY <1>2, CallTyped, CommandForms DEF CommitReserve
<1>4. CASE ~Unmoved(h)
  BY <1>3, <1>4, QuietKeeps DEF service
<1>5. CASE Unmoved(h)
  <2>1. /\ c \in Case /\ passport[c] = q.passport /\ old = q.handoff
    BY <1>5, UnmovedCase
  <2>2. /\ q.passport.state = "RESERVE_REQUESTED" /\ q.expires \in Nat
        /\ Floor(q.expires) \in Nat
    BY <1>3, Floored DEF CallFits, CommandFits
  <2>3. HandoffFits(passport[c], old) /\ old \in Handoff
    BY <2>1, CaseKnown
  <2>4. old.remote = 0 /\ old.issued = None /\ old.attested = {}
    BY <2>1, <2>2, <2>3 DEF HandoffFits, Presented
  <2>5. ReserveEntry(c, q.expires) \in answered
    BY <1>3, EntryForms DEF CallFits
  <2>6. /\ reservations[Reserved(c)] # None
        /\ reservations[Reserved(c)].expires = Floor(q.expires)
    BY <2>1, <2>2, <2>5 DEF HandoffInv, AnswersFit, AnswersDone, ReserveDone
  <2>7. Level(reservations[Reserved(c)]) = 1
    BY <2>1, <2>4, <2>6, CaseKnown DEF RecordFits
  <2>8. Committed(c)
    <3>1. handoff[c].remote = 0
      BY <2>4
    <3>2. QED BY <2>1, <3>1, EntryVersions DEF Committed
  <2>9. /\ p \in Passport /\ p.state = "RESERVED" /\ p.version = passport[c].version + 1
    BY <2>1, CaseKnown DEF Passport, PassportState
  <2>10. /\ next \in Handoff /\ next.remote = 1 /\ next.expires = Floor(q.expires)
         /\ next.issued = None /\ next.attested = {}
    BY <2>2, <2>3, <2>4 DEF Handoff
  <2>11. next.remote = handoff[c].remote + 1
    BY <2>4, <2>10
  <2>12. /\ passport' = [passport EXCEPT ![c] = p] /\ handoff' = [handoff EXCEPT ![c] = next]
    BY <1>3, <1>5
  <2> HIDE DEF p, next, c
  <2>13. Floor(q.expires) # None
    BY <2>2, NoneAssumption
  <2>14. HandoffFits(p, next)
    BY <2>9, <2>10, <2>13 DEF HandoffFits, Presented
  <2>15. Backed(reservations[Reserved(c)], next, p.state)
    BY <2>6, <2>9, <2>10 DEF Backed
  <2>16. Level(reservations[Reserved(c)]) \in {next.remote, next.remote + 1}
    BY <2>7, <2>10
  <2>17. /\ passport' \in [Case -> Passport] /\ handoff' \in [Case -> Handoff]
         /\ \A d \in Case : CaseSteps(d)
    BY <1>3, <2>1, <2>6, <2>8, <2>9, <2>10, <2>11, <2>12, <2>14, <2>15, <2>16, CaseStep
  <2>18. QED BY <1>2, <1>3, <2>17, EndsTyped, ServiceStep
<1>6. QED BY <1>4, <1>5

\* The first commit of a client's command.
LEMMA CommitsKeeps ==
  ASSUME HandoffInv, NEW h \in Handler, NEW q \in Call, q = call[h], CallFits(q),
         NEW state \in PassportState, NEW next \in Handoff,
         Commits(h, state, next), Ends(h), UNCHANGED vars,
         q.command \notin receipts, Unmoved(h),
         next.remote = q.handoff.remote + 1,
         LET c == q.command.case
             p == [state |-> state, version |-> passport[c].version + 1]
         IN /\ HandoffFits(p, next)
            /\ reservations[Reserved(c)] # None
            /\ Backed(reservations[Reserved(c)], next, state)
            /\ Level(reservations[Reserved(c)]) \in {next.remote, next.remote + 1},
         receipts' = receipts \cup {q.command} => Committed(q.command.case)
  PROVE  HandoffInv'
<1> DEFINE c == q.command.case
           p == [state |-> state, version |-> passport[c].version + 1]
<1>1. /\ c \in Case /\ handoff[c] = q.handoff /\ q.command \in Command
  BY UnmovedCase, CallTyped
<1>2. /\ passport \in [Case -> Passport] /\ handoff \in [Case -> Handoff]
      /\ receipts \subseteq Command
  BY DEF HandoffInv, HandoffTypeOK
<1>3. /\ passport' = [passport EXCEPT ![c] = p]
      /\ handoff' = [handoff EXCEPT ![c] = next]
      /\ receipts' = receipts \cup {q.command}
  BY <1>1, <1>2 DEF Commits
<1>4. /\ p \in Passport /\ p.state = state /\ p.version = passport[c].version + 1
  BY <1>1, CaseKnown DEF Passport
<1>5. /\ HandoffFits(p, next)
      /\ reservations[Reserved(c)] # None
      /\ Backed(reservations[Reserved(c)], next, p.state)
      /\ Level(reservations[Reserved(c)]) \in {next.remote, next.remote + 1}
      /\ Committed(c) /\ next.remote = handoff[c].remote + 1
  BY <1>1, <1>3, <1>4
<1> HIDE DEF p, c
<1>6. /\ passport' \in [Case -> Passport] /\ handoff' \in [Case -> Handoff]
      /\ \A d \in Case : CaseSteps(d)
  BY <1>1, <1>3, <1>4, <1>5, CaseStep
<1>7. receipts' \subseteq Command /\ receipts \subseteq receipts'
  BY <1>1, <1>2, <1>3
<1>8. QED BY <1>6, <1>7, EndsTyped, ServiceStep

LEMMA CommitTokensKeeps ==
  ASSUME HandoffInv, NEW h \in Handler, CommitTokens(h)
  PROVE  HandoffInv'
<1>1. call[h].at \in Asked
  BY DEF CommitTokens, Asked
<1> PICK q \in Call : q = call[h] /\ CallFits(q)
  BY <1>1, CallOf
<1> DEFINE c == q.command.case
           k == q.command.key
           next == [remote |-> q.handoff.remote + 1, expires |-> q.handoff.expires,
                    issued |-> Floor(q.expires), attested |-> q.handoff.attested]
           record == reservations[Reserved(c)]
<1>2. /\ q.at = "accepted" /\ q.command.op = "tokens" /\ Ends(h) /\ UNCHANGED vars
      /\ Unmoved(h) \/ q.command \in receipts
      /\ Commits(h, q.passport.state, next)
  BY DEF CommitTokens
<1>3. CASE q.command \in receipts
  <2>1. UNCHANGED service
    BY <1>2, <1>3 DEF Commits
  <2>2. QED BY <1>2, <2>1, QuietKeeps
<1>4. CASE q.command \notin receipts
  <2>1. /\ Unmoved(h) /\ c \in Case /\ passport[c] = q.passport /\ handoff[c] = q.handoff
    BY <1>2, <1>4, UnmovedCase
  <2>2. /\ q.passport.state = "RESERVED" /\ q.handoff.issued = None /\ q.expires \in Nat
        /\ HandoffFits(q.passport, q.handoff) /\ q.handoff \in Handoff
        /\ Floor(q.expires) \in Nat
    BY <1>2, <2>1, CallTyped, UnmovedCase, Floored DEF CallFits, CommandFits
  <2>3. q.handoff.remote = 1 /\ q.handoff.attested = {} /\ q.handoff.expires # None
    BY <2>2 DEF HandoffFits, Presented
  <2>4. /\ k \in ClientKey /\ q.command = TokensCommand(c, k)
        /\ TokensEntry(c, k, q.handoff.remote, q.expires) \in answered
    BY <1>2, CallTyped, CommandForms, EntryForms DEF CallFits
  <2>5. record # None /\ Level(record) > 1 /\ record.tokens = Floor(q.expires)
    BY <2>1, <2>2, <2>3, <2>4 DEF HandoffInv, AnswersFit, AnswersDone, TokensDone
  <2>6. Level(record) = 2 /\ record.expires = q.handoff.expires
    BY <2>1, <2>3, <2>5, CaseKnown DEF Backed
  <2>7. receipts' = receipts \cup {q.command} => Committed(c)
    <3> SUFFICES ASSUME receipts' = receipts \cup {q.command} PROVE Committed(c)
      OBVIOUS
    <3>1. ASSUME NEW l \in ClientKey, NEW v \in Nat, NEW e \in Nat,
                 TokensEntry(c, l, v, e) \in answered
          PROVE  TokensCommand(c, l) \in receipts'
      <4>1. q.handoff.remote \in Nat
        BY <2>3
      <4>2. l = k
        BY <2>1, <2>2, <2>4, <3>1, <4>1 DEF HandoffInv, AnswersFit, TokensServedOnce
      <4>3. QED BY <2>4, <4>2
    <3>2. handoff[c].remote = 1
      BY <2>1, <2>3
    <3>3. QED BY <2>1, <3>1, <3>2, EntryVersions DEF Committed
  <2>8. /\ next \in Handoff /\ next.remote = 2 /\ next.expires = q.handoff.expires
        /\ next.issued = Floor(q.expires) /\ next.attested = {}
    BY <2>2, <2>3 DEF Handoff
  <2>9. next.remote = q.handoff.remote + 1
    OBVIOUS
  <2> DEFINE p == [state |-> q.passport.state, version |-> passport[c].version + 1]
  <2>10. p.state = "RESERVED" /\ q.passport.state \in PassportState
    BY <2>2 DEF PassportState
  <2> HIDE DEF p, next, record
  <2>11. Floor(q.expires) # None
    BY <2>2, NoneAssumption
  <2>12. HandoffFits(p, next)
    BY <2>3, <2>8, <2>10, <2>11 DEF HandoffFits, Presented
  <2>13. Backed(record, next, q.passport.state)
    BY <2>2, <2>5, <2>6, <2>8 DEF Backed
  <2>14. Level(record) \in {next.remote, next.remote + 1}
    BY <2>6, <2>8
  <2>15. LET cc == q.command.case
             pp == [state |-> q.passport.state, version |-> passport[cc].version + 1]
         IN /\ HandoffFits(pp, next)
            /\ reservations[Reserved(cc)] # None
            /\ Backed(reservations[Reserved(cc)], next, q.passport.state)
            /\ Level(reservations[Reserved(cc)]) \in {next.remote, next.remote + 1}
    BY <2>5, <2>12, <2>13, <2>14 DEF p, record
  <2>16. Commits(h, q.passport.state, next)
    BY <1>2 DEF next
  <2>17. QED BY <1>2, <1>4, <2>1, <2>7, <2>8, <2>9, <2>10, <2>15, <2>16, CommitsKeeps
<1>5. QED BY <1>3, <1>4

LEMMA CommitAttestationKeeps ==
  ASSUME HandoffInv, NEW h \in Handler, CommitAttestation(h)
  PROVE  HandoffInv'
<1>1. call[h].at \in Asked
  BY DEF CommitAttestation, Asked
<1> PICK q \in Call : q = call[h] /\ CallFits(q)
  BY <1>1, CallOf
<1> DEFINE c == q.command.case
           k == q.command.key
           role == q.command.role
           v == q.handoff.remote
           old == handoff[c]
           state == AttestedState(q)
           next == [remote |-> q.handoff.remote + 1, expires |-> old.expires,
                    issued |-> old.issued, attested |-> old.attested \cup {role}]
           record == reservations[Reserved(c)]
<1>2. /\ q.at = "accepted" /\ q.command.op = "attest" /\ Ends(h) /\ UNCHANGED vars
      /\ (Unmoved(h) /\ Consumable(q)) \/ q.command \in receipts
      /\ Commits(h, state, next)
  BY DEF CommitAttestation
<1>3. CASE q.command \in receipts
  <2>1. UNCHANGED service
    BY <1>2, <1>3 DEF Commits
  <2>2. QED BY <1>2, <2>1, QuietKeeps
<1>4. CASE q.command \notin receipts
  <2>1. /\ Unmoved(h) /\ c \in Case /\ passport[c] = q.passport /\ old = q.handoff
        /\ role \notin old.attested
    BY <1>2, <1>4, UnmovedCase DEF Consumable
  <2>2. /\ q.passport.state \in {"RESERVED", "CLAIMANT_PRESENT"} /\ q.handoff.issued # None
        /\ HandoffFits(q.passport, old) /\ old \in Handoff
    BY <1>2, <2>1, CallTyped, UnmovedCase DEF CallFits, CommandFits
  <2>3. /\ k \in ClientKey /\ role \in Role /\ q.command = AttestCommand(c, k, role)
        /\ AttestEntry(c, k, v, role) \in answered
    BY <1>2, CallTyped, CommandForms, EntryForms DEF CallFits
  <2>4. v \in Nat
    BY <2>1, <2>2 DEF HandoffFits
  <2>5. /\ v \in 2..3 /\ record # None /\ Level(record) > v /\ role \in record.attested
    BY <2>1, <2>3, <2>4 DEF HandoffInv, AnswersFit, AnswersDone, AttestDone
  <2>6. Level(record) = v + 1 /\ Backed(record, old, q.passport.state)
    BY <2>1, <2>5, CaseKnown
  <2>7. receipts' = receipts \cup {q.command} => Committed(c)
    <3> SUFFICES ASSUME receipts' = receipts \cup {q.command} PROVE Committed(c)
      OBVIOUS
    <3>1. ASSUME NEW l \in ClientKey, NEW r \in Role, AttestEntry(c, l, v, r) \in answered
          PROVE  AttestCommand(c, l, r) \in receipts'
      <4>1. l = k /\ r = role
        BY <2>1, <2>3, <2>4, <3>1 DEF HandoffInv, AnswersFit, AttestsServedOnce
      <4>2. QED BY <2>3, <4>1
    <3>2. handoff[c].remote = v
      BY <2>1
    <3>3. QED BY <2>1, <2>5, <3>1, <3>2, EntryVersions DEF Committed
  <2>8. /\ next \in Handoff /\ next.remote = v + 1 /\ next.expires = old.expires
        /\ next.issued = old.issued /\ next.attested = old.attested \cup {role}
    BY <2>1, <2>2, <2>3, <2>4 DEF Handoff
  <2>9. next.remote = q.handoff.remote + 1
    OBVIOUS
  <2>10. state = IF role = "CLAIMANT" THEN "CLAIMANT_PRESENT" ELSE q.passport.state
    BY DEF AttestedState
  <2> DEFINE p == [state |-> state, version |-> passport[c].version + 1]
  <2>11. p.state = state
    OBVIOUS
  <2>12. Commits(h, state, next)
    BY <1>2
  <2>13. old.remote = v
    BY <2>1
  <2> HIDE DEF p, next, record, state, old, v, role
  <2>14. state \in {"RESERVED", "CLAIMANT_PRESENT"} /\ state \in PassportState
    BY <2>2, <2>10 DEF PassportState
  <2>15. Presented(next.attested, next.remote)
    <3>1. CASE v = 2
      <4>1. old.attested = {}
        BY <2>2, <2>13, <3>1 DEF HandoffFits, Presented
      <4>2. next.attested = {role} /\ next.remote = 3
        BY <2>8, <3>1, <4>1
      <4>3. QED BY <2>3, <4>2 DEF Presented
    <3>2. CASE v = 3
      <4>1. \E x \in Role : old.attested = {x}
        BY <2>2, <2>13, <3>2 DEF HandoffFits, Presented
      <4>2. next.attested = Role /\ next.remote = 4
        BY <2>1, <2>3, <2>8, <3>2, <4>1 DEF Role
      <4>3. QED BY <4>2 DEF Presented
    <3>3. QED BY <2>5, <3>1, <3>2
  <2>16. state = "RESERVED" => next.remote \in 1..3 /\ "CLAIMANT" \notin next.attested
    <3> SUFFICES ASSUME state = "RESERVED"
                 PROVE  next.remote \in 1..3 /\ "CLAIMANT" \notin next.attested
      OBVIOUS
    <3>1. role = "CUSTODIAN" /\ q.passport.state = "RESERVED"
      BY <2>3, <2>10 DEF Role
    <3>2. "CLAIMANT" \notin old.attested
      BY <2>2, <3>1 DEF HandoffFits
    <3>3. v = 2
      <4>1. v = 3 => \E x \in Role : old.attested = {x}
        BY <2>2, <2>13 DEF HandoffFits, Presented
      <4>2. QED BY <2>1, <2>5, <3>1, <3>2, <4>1 DEF Role
    <3>4. QED BY <2>8, <3>1, <3>2, <3>3
  <2>17. HandoffFits(p, next)
    <3>1. next.remote \in 3..4
      BY <2>5, <2>8
    <3>2. /\ next.expires = None <=> next.remote = 0
          /\ next.issued = None <=> next.remote <= 1
      BY <2>1, <2>2, <2>5, <2>8, <2>13, <3>1 DEF HandoffFits
    <3>3. QED BY <2>11, <2>14, <2>15, <2>16, <3>1, <3>2 DEF HandoffFits
  <2>18. Backed(record, next, state)
    BY <2>5, <2>6, <2>8, <2>14 DEF Backed
  <2>19. Level(record) \in {next.remote, next.remote + 1}
    BY <2>6, <2>8
  <2>20. LET cc == q.command.case
             pp == [state |-> state, version |-> passport[cc].version + 1]
         IN /\ HandoffFits(pp, next)
            /\ reservations[Reserved(cc)] # None
            /\ Backed(reservations[Reserved(cc)], next, state)
            /\ Level(reservations[Reserved(cc)]) \in {next.remote, next.remote + 1}
    BY <2>5, <2>17, <2>18, <2>19 DEF p, record
  <2>21. QED
    BY <1>2, <1>4, <2>1, <2>7, <2>8, <2>9, <2>12, <2>14, <2>20, CommitsKeeps
<1>5. QED BY <1>3, <1>4

LEMMA RequireReconciliationKeeps ==
  ASSUME HandoffInv, NEW h \in Handler, RequireReconciliation(h)
  PROVE  HandoffInv'
<1>1. call[h].at \in Asked
  BY DEF RequireReconciliation, Asked
<1> PICK q \in Call : q = call[h] /\ CallFits(q)
  BY <1>1, CallOf
<1> DEFINE c == q.command.case
           p == [state |-> "RECONCILIATION_REQUIRED", version |-> passport[c].version + 1]
           old == handoff[c]
<1>2. c \in Case
  BY CallTyped, CommandForms
<1>3. /\ passport \in [Case -> Passport] /\ handoff \in [Case -> Handoff]
      /\ receipts \subseteq Command
  BY DEF HandoffInv, HandoffTypeOK
<1>4. /\ q.command.op \in {"reserve", "release"} /\ Ends(h)
      /\ UNCHANGED vars /\ handoff' = handoff /\ receipts' = receipts
      /\ IF passport[c].state = q.passport.state
         THEN passport' = [passport EXCEPT ![c] = p]
         ELSE passport' = passport
  BY DEF RequireReconciliation
<1>5. CASE passport[c].state # q.passport.state
  BY <1>4, <1>5, QuietKeeps DEF service
<1>6. CASE passport[c].state = q.passport.state
  <2>1. passport[c].state \in {"RESERVE_REQUESTED", "RELEASE_REQUESTED"}
    BY <1>4, <1>6 DEF CallFits, CommandFits
  <2>2. old \in Handoff /\ HandoffFits(passport[c], old) /\ passport[c].version \in Nat
    BY <1>2, CaseKnown
  <2>3. old.remote \in {0, 4}
    BY <2>1, <2>2 DEF HandoffFits
  <2>4. /\ p \in Passport /\ p.state = "RECONCILIATION_REQUIRED"
        /\ p.version = passport[c].version + 1
    BY <2>2 DEF Passport, PassportState
  <2>5. passport' = [passport EXCEPT ![c] = p] /\ handoff' = [handoff EXCEPT ![c] = old]
    BY <1>2, <1>3, <1>4, <1>6
  <2> HIDE DEF p
  <2>6. HandoffFits(p, old)
    BY <2>2, <2>3, <2>4 DEF HandoffFits
  <2>7. old.remote # 0 =>
          /\ reservations[Reserved(c)] # None
          /\ Backed(reservations[Reserved(c)], old, p.state)
          /\ Level(reservations[Reserved(c)]) \in {old.remote, old.remote + 1}
    BY <1>2, <2>4, CaseKnown DEF Backed
  <2>8. /\ passport' \in [Case -> Passport] /\ handoff' \in [Case -> Handoff]
        /\ \A d \in Case : CaseSteps(d)
    BY <1>2, <1>4, <2>2, <2>3, <2>4, <2>5, <2>6, <2>7, CaseStep
  <2>9. QED BY <1>3, <1>4, <2>8, EndsTyped, ServiceStep
<1>7. QED BY <1>5, <1>6

-----------------------------------------------------------------------------
(* The starts *)

LEMMA CommandTyped ==
  ASSUME NEW c \in Case
  PROVE  /\ [op |-> "reserve", case |-> c] \in Command
         /\ [op |-> "release", case |-> c] \in Command
         /\ \A k \in ClientKey :
              /\ TokensCommand(c, k) \in Command
              /\ \A role \in Role : AttestCommand(c, k, role) \in Command
BY DEF Command, TokensCommand, AttestCommand

LEMMA DeliverReserveKeeps ==
  ASSUME HandoffInv, NEW h \in Handler, NEW c \in Case, DeliverReserve(h, c)
  PROVE  HandoffInv'
<1> DEFINE command == [op |-> "reserve", case |-> c]
<1>1. command \in Command /\ command.op = "reserve" /\ command.case = c
  BY CommandTyped
<1>2. passport[c].state = "RESERVE_REQUESTED" /\ Starts(h, command)
  BY DEF DeliverReserve
<1> HIDE DEF command
<1>3. QED BY <1>1, <1>2, StartKeeps

LEMMA DeliverReleaseKeeps ==
  ASSUME HandoffInv, NEW h \in Handler, NEW c \in Case, DeliverRelease(h, c)
  PROVE  HandoffInv'
<1> DEFINE command == [op |-> "release", case |-> c]
<1>1. command \in Command /\ command.op = "release" /\ command.case = c
  BY CommandTyped
<1>2. passport[c].state = "RELEASE_REQUESTED" /\ Starts(h, command)
  BY DEF DeliverRelease
<1> HIDE DEF command
<1>3. QED BY <1>1, <1>2, StartKeeps

LEMMA IssueTokensKeeps ==
  ASSUME HandoffInv, NEW h \in Handler, NEW c \in Case, NEW k \in ClientKey,
         IssueTokens(h, c, k)
  PROVE  HandoffInv'
<1> DEFINE command == TokensCommand(c, k)
<1>1. command \in Command /\ command.op = "tokens" /\ command.case = c
  BY CommandTyped DEF TokensCommand
<1>2. passport[c].state = "RESERVED" /\ Starts(h, command)
  BY DEF IssueTokens, TokensCommand
<1> HIDE DEF command
<1>3. QED BY <1>1, <1>2, StartKeeps

LEMMA AttestTokenKeeps ==
  ASSUME HandoffInv, NEW h \in Handler, NEW c \in Case, NEW k \in ClientKey,
         NEW role \in Role, AttestToken(h, c, k, role)
  PROVE  HandoffInv'
<1> DEFINE command == AttestCommand(c, k, role)
<1>1. command \in Command /\ command.op = "attest" /\ command.case = c
  BY CommandTyped DEF AttestCommand
<1>2. /\ passport[c].state \in {"RESERVED", "CLAIMANT_PRESENT"} /\ handoff[c].issued # None
      /\ Starts(h, command)
  BY DEF AttestToken, AttestCommand
<1> HIDE DEF command
<1>3. QED BY <1>1, <1>2, StartKeeps

-----------------------------------------------------------------------------
(* The invariant *)

LEMMA HandoffInitKeeps == HandoffInit => HandoffInv
<1> SUFFICES ASSUME HandoffInit PROVE HandoffInv
  OBVIOUS
<1>1. IInv /\ answered = {} /\ (\A r \in Reservation : reservations[r] = None)
  BY InitGood DEF HandoffInit, Init
<1>2. ASSUME NEW c \in Case
      PROVE  /\ passport[c] = [state |-> "RESERVE_REQUESTED", version |-> 0]
             /\ handoff[c] = [remote |-> 0, expires |-> None, issued |-> None, attested |-> {}]
  BY DEF HandoffInit
<1>3. HandoffTypeOK
  BY DEF HandoffInit, HandoffTypeOK, Passport, PassportState, Handoff
<1>4. RelayFits
  BY <1>1 DEF RelayFits
<1>5. CasesFit
  <2> SUFFICES ASSUME NEW c \in Case PROVE CaseFits(c)
    BY DEF CasesFit
  <2>1. HandoffFits(passport[c], handoff[c])
    BY <1>2 DEF HandoffFits, Presented
  <2>2. reservations[Reserved(c)] = None
    BY <1>1, ReservedTyped
  <2>3. Follows(c)
    BY <1>2, <2>2 DEF Follows
  <2>4. QED BY <2>1, <2>3 DEF CaseFits
<1>6. AnswersFit
  <2>1. \A c \in Case : reservations[Reserved(c)] = None
    BY <1>1, ReservedTyped
  <2>2. QED
    BY <1>1, <2>1 DEF AnswersFit, AnswersDone, ReservationsAnswered, TokensServedOnce,
       AttestsServedOnce
<1>7. CallsFit
  BY DEF HandoffInit, CallsFit, StageFits, Idle, Asked
<1>8. QED BY <1>1, <1>3, <1>4, <1>5, <1>6, <1>7 DEF HandoffInv

LEMMA StutterKeeps ==
  ASSUME HandoffInv, UNCHANGED all
  PROVE  HandoffInv'
<1>1. /\ passport' = passport /\ handoff' = handoff /\ receipts' = receipts
      /\ UNCHANGED vars /\ call' = call
  BY DEF all, service
<1>2. \A c \in Case : CaseSteps(c)
  BY <1>1 DEF CaseSteps
<1>3. /\ passport' \in [Case -> Passport] /\ handoff' \in [Case -> Handoff]
      /\ receipts' \subseteq Command /\ receipts \subseteq receipts'
  BY <1>1 DEF HandoffInv, HandoffTypeOK
<1>4. QED BY <1>1, <1>2, <1>3, CallIdleTyped, ServiceStep

LEMMA RequestKeeps ==
  ASSUME HandoffInv, NEW h \in Handler,
         ReadHandoff(h) \/ Answered(h) \/ AnswerLost(h) \/ NotDone(h)
  PROVE  HandoffInv'
<1>1. CASE Answered(h)
  BY <1>1, EffectKeeps, ReplayKeeps DEF Answered
<1>2. CASE AnswerLost(h)
  BY <1>2, EffectKeeps DEF AnswerLost
<1>3. CASE NotDone(h)
  BY <1>3, NotDoneKeeps
<1>4. QED BY <1>1, <1>2, <1>3, ReadHandoffKeeps

LEMMA HandoffNextKeeps == HandoffInv /\ [HandoffNext]_all => HandoffInv'
<1> SUFFICES ASSUME HandoffInv, [HandoffNext]_all PROVE HandoffInv'
  OBVIOUS
<1>1. ASSUME NEW h \in Handler, NEW c \in Case, DeliverReserve(h, c) \/ DeliverRelease(h, c)
      PROVE  HandoffInv'
  BY <1>1, DeliverReserveKeeps, DeliverReleaseKeeps
<1>2. ASSUME NEW h \in Handler, NEW c \in Case, NEW k \in ClientKey,
             IssueTokens(h, c, k) \/ \E role \in Role : AttestToken(h, c, k, role)
      PROVE  HandoffInv'
  BY <1>2, IssueTokensKeeps, AttestTokenKeeps
<1>3. ASSUME NEW c \in Case, BeginRelease(c) \/ ReceiveCallback(c)
      PROVE  HandoffInv'
  BY <1>3, BeginReleaseKeeps, ReceiveCallbackKeeps
<1>4. ASSUME NEW h \in Handler,
             ReadHandoff(h) \/ Answered(h) \/ AnswerLost(h) \/ NotDone(h)
      PROVE  HandoffInv'
  BY <1>4, RequestKeeps
<1>5. ASSUME NEW h \in Handler,
             \/ CommitReserve(h) \/ CommitRelease(h) \/ CommitTokens(h) \/ CommitAttestation(h)
      PROVE  HandoffInv'
  BY <1>5, CommitReserveKeeps, CommitReleaseKeeps, CommitTokensKeeps, CommitAttestationKeeps
<1>6. ASSUME NEW h \in Handler, Stop(h) \/ TellClient(h)
      PROVE  HandoffInv'
  BY <1>6, QuietKeeps DEF Stop, TellClient
<1>7. ASSUME NEW h \in Handler, RequireReconciliation(h)
      PROVE  HandoffInv'
  BY <1>7, RequireReconciliationKeeps
<1>8. CASE RelayRead
  BY <1>8, ReadKeeps
<1>9. CASE UNCHANGED all
  BY <1>9, StutterKeeps
<1>10. QED
  BY <1>1, <1>2, <1>3, <1>4, <1>5, <1>6, <1>7, <1>8, <1>9 DEF HandoffNext

\* The two sides and the commands between them fit together.
THEOREM HandoffInvariantHolds == HandoffSpec => []HandoffInv
BY HandoffInitKeeps, HandoffNextKeeps, PTL DEF HandoffSpec

-----------------------------------------------------------------------------
(* What follows from it *)

\* Every case, every reservation as the service knows it, every receipt and every
\* command under way is of its type (custody_service.py, relay.py).
THEOREM HandoffTypeCorrect == HandoffSpec => []HandoffTypeOK
<1>1. HandoffInv => HandoffTypeOK
  BY DEF HandoffInv
<1>2. QED
  BY <1>1, HandoffInvariantHolds, PTL

\* What the relay promises by itself, of held items and of presentations, it keeps
\* when the custody service is what calls it, with lost answers and repetitions
\* (create_reservation, record_attestation, _expire_locked).
THEOREM RelayKeepsItsPromises == HandoffSpec => [](HoldIsLive /\ BothRolesPresented)
<1>1. HandoffInv => HoldIsLive /\ BothRolesPresented
  BY DEF HandoffInv, IInv
<1>2. QED
  BY <1>1, HandoffInvariantHolds, PTL

\* The service's record of a reservation is backed by the relay, which is at most
\* one effect ahead (execute_task, issue_tokens, attest_handoff).
THEOREM RelayFollowed == HandoffSpec => []ServiceFollowsRelay
<1>1. HandoffInv => ServiceFollowsRelay
  <2> SUFFICES ASSUME HandoffInv, NEW c \in Case
               PROVE  /\ Effects(Reserved(c)) \in {handoff[c].remote, handoff[c].remote + 1}
                      /\ handoff[c].remote # 0 =>
                           Backed(reservations[Reserved(c)], handoff[c], passport[c].state)
    BY DEF ServiceFollowsRelay
  <2> DEFINE record == reservations[Reserved(c)]
  <2>1. Follows(c)
    BY DEF HandoffInv, CasesFit, CaseFits
  <2>2. Effects(Reserved(c)) = IF record = None THEN 0 ELSE Level(record)
    BY DEF Effects, Level
  <2>3. QED BY <2>1, <2>2 DEF Follows
<1>2. QED
  BY <1>1, HandoffInvariantHolds, PTL

\* A release is never requested before the relay can hand the item over
\* (begin_release).
THEOREM ReleasesAreReady == HandoffSpec => []ReleaseIsReady
<1>1. HandoffInv => ReleaseIsReady
  <2> SUFFICES ASSUME HandoffInv, NEW c \in Case, passport[c].state = "RELEASE_REQUESTED"
               PROVE  reservations[Reserved(c)].status
                        \in {"CALLBACK_READY", "HANDOFF_ATTESTED", "EXPIRED"}
    BY DEF ReleaseIsReady
  <2> DEFINE record == reservations[Reserved(c)]
  <2>1. handoff[c].remote = 4
    BY CaseKnown DEF HandoffFits
  <2>2. record # None /\ RecordFits(record) /\ Level(record) \in {4, 5}
    BY <2>1, CaseKnown
  <2>3. record.status \in Status
    BY <2>2, ReservedTyped DEF HandoffInv, IInv, TypeOK, ReservationRecord
  <2>4. QED BY <2>2, <2>3 DEF RecordFits, Level, Status, Live
<1>2. QED
  BY <1>1, HandoffInvariantHolds, PTL

\* What the relay accepted for a client is committed, or is what the case still
\* waits for, although the command that asked may be refused as stale when another
\* commits between its reads (issue_tokens, attest_token, consume_token).
THEOREM AcceptedStayCommittable == HandoffSpec => []AcceptedNotLost
<1>1. ASSUME HandoffInv, NEW c \in Case, NEW k \in ClientKey, NEW v \in 1..3, TokensAccepted(c, k, v)
      PROVE  \/ TokensCommand(c, k) \in receipts
             \/ /\ handoff[c].remote = v /\ handoff[c].issued = None
                /\ passport[c].state = "RESERVED"
  <2> PICK e \in 0..(EndOfTime + HoldTime) : TokensEntry(c, k, v, e) \in answered
    BY <1>1 DEF TokensAccepted, TokensEntry, Entry
  <2>1. v \in Nat /\ e \in Nat
    BY EndOfTimeAssumption, TimesAssumption
  <2>2. TokensDone(c, k, v, e)
    BY <1>1, <2>1 DEF HandoffInv, AnswersFit, AnswersDone
  <2>3. v = 1 /\ (TokensCommand(c, k) \in receipts \/ handoff[c].remote = v)
    BY <2>2 DEF TokensDone, Pending
  <2>4. HandoffFits(passport[c], handoff[c]) /\ passport[c].state \in PassportState
    BY <1>1, CaseKnown DEF Passport
  <2>5. handoff[c].remote = 1 => passport[c].state = "RESERVED" /\ handoff[c].issued = None
    BY <2>4 DEF HandoffFits, PassportState
  <2>6. QED BY <2>3, <2>5
<1>2. ASSUME HandoffInv, NEW c \in Case, NEW k \in ClientKey, NEW v \in 1..3, NEW role \in Role,
             AttestationAccepted(c, k, v, role)
      PROVE  \/ AttestCommand(c, k, role) \in receipts
             \/ /\ handoff[c].remote = v /\ role \notin handoff[c].attested
                /\ passport[c].state \in {"RESERVED", "CLAIMANT_PRESENT"}
  <2>1. AttestEntry(c, k, v, role) \in answered /\ v \in Nat
    BY <1>2 DEF AttestationAccepted, AttestEntry, Entry
  <2>2. AttestDone(c, k, v, role)
    BY <1>2, <2>1 DEF HandoffInv, AnswersFit, AnswersDone
  <2>3. v \in 2..3 /\ Unrecorded(AttestCommand(c, k, role), c, v, role)
    BY <2>2 DEF AttestDone
  <2>4. HandoffFits(passport[c], handoff[c]) /\ passport[c].state \in PassportState
    BY <1>2, CaseKnown DEF Passport
  <2>5. handoff[c].remote \in 2..3 => passport[c].state \in {"RESERVED", "CLAIMANT_PRESENT"}
    BY <2>4 DEF HandoffFits, PassportState
  <2>6. QED BY <2>3, <2>5 DEF Unrecorded
<1>3. HandoffInv => AcceptedNotLost
  BY <1>1, <1>2 DEF AcceptedNotLost, TokensCommand, AttestCommand
<1>4. QED
  BY <1>3, HandoffInvariantHolds, PTL

-----------------------------------------------------------------------------
(* The relay's promises that are about steps *)

\* What an effect of a command is at the relay.
LEMMA EffectLocks ==
  ASSUME HandoffInv, MadeOnce, IInv', NEW q \in Call, CallFits(q), TakesEffect(q)
  PROVE  MadeOnce' /\ Lock!Next /\ \A r \in Reservation : StepInWindow(r)
<1> DEFINE c == q.command.case
           key == RequestKey(q)
           v == q.handoff.remote
<1>1. /\ c \in Case /\ Reserved(c) \in Reservation /\ c \in Key /\ ItemOf[c] \in Item
      /\ LockInv /\ IInv
  BY CallTyped, CommandForms, ReservedTyped DEF HandoffInv, LockInv
<1>2. CASE q.command.op = "reserve"
  <2>1. Reserve(c, c, ItemOf[c], ItemVersion, q.expires) /\ q.expires \in Nat
    BY <1>2 DEF TakesEffect, RequestKey, CallFits, CommandFits
  <2>2. Reserve(c, c, ItemOf[c], SweptItems[ItemOf[c]].version, q.expires)
    BY <2>1 DEF Reserve
  <2>3. reservations[<<c, ItemOf[c], c>>] = None
    BY <1>1, <2>1, ReservedAnew
  <2> HIDE DEF c
  <2>4. QED BY <1>1, <2>1, <2>2, <2>3, ReserveLocks, ReserveInWindow
<1>3. CASE q.command.op = "tokens"
  <2>1. IssueCredentials(key, Reserved(c), v, q.expires) /\ q.expires \in Nat
    BY <1>3 DEF TakesEffect, AsksForItem, CallFits, CommandFits
  <2> HIDE DEF c, key, v
  <2>2. QED BY <1>1, <2>1, IssueLocks, IssueInWindow
<1>4. CASE q.command.op = "attest"
  <2>1. RecordAttestation(key, Reserved(c), v, q.command.role)
    BY <1>4 DEF TakesEffect, AsksForItem
  <2> HIDE DEF c, key, v
  <2>2. /\ Current(Reserved(c), v) /\ SweptReservations[Reserved(c)].status \in Live
        /\ Usable(Reserved(c)) /\ Meanwhile
        /\ Advance(Reserved(c), NextStatus(Reserved(c), q.command.role),
                   SweptReservations[Reserved(c)].tokens,
                   SweptReservations[Reserved(c)].attested \cup {q.command.role})
    BY <2>1 DEF RecordAttestation, Presentable, Live
  <2>4. \A r \in Reservation : StepInWindow(r)
    BY <1>1, <2>2, UseInWindow
  <2>3. QED BY <1>1, <2>1, <2>4, AttestLocks
<1>5. CASE q.command.op = "release"
  <2>1. FinalizeHandoff(key, Reserved(c), v)
    BY <1>5 DEF TakesEffect, AsksForItem
  <2> HIDE DEF c, key, v
  <2>2. /\ Current(Reserved(c), v) /\ SweptReservations[Reserved(c)].status \in Live
        /\ Usable(Reserved(c)) /\ Meanwhile
        /\ Advance(Reserved(c), "HANDOFF_ATTESTED", SweptReservations[Reserved(c)].tokens,
                   SweptReservations[Reserved(c)].attested)
    BY <2>1 DEF FinalizeHandoff, Live
  <2>3. \A r \in Reservation : StepInWindow(r)
    BY <1>1, <2>2, UseInWindow
  <2>4. QED BY <1>1, <2>1, <2>3, FinalizeLocks
<1>6. QED BY <1>2, <1>3, <1>4, <1>5, CallTyped, CommandForms

\* Every step of the composition takes effect at the relay, sweeps it, or does
\* not reach it.
LEMMA RelaySteps ==
  ASSUME HandoffInv, [HandoffNext]_all
  PROVE  (\E q \in Call : CallFits(q) /\ TakesEffect(q)) \/ Sweep \/ UNCHANGED vars
<1>1. ASSUME NEW h \in Handler, Answered(h) \/ AnswerLost(h) \/ NotDone(h)
      PROVE  (\E q \in Call : CallFits(q) /\ TakesEffect(q)) \/ Sweep \/ UNCHANGED vars
  <2>1. call[h].at = "calling" /\ (TakesEffect(call[h]) \/ Sweep \/ UNCHANGED vars)
    BY <1>1 DEF Answered, AnswerLost, NotDone
  <2>2. call[h].at \in Asked
    BY <2>1 DEF Asked
  <2>3. call[h] \in Call /\ CallFits(call[h])
    BY <2>2, CallOf
  <2>4. QED BY <2>1, <2>3
<1>2. CASE RelayRead
  BY <1>2 DEF RelayRead
<1>3. ASSUME NEW h \in Handler, NEW c \in Case, DeliverReserve(h, c) \/ DeliverRelease(h, c)
      PROVE  UNCHANGED vars
  BY <1>3 DEF DeliverReserve, DeliverRelease, Starts
<1>4. ASSUME NEW h \in Handler, NEW c \in Case, NEW k \in ClientKey,
             IssueTokens(h, c, k) \/ \E role \in Role : AttestToken(h, c, k, role)
      PROVE  UNCHANGED vars
  BY <1>4 DEF IssueTokens, AttestToken, Starts
<1>5. ASSUME NEW c \in Case, BeginRelease(c) \/ ReceiveCallback(c) PROVE UNCHANGED vars
  BY <1>5 DEF BeginRelease, ReceiveCallback
<1>6. ASSUME NEW h \in Handler,
             \/ ReadHandoff(h)
             \/ CommitReserve(h) \/ CommitRelease(h) \/ CommitTokens(h) \/ CommitAttestation(h)
             \/ Stop(h) \/ TellClient(h) \/ RequireReconciliation(h)
      PROVE  UNCHANGED vars
  BY <1>6 DEF ReadHandoff, CommitReserve, CommitRelease, CommitTokens, CommitAttestation, Stop,
              TellClient, RequireReconciliation
<1>7. CASE UNCHANGED all
  BY <1>7 DEF all
<1>8. QED BY <1>1, <1>2, <1>3, <1>4, <1>5, <1>6, <1>7 DEF HandoffNext

LEMMA RelayPromises ==
  HandoffInv /\ MadeOnce /\ [HandoffNext]_all =>
    /\ MadeOnce'
    /\ [Lock!Next]_(Lock!vars)
    /\ [\A r \in Reservation : StepInWindow(r)]_vars
<1> SUFFICES ASSUME HandoffInv, MadeOnce, [HandoffNext]_all
             PROVE  /\ MadeOnce'
                    /\ [Lock!Next]_(Lock!vars)
                    /\ [\A r \in Reservation : StepInWindow(r)]_vars
  OBVIOUS
<1>1. LockInv /\ IInv /\ IInv'
  BY HandoffNextKeeps DEF HandoffInv, LockInv
<1>2. CASE \E q \in Call : CallFits(q) /\ TakesEffect(q)
  BY <1>1, <1>2, EffectLocks
<1>3. CASE Sweep
  <2>1. \A r \in Reservation : StepInWindow(r)
    BY <1>1, <1>3, SweepInWindow DEF Sweep
  <2>2. QED BY <1>1, <1>3, <2>1, ReadLocks
<1>4. CASE UNCHANGED vars
  BY <1>1, <1>4, StillLocks
<1>5. QED BY <1>2, <1>3, <1>4, RelaySteps

\* With the custody service as its client the relay is still a lock of its items,
\* and no operation that begins after the end of a reservation, or of its
\* credentials, uses them (store.py, relay.py).
THEOREM RelayStaysLock == HandoffSpec => ItemsLocked /\ BegunInWindow
<1>1. HandoffInit => MadeOnce /\ Lock!Init
  BY LockInit DEF HandoffInit, LockInv
<1>2. QED
  BY <1>1, HandoffInitKeeps, HandoffNextKeeps, RelayPromises, PTL
     DEF HandoffSpec, ItemsLocked, Lock!Spec, BegunInWindow
=============================================================================
