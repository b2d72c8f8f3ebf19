----------------------------- MODULE RelayStore -----------------------------
(***************************************************************************)
(* Relay Post, the disclosed simulator (simulator/app/store.py): items,    *)
(* reservations, the credentials of a reservation and the idempotent       *)
(* responses.  Every operation runs under the store's lock and starts by   *)
(* giving up reservations whose time is over (_expire_locked).  It reads    *)
(* the clock again for each of its checks and for what it records: in a    *)
(* step, now is the reading of the sweep and now' the last one, and the    *)
(* checks read the clock somewhere between the two.                        *)
(*                                                                         *)
(* An operation is answered from its stored response, refused, or takes    *)
(* effect.  An answer from the store changes nothing, and a refusal        *)
(* changes what Sweep changes, so that both need no action of their own.   *)
(***************************************************************************)
EXTENDS Naturals, FiniteSets

CONSTANTS Item,
          Case,      \* the cases that ask for items
          Key,       \* idempotency keys of requests
          None,
          Second,    \* ticks of the clock in a second
          EndOfTime  \* bound: the clock stops here

ASSUME EndOfTimeAssumption == EndOfTime \in Nat
ASSUME SecondAssumption == Second \in Nat \ {0}

VARIABLES items,         \* status, holder and version of each item
          reservations,  \* the record of each reservation, or None
          answered,      \* idempotency_records: scope and fingerprint
          now            \* the simulator's clock

vars == <<items, reservations, answered, now>>

Role == {"CUSTODIAN", "CLAIMANT"}
Live == {"HELD", "TOKENS_ISSUED", "PARTIALLY_ATTESTED", "CALLBACK_READY"}
Status == Live \cup {"EXPIRED", "HANDOFF_ATTESTED"}

\* The id of a reservation is a digest of case, item and idempotency key.
Reservation == Case \X Item \X Key
Time == 0..EndOfTime

\* isoformat: a time is stored in whole seconds, the rest is cut off.
Floor(t) == t - (t % Second)

ItemRecord ==
  [status : {"AVAILABLE", "HELD", "RELEASED"}, holder : Reservation \cup {None},
   version : Nat]
ReservationRecord ==
  [status : Status, version : Nat, expires : Nat, tokens : Nat \cup {None},
   attested : SUBSET Role]

ASSUME NoneAssumption == None \notin Reservation \cup ReservationRecord \cup Nat

Init ==
  /\ items = [i \in Item |-> [status |-> "AVAILABLE", holder |-> None, version |-> 1]]
  /\ reservations = [r \in Reservation |-> None]
  /\ answered = {}
  /\ now = 0

IsLive(r) == reservations[r] # None /\ reservations[r].status \in Live

-----------------------------------------------------------------------------
(* _expire_locked *)

Lapsed(r) == IsLive(r) /\ reservations[r].expires <= now

Advanced(record, status, tokens, attested) ==
  [status |-> status, version |-> record.version + 1, expires |-> record.expires,
   tokens |-> tokens, attested |-> attested]

Expired(record) == Advanced(record, "EXPIRED", record.tokens, record.attested)

SweptReservations ==
  [r \in Reservation |-> IF Lapsed(r) THEN Expired(reservations[r]) ELSE reservations[r]]

SweptItems ==
  [i \in Item |->
     IF items[i].status = "HELD" /\ Lapsed(items[i].holder)
     THEN [status |-> "AVAILABLE", holder |-> None, version |-> items[i].version + 1]
     ELSE items[i]]

-----------------------------------------------------------------------------
(* Requests *)

\* Mutant: a repeated request is served again.
FreshAlways(scope) == TRUE

\* A request under a key of its scope that was answered before is a replay, or
\* refused when its body differs.
Fresh(scope) == \A a \in answered : a.scope # scope

Answer(scope, body) == answered' = answered \cup {[scope |-> scope, body |-> body]}

\* The last reading of the clock is not before the first.
Meanwhile == now' \in {t \in Time : now <= t}

\* A check that reads the clock on the way finds a stored end ahead.
Before(end) == \E checked \in now..now' : checked < end

\* Mutant: an item that is held may be reserved as long as it is not released.
ReservableHeld(i) == SweptItems[i].status # "RELEASED"

Reservable(i) == SweptItems[i].status = "AVAILABLE"

\* create_reservation: the end is compared as it is asked for and stored in whole
\* seconds, by which it may be over already.
Reserve(k, c, i, version, expires) ==
  LET r == <<c, i, k>>
  IN /\ Fresh(<<"reserve", k>>)
     /\ Meanwhile
     /\ SweptItems[i].version = version
     /\ Reservable(i)
     /\ expires > now'
     /\ items' = [SweptItems EXCEPT ![i] =
                    [status |-> "HELD", holder |-> r, version |-> version + 1]]
     /\ reservations' = [SweptReservations EXCEPT ![r] =
          [status |-> "HELD", version |-> 1, expires |-> Floor(expires),
           tokens |-> None, attested |-> {}]]
     /\ Answer(<<"reserve", k>>, <<c, i, version, expires>>)

\* Mutant: the version a request states is not compared.
CurrentUnversioned(r, version) ==
  /\ SweptReservations[r] # None
  /\ SweptReservations[r].status # "EXPIRED"

\* What the operations on a reservation have in common: it is not expired, and
\* the request states its version.
Current(r, version) ==
  /\ SweptReservations[r] # None
  /\ SweptReservations[r].status # "EXPIRED"
  /\ SweptReservations[r].version = version

Advance(r, status, tokens, attested) ==
  reservations' = [SweptReservations EXCEPT ![r] = Advanced(@, status, tokens, attested)]

\* issue_credentials: they may not outlive the reservation, and their end is
\* stored in whole seconds too.
IssueCredentials(k, r, version, expires) ==
  /\ Fresh(<<"credentials", k>>)
  /\ Meanwhile
  /\ Current(r, version)
  /\ SweptReservations[r].status = "HELD"
  /\ expires > now'
  /\ expires <= SweptReservations[r].expires
  /\ Advance(r, "TOKENS_ISSUED", Floor(expires), {})
  /\ items' = SweptItems
  /\ Answer(<<"credentials", k>>, <<r, version, expires>>)

\* Mutant: the window of the credentials is not checked.
UsableAlways(r) == SweptReservations[r].tokens # None

\* The credentials of the reservation are issued and their window is open as they
\* are checked; it may close before the presentation is recorded.
Usable(r) ==
  /\ SweptReservations[r].tokens # None
  /\ Before(SweptReservations[r].tokens)

Presentable(r, role) ==
  /\ role \notin SweptReservations[r].attested
  /\ SweptReservations[r].status \in {"TOKENS_ISSUED", "PARTIALLY_ATTESTED"}

\* Mutants: one presentation is enough; a status the model does not declare.
NextStatusEarly(r, role) == "CALLBACK_READY"
NextStatusUndeclared(r, role) == "ATTESTED"

NextStatus(r, role) ==
  IF SweptReservations[r].attested \cup {role} = Role
  THEN "CALLBACK_READY" ELSE "PARTIALLY_ATTESTED"

\* record_attestation
RecordAttestation(k, r, version, role) ==
  /\ Fresh(<<"attestation", k>>)
  /\ Meanwhile
  /\ Current(r, version)
  /\ Presentable(r, role)
  /\ Usable(r)
  /\ Advance(r, NextStatus(r, role), SweptReservations[r].tokens,
             SweptReservations[r].attested \cup {role})
  /\ items' = SweptItems
  /\ Answer(<<"attestation", k>>, <<r, version, role>>)

\* finalize_handoff_attestation
FinalizeHandoff(k, r, version) ==
  LET i == r[2]
  IN /\ Fresh(<<"handoff", k>>)
     /\ Meanwhile
     /\ Current(r, version)
     /\ SweptReservations[r].status = "CALLBACK_READY"
     /\ Before(SweptReservations[r].expires)
     /\ Usable(r)
     /\ SweptItems[i].status = "HELD"
     /\ SweptItems[i].holder = r
     /\ Advance(r, "HANDOFF_ATTESTED", SweptReservations[r].tokens,
                SweptReservations[r].attested)
     /\ items' = [SweptItems EXCEPT ![i] =
                    [status |-> "RELEASED", holder |-> r, version |-> @.version + 1]]
     /\ Answer(<<"handoff", k>>, <<r, version>>)

\* A read, or a request that is refused.
Sweep ==
  /\ items' = SweptItems
  /\ reservations' = SweptReservations
  /\ Meanwhile
  /\ UNCHANGED answered

\* A request that takes effect states the present version.  The terminals of the
\* two roles choose their keys apart.
Request(k, r) ==
  /\ reservations[r] # None
  /\ \/ \E expires \in Time : IssueCredentials(k, r, SweptReservations[r].version, expires)
     \/ \E role \in Role :
          RecordAttestation(<<k, role>>, r, SweptReservations[r].version, role)
     \/ FinalizeHandoff(k, r, SweptReservations[r].version)

Next ==
  \/ \E k \in Key, c \in Case, i \in Item, expires \in Time :
       Reserve(k, c, i, SweptItems[i].version, expires)
  \/ \E k \in Key, r \in Reservation : Request(k, r)
  \/ Sweep

Spec == Init /\ [][Next]_vars

-----------------------------------------------------------------------------
(* Properties *)

TypeOK ==
  /\ items \in [Item -> ItemRecord]
  /\ reservations \in [Reservation -> ReservationRecord \cup {None}]
  /\ now \in Time

\* Items and reservations agree on who holds what.
Consistent(is, rs) ==
  /\ \A i \in Item :
       /\ is[i].status = "AVAILABLE" <=> is[i].holder = None
       /\ is[i].holder # None =>
            /\ is[i].holder[2] = i
            /\ rs[is[i].holder] # None
            /\ is[i].status = "HELD" => rs[is[i].holder].status \in Live
            /\ is[i].status = "RELEASED" => rs[is[i].holder].status = "HANDOFF_ATTESTED"
  /\ \A r \in Reservation :
       rs[r] # None /\ rs[r].status # "EXPIRED" => is[r[2]].holder = r

\* An item is held exactly for the one reservation on it that is live, and what
\* became of the item is what became of its last reservation: no other case can
\* hold it, and no reservation is taken for one that holds an item it does not.
HoldIsLive == Consistent(items, reservations)

\* The status of a reservation says which roles presented their credentials.
RecordInOrder(record) ==
  /\ record.status \in {"CALLBACK_READY", "HANDOFF_ATTESTED"} => record.attested = Role
  /\ record.status \in {"HELD", "TOKENS_ISSUED"} => record.attested = {}
  /\ record.status = "PARTIALLY_ATTESTED" => \E role \in Role : record.attested = {role}
  /\ record.status = "HELD" => record.tokens = None
  /\ record.tokens # None => record.tokens <= record.expires

\* A handoff is attested only on two different roles, each counted once, and the
\* credentials never outlive the reservation they belong to.
BothRolesPresented ==
  \A r \in Reservation : reservations[r] # None => RecordInOrder(reservations[r])

\* An end that is stored now lies ahead, or is over by the fraction of a second
\* that was cut off.
NewEnd(end) == now' < end + Second

\* What a step does to a reservation: nothing, or it makes it, or it gives up one
\* whose time is over, or its operation began before the end of the reservation and
\* of the credentials it has.
StepInWindow(r) ==
  \/ reservations'[r] = reservations[r]
  \/ reservations[r] = None /\ NewEnd(reservations'[r].expires)
  \/ reservations'[r].status = "EXPIRED" /\ reservations[r].expires <= now
  \/ /\ now < reservations[r].expires
     /\ IF reservations[r].tokens = None THEN NewEnd(reservations'[r].tokens)
        ELSE now < reservations[r].tokens

\* No operation that begins at or after the stored end of a reservation, or of its
\* credentials, presents a credential or hands the item over, and no reservation
\* is given up before its end, although the store sweeps only when it is asked.
\* What an operation records may lie behind the end, when the clock passes it
\* between the check and the effect, and an end that was cut to the second may be
\* over as it is stored: such a reservation can only be given up.
BegunInWindow == [][\A r \in Reservation : StepInWindow(r)]_vars

\* A store that sweeps lazily, answers repeats from memory and serves several
\* cases is a lock of its items.
HeldFor == [i \in Item |-> IF \E r \in Reservation : r[2] = i /\ IsLive(r)
                           THEN CHOOSE r \in Reservation : r[2] = i /\ IsLive(r)
                           ELSE None]
ReleasedTo == [i \in Item |-> IF items[i].status = "RELEASED" THEN items[i].holder ELSE None]
Over == {r \in Reservation : reservations[r] # None /\ ~IsLive(r)}

Lock == INSTANCE ItemLock WITH held <- HeldFor, released <- ReleasedTo, over <- Over,
                               Free <- None
ItemsLocked == Lock!Spec
=============================================================================
