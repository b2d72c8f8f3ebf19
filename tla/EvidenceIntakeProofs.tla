------------------------- MODULE EvidenceIntakeProofs -------------------------
(***************************************************************************)
(* Theorems about EvidenceIntake, for any clients, keys and files and any  *)
(* number of requests that stop.                                           *)
(***************************************************************************)
EXTENDS EvidenceIntake, TLAPS

-----------------------------------------------------------------------------
(* The inductive invariant *)

\* A preview is stored after its original, by an upload that found the original
\* to be of its own command.
StoreFits ==
  \A k \in Key : records[k]["preview"] # None =>
    /\ records[k]["original"] # None
    /\ records[k]["original"].fp = records[k]["preview"].fp

\* How far the case is tells which of its fields are set; that of an armed case is
\* frozen and requested by one pair.
CaseFits ==
  /\ case.frozen = None <=> case.state = "RECEIVED"
  /\ case.requested = None <=> case.state \in {"RECEIVED", "EVIDENCE_READY"}
  /\ case.armed => case.by = case.frozen /\ case.requested \in {None, case.frozen}

\* What an upload knows before it stores its preview.
UploadFits(c, q) ==
  q.pc = "preview" =>
    /\ records[command[c].key]["original"] # None
    /\ records[command[c].key]["original"].fp = Fingerprint(c)

\* What an automatic start knows in begin_analysis.
StartFits(c, q) ==
  LET k == command[c].key
  IN /\ q.pc \in {"begin", "ready", "reread", "analyzing", "job"} =>
          case.armed /\ Authorized(k)
     /\ q.pc \in {"begin", "ready"} => q.refs = PairOf(k)
     /\ q.pc \in {"reread", "analyzing", "job"} => case.frozen = PairOf(k)

\* Why two rounds fail at most: the first because the case was received no longer,
\* the second because it was analyzed meanwhile, and then there is no third.
RoundsFit(c, q) ==
  /\ q.pc # "stale"
  /\ q.expected = "RECEIVED"
  /\ q.tries <= 2
  /\ q.tries > 0 => case.state # "RECEIVED"
  /\ q.pc \in {"original", "preview", "ready"} => q.tries = 0
  /\ q.pc = "begin" /\ q.tries > 0 => q.tries = 1 /\ OwnsStart(c)
  /\ q.pc = "attempt" /\ q.tries = 2 => case.state = "ANALYZED"

ClientFits(c, q) == UploadFits(c, q) /\ StartFits(c, q) /\ RoundsFit(c, q)

\* Staff start the analysis of unarmed cases only, on a pair that is authorized.
StaffFits(q) ==
  /\ q.pc \in {"ready", "reread", "analyzing", "job"} => ~case.armed
  /\ q.pc = "ready" => \E k \in Key : Authorized(k) /\ q.refs = PairOf(k)

IInv ==
  /\ TypeOK /\ StoreFits /\ CaseFits /\ FrozenPairStands
  /\ \A c \in Client : ClientFits(c, request[c])
  /\ StaffFits(request[Staff])

-----------------------------------------------------------------------------
(* Types *)

CommandType == [Client -> [key : Key, image : Image, consent : BOOLEAN]]
StoreType == [Key -> [Role -> Record \cup {None}]]
CaseType ==
  [state : {"RECEIVED", "EVIDENCE_READY", "ANALYZING", "ANALYZED"},
   armed : BOOLEAN, frozen : Pair \cup {None},
   by : Pair \cup {None, Staff}, requested : Pair \cup {None, Staff}]

LEMMA TypeParts ==
  ASSUME TypeOK
  PROVE  /\ command \in CommandType /\ records \in StoreType /\ case \in CaseType
         /\ request \in [Requester -> Request]
         /\ sent \in Pair \cup {None} /\ clock \in Nat /\ stops \in 0..MaxStops
  BY DEF TypeOK, CommandType, StoreType, CaseType

LEMMA TypesNext ==
  ASSUME command' \in CommandType, records' \in StoreType, case' \in CaseType,
         request' \in [Requester -> Request],
         sent' \in Pair \cup {None}, clock' \in Nat, stops' \in 0..MaxStops
  PROVE  TypeOK'
  BY DEF TypeOK, CommandType, StoreType, CaseType

LEMMA RequesterIs ==
  /\ Staff \in Requester
  /\ \A c \in Client : c \in Requester /\ c # Staff
  /\ \A x \in Requester : x # Staff => x \in Client
  BY StaffAssumption DEF Requester

LEMMA CommandTyped ==
  ASSUME TypeOK, NEW c \in Client
  PROVE  /\ command[c].key \in Key
         /\ Fingerprint(c) \in [image : Image, consent : BOOLEAN]
  BY DEF TypeOK, Fingerprint

LEMMA RequestTyped ==
  ASSUME TypeOK, NEW x \in Requester
  PROVE  /\ request[x] \in Request
         /\ request[x].stamp \in Nat /\ request[x].tries \in 0..3
         /\ request[x].refs \in Pair \cup {None}
         /\ request[x].expected \in {"RECEIVED", "EVIDENCE_READY"}
  BY DEF TypeOK, Request, MaxTries

\* A request at another point of the code, with or without another field changed.
At(q, pc) == [q EXCEPT !.pc = pc]
AtWith(q, pc, refs) == [q EXCEPT !.pc = pc, !.refs = refs]
Tried(q) == [q EXCEPT !.pc = "attempt", !.tries = q.tries + 1]

LEMMA PointTyped ==
  ASSUME NEW q \in Request,
         NEW pc \in {"idle", "original", "preview", "conflict", "attempt", "answered",
                     "begin", "ready", "reread", "analyzing", "job", "failed", "stale"}
  PROVE  /\ At(q, pc) \in Request
         /\ At(q, pc).pc = pc /\ At(q, pc).tries = q.tries /\ At(q, pc).refs = q.refs
         /\ At(q, pc).expected = q.expected
  BY DEF Request, At

LEMMA RefsTyped ==
  ASSUME NEW q \in Request, NEW pc \in {"begin", "ready"}, NEW refs \in Pair
  PROVE  /\ AtWith(q, pc, refs) \in Request
         /\ AtWith(q, pc, refs).pc = pc /\ AtWith(q, pc, refs).tries = q.tries
         /\ AtWith(q, pc, refs).refs = refs /\ AtWith(q, pc, refs).expected = q.expected
  BY DEF Request, AtWith

LEMMA TriedTyped ==
  ASSUME NEW q \in Request, q.tries <= 2
  PROVE  /\ Tried(q) \in Request
         /\ Tried(q).pc = "attempt" /\ Tried(q).tries = q.tries + 1
         /\ Tried(q).expected = q.expected
<1>1. PICK tries \in 0..MaxTries : tries = q.tries + 1
  BY DEF Request, MaxTries
<1>2. LET to == [q EXCEPT !.pc = "attempt", !.tries = tries]
      IN to \in Request /\ to.pc = "attempt" /\ to.tries = tries
         /\ to.expected = q.expected
  BY DEF Request
<1> QED
  BY <1>1, <1>2 DEF Tried

LEMMA FreshTyped ==
  ASSUME NEW pc \in {"idle", "original", "begin"}, NEW stamp \in Nat,
         NEW expected \in {"RECEIVED", "EVIDENCE_READY"}
  PROVE  /\ Fresh(pc, stamp, expected) \in Request
         /\ Fresh(pc, stamp, expected).pc = pc /\ Fresh(pc, stamp, expected).tries = 0
         /\ Fresh(pc, stamp, expected).expected = expected
  BY DEF Request, MaxTries, Fresh

LEMMA IdleTyped ==
  /\ Idle \in Request /\ Idle.pc = "idle" /\ Idle.tries = 0
  /\ Idle.expected = "RECEIVED"
  BY FreshTyped DEF Idle

LEMMA PairTyped ==
  ASSUME TypeOK, NEW k \in Key, records[k]["original"] # None
  PROVE  PairOf(k) \in Pair /\ PairOf(k).key = k /\ PairOf(k) # None /\ PairOf(k) # Staff
<1>1. records[k]["original"] \in Record
  BY DEF TypeOK, Role
<1>2. PairOf(k) \in Pair /\ PairOf(k).key = k
  BY <1>1 DEF PairOf, Pair, Record
<1> QED
  BY <1>2, NoneAssumption, StaffAssumption

LEMMA AuthorizedTyped ==
  ASSUME TypeOK, NEW k \in Key, Authorized(k)
  PROVE  PairOf(k) \in Pair /\ PairOf(k).key = k /\ PairOf(k) # None /\ PairOf(k) # Staff
  BY PairTyped DEF Authorized, OnePair

LEMMA BaseKeyIs ==
  /\ BaseKey(Staff) = Staff
  /\ \A c \in Client : BaseKey(c) = PairOf(command[c].key)
  BY RequesterIs DEF BaseKey

-----------------------------------------------------------------------------
(* What every step keeps *)

RecordsStay ==
  \A k \in Key, r \in Role : records[k][r] # None => records'[k][r] = records[k][r]

CaseStays ==
  /\ case'.armed = case.armed
  /\ case.frozen # None => case'.frozen = case.frozen /\ case'.by = case.by
  /\ case.state # "RECEIVED" => case'.state # "RECEIVED"
  /\ case.state = "ANALYZED" => case'.state = "ANALYZED"

LEMMA PairStays ==
  ASSUME RecordsStay, NEW k \in Key, Authorized(k)
  PROVE  /\ Authorized(k)' /\ PairOf(k)' = PairOf(k)
<1>1. records[k]["original"] # None /\ records[k]["preview"] # None
  BY DEF Authorized, OnePair
<1>2. /\ records'[k]["original"] = records[k]["original"]
      /\ records'[k]["preview"] = records[k]["preview"]
  BY <1>1 DEF RecordsStay, Role
<1> QED
  BY <1>2 DEF Authorized, OnePair, PairOf

LEMMA FrozenStays ==
  ASSUME TypeOK, RecordsStay, FrozenPairStands,
         case'.frozen # None => \/ case'.frozen = case.frozen
                               \/ \E k \in Key : Authorized(k) /\ case'.frozen = PairOf(k)
  PROVE  FrozenPairStands'
<1> SUFFICES ASSUME case'.frozen # None
             PROVE  \E k \in Key : k = case'.frozen.key /\ Authorized(k)' /\ PairOf(k)' = case'.frozen
  BY DEF FrozenPairStands
<1>1. CASE case'.frozen = case.frozen
  <2>1. case.frozen \in Pair
    BY <1>1 DEF TypeOK
  <2>2. case.frozen.key \in Key /\ Authorized(case.frozen.key) /\ PairOf(case.frozen.key) = case.frozen
    BY <1>1, <2>1 DEF FrozenPairStands, Pair
  <2>3. PICK k \in Key : k = case.frozen.key /\ Authorized(k) /\ PairOf(k) = case.frozen
    BY <2>2
  <2> QED
    BY <1>1, <2>3, PairStays
<1>2. CASE \E k \in Key : Authorized(k) /\ case'.frozen = PairOf(k)
  <2>1. PICK k \in Key : Authorized(k) /\ case'.frozen = PairOf(k)
    BY <1>2
  <2>2. k = case'.frozen.key
    BY <2>1, AuthorizedTyped
  <2> QED
    BY <2>1, <2>2, PairStays
<1> QED
  BY <1>1, <1>2

\* What a client's request knows stays true while it waits.
LEMMA ClientStays ==
  ASSUME TypeOK, CaseFits, RecordsStay, CaseStays, UNCHANGED command,
         NEW c \in Client, NEW q \in Request, ClientFits(c, q)
  PROVE  ClientFits(c, q)'
<1>1. PICK k \in Key : k = command[c].key
  BY CommandTyped
<1>2. UploadFits(c, q)'
  <2>1. records[k]["original"] # None => records'[k]["original"] = records[k]["original"]
    BY DEF RecordsStay, Role
  <2> QED
    BY <1>1, <2>1 DEF ClientFits, UploadFits, Fingerprint
<1>3. StartFits(c, q)'
  <2>1. ASSUME q.pc \in {"begin", "ready", "reread", "analyzing", "job"}
        PROVE  /\ case'.armed /\ Authorized(k)'
               /\ q.pc \in {"begin", "ready"} => q.refs = PairOf(k)'
               /\ q.pc \in {"reread", "analyzing", "job"} => case'.frozen = PairOf(k)'
    <3>1. /\ case.armed /\ Authorized(k)
          /\ q.pc \in {"begin", "ready"} => q.refs = PairOf(k)
          /\ q.pc \in {"reread", "analyzing", "job"} => case.frozen = PairOf(k)
      BY <1>1, <2>1 DEF ClientFits, StartFits
    <3>2. Authorized(k)' /\ PairOf(k)' = PairOf(k) /\ PairOf(k) # None
      BY <3>1, PairStays, AuthorizedTyped
    <3> QED
      BY <3>1, <3>2 DEF CaseStays
  <2> QED
    BY <1>1, <2>1 DEF StartFits
<1>4. RoundsFit(c, q)'
  <2>1. ASSUME q.pc = "begin", q.tries > 0
        PROVE  OwnsStart(c)'
    <3>1. OwnsStart(c) /\ Authorized(k)
      BY <1>1, <2>1 DEF ClientFits, RoundsFit, StartFits
    <3>2. PairOf(k)' = PairOf(k) /\ PairOf(k) # None
      BY <3>1, PairStays, AuthorizedTyped
    <3>3. case.by = PairOf(k) /\ case.frozen = PairOf(k)
      BY <1>1, <3>1, BaseKeyIs DEF OwnsStart
    <3>4. case'.by = PairOf(k)' /\ case'.frozen = PairOf(k)'
      BY <3>2, <3>3 DEF CaseStays
    <3> QED
      BY <1>1, <3>4, RequesterIs DEF OwnsStart, BaseKey
  <2> QED
    BY <2>1 DEF ClientFits, RoundsFit, CaseStays
<1> QED
  BY <1>2, <1>3, <1>4 DEF ClientFits

LEMMA StaffStays ==
  ASSUME RecordsStay, CaseStays, NEW q \in Request, StaffFits(q)
  PROVE  StaffFits(q)'
  BY PairStays DEF StaffFits, CaseStays

\* A step of a request accounts for that request and the case it leaves.
LEMMA RequestGoes ==
  ASSUME IInv, NEW x \in Requester, NEW to \in Request,
         request' = [request EXCEPT ![x] = to], UNCHANGED command,
         records' \in StoreType, case' \in CaseType,
         sent' \in Pair \cup {None}, clock' \in Nat, stops' \in 0..MaxStops,
         RecordsStay, CaseStays, StoreFits', CaseFits', FrozenPairStands',
         x # Staff => ClientFits(x, to)',
         x = Staff => StaffFits(to)'
  PROVE  IInv'
<1>1. TypeOK /\ CaseFits /\ StaffFits(request[Staff])
  BY DEF IInv
<1>2. request' \in [Requester -> Request]
  BY <1>1 DEF TypeOK
<1>3. TypeOK'
  BY <1>1, <1>2, TypeParts, TypesNext
<1>4. request'[x] = to /\ \A y \in Requester : y # x => request'[y] = request[y]
  BY <1>1 DEF TypeOK
<1>5. ASSUME NEW c \in Client
      PROVE  ClientFits(c, request[c])'
  <2>1. CASE c = x
    BY <1>4, <2>1, RequesterIs DEF ClientFits, UploadFits, StartFits, RoundsFit
  <2>2. CASE c # x
    <3>1. PICK q \in Request : q = request[c]
      BY <1>1, RequesterIs, RequestTyped
    <3>2. ClientFits(c, q)
      BY <3>1 DEF IInv
    <3>3. ClientFits(c, q)'
      BY <1>1, <3>2, ClientStays
    <3>4. request'[c] = q
      BY <1>4, <2>2, <3>1, RequesterIs
    <3> QED
      BY <3>3, <3>4 DEF ClientFits, UploadFits, StartFits, RoundsFit
  <2> QED
    BY <2>1, <2>2
<1>6. StaffFits(request[Staff])'
  <2>1. CASE x = Staff
    BY <1>4, <2>1 DEF StaffFits
  <2>2. CASE x # Staff
    <3>1. PICK q \in Request : q = request[Staff]
      BY <1>1, RequesterIs, RequestTyped
    <3>2. StaffFits(q)'
      BY <1>1, <3>1, StaffStays
    <3>3. request'[Staff] = q
      BY <1>4, <2>2, <3>1, RequesterIs
    <3> QED
      BY <3>2, <3>3 DEF StaffFits
  <2> QED
    BY <2>1, <2>2
<1> QED
  BY <1>3, <1>5, <1>6 DEF IInv

\* The same for a step that stores nothing.
LEMMA NothingStored ==
  ASSUME IInv, UNCHANGED <<records, case>>
  PROVE  /\ RecordsStay /\ CaseStays /\ StoreFits' /\ CaseFits' /\ FrozenPairStands'
         /\ records' \in StoreType /\ case' \in CaseType
  BY TypeParts DEF IInv, RecordsStay, CaseStays, StoreFits, CaseFits, FrozenPairStands,
                   Authorized, OnePair, PairOf

LEMMA OnlyRequestGoes ==
  ASSUME IInv, NEW x \in Requester, NEW to \in Request,
         request' = [request EXCEPT ![x] = to], UNCHANGED <<command, records, case, sent>>,
         clock' \in Nat, stops' \in 0..MaxStops,
         x # Staff => ClientFits(x, to),
         x = Staff => StaffFits(to)
  PROVE  IInv'
<1>1. /\ RecordsStay /\ CaseStays /\ StoreFits' /\ CaseFits' /\ FrozenPairStands'
      /\ records' \in StoreType /\ case' \in CaseType
  BY NothingStored
<1>2. TypeOK /\ CaseFits /\ sent' \in Pair \cup {None}
  BY DEF IInv, TypeOK
<1>3. x # Staff => ClientFits(x, to)'
  BY <1>1, <1>2, RequesterIs, ClientStays
<1>4. x = Staff => StaffFits(to)'
  BY <1>1, StaffStays
<1> QED
  BY <1>1, <1>2, <1>3, <1>4, RequestGoes

-----------------------------------------------------------------------------
(* Points of the code *)

LEMMA IdleFits ==
  /\ \A c \in Client : ClientFits(c, Idle)
  /\ StaffFits(Idle)
  BY IdleTyped DEF ClientFits, UploadFits, StartFits, RoundsFit, StaffFits

LEMMA GoesIdle ==
  ASSUME IInv, NEW x \in Requester, request' = [request EXCEPT ![x] = Idle],
         UNCHANGED <<command, records, case, sent>>, clock' \in Nat, stops' \in 0..MaxStops
  PROVE  IInv'
<1>1. PICK to \in Request : to = Idle
  BY IdleTyped
<1>2. /\ request' = [request EXCEPT ![x] = to]
      /\ x # Staff => ClientFits(x, to)
      /\ x = Staff => StaffFits(to)
  BY <1>1, IdleFits, RequesterIs
<1> QED
  BY <1>2, OnlyRequestGoes

\* What the present point of a request tells about it, in any step.
LEMMA ClientIs ==
  ASSUME IInv, NEW c \in Client
  PROVE  /\ TypeOK /\ request[c] \in Request /\ ClientFits(c, request[c])
         /\ request[c].tries \in 0..2 /\ request[c].expected = "RECEIVED"
         /\ request[c].refs \in Pair \cup {None} /\ request[c].stamp \in Nat
         /\ clock \in Nat /\ stops \in 0..MaxStops /\ sent \in Pair \cup {None}
<1>1. TypeOK /\ ClientFits(c, request[c])
  BY DEF IInv
<1>2. request[c] \in Request /\ request[c].tries \in 0..3 /\ request[c].stamp \in Nat
      /\ request[c].refs \in Pair \cup {None}
  BY <1>1, RequesterIs, RequestTyped
<1>3. request[c].tries <= 2 /\ request[c].expected = "RECEIVED"
  BY <1>1 DEF ClientFits, RoundsFit
<1>4. clock \in Nat /\ stops \in 0..MaxStops /\ sent \in Pair \cup {None}
  BY <1>1 DEF TypeOK
<1> QED
  BY <1>1, <1>2, <1>3, <1>4

\* A client's request moves on to a point at which little is known, or one in the
\* course of the start of the pair it owns.
LEMMA ClientGoes ==
  ASSUME IInv, NEW c \in Client,
         NEW pc \in {"preview", "conflict", "answered", "ready", "reread", "analyzing", "job",
                     "failed"},
         Goto(c, pc), UNCHANGED <<command, records, case, sent, clock, stops>>,
         pc = "preview" => UploadFits(c, At(request[c], pc)),
         pc \in {"preview", "ready"} => request[c].tries = 0,
         pc \in {"ready", "reread", "analyzing", "job"} =>
           case.armed /\ Authorized(command[c].key),
         pc = "ready" => request[c].refs = PairOf(command[c].key),
         pc \in {"reread", "analyzing", "job"} => case.frozen = PairOf(command[c].key)
  PROVE  IInv'
<1>1. /\ request[c] \in Request /\ ClientFits(c, request[c])
      /\ clock \in Nat /\ stops \in 0..MaxStops
  BY ClientIs
<1>2. PICK to \in Request :
        /\ to = At(request[c], pc)
        /\ to.pc = pc /\ to.tries = request[c].tries /\ to.refs = request[c].refs
        /\ to.expected = request[c].expected
  BY <1>1, PointTyped
<1>3. request' = [request EXCEPT ![c] = to]
  BY <1>2 DEF Goto, At
<1>4. UploadFits(c, to)
  <2>1. CASE pc = "preview"
    BY <1>2, <2>1 DEF UploadFits
  <2>2. CASE pc # "preview"
    BY <1>2, <2>2 DEF UploadFits
  <2> QED
    BY <2>1, <2>2
<1>5. StartFits(c, to)
  BY <1>2 DEF StartFits
<1>6. RoundsFit(c, to)
  BY <1>1, <1>2 DEF ClientFits, RoundsFit
<1> QED
  BY <1>1, <1>3, <1>4, <1>5, <1>6, RequesterIs, OnlyRequestGoes DEF ClientFits

\* A round of the automatic start that found the case changed.
LEMMA ClientOutdated ==
  ASSUME IInv, NEW c \in Client, Outdated(c),
         UNCHANGED <<command, records, case, sent, clock, stops>>,
         case.state # "RECEIVED", request[c].tries <= 1,
         request[c].tries = 1 => case.state = "ANALYZED"
  PROVE  IInv'
<1>1. /\ request[c] \in Request /\ ClientFits(c, request[c])
      /\ request[c].tries \in 0..2 /\ request[c].expected = "RECEIVED"
      /\ clock \in Nat /\ stops \in 0..MaxStops
  BY ClientIs
<1>2. PICK to \in Request :
        /\ to = Tried(request[c])
        /\ to.pc = "attempt" /\ to.tries = request[c].tries + 1
        /\ to.expected = request[c].expected
  BY <1>1, TriedTyped
<1>3. request' = [request EXCEPT ![c] = to]
  BY <1>2, RequesterIs DEF Outdated, Tried
<1>4. ClientFits(c, to)
  BY <1>1, <1>2 DEF ClientFits, UploadFits, StartFits, RoundsFit
<1> QED
  BY <1>1, <1>3, <1>4, RequesterIs, OnlyRequestGoes

LEMMA StaffIs ==
  ASSUME IInv
  PROVE  /\ TypeOK /\ Staff \in Requester
         /\ request[Staff] \in Request /\ StaffFits(request[Staff])
         /\ clock \in Nat /\ stops \in 0..MaxStops /\ sent \in Pair \cup {None}
  BY RequesterIs, RequestTyped DEF IInv, TypeOK

LEMMA StaffGoes ==
  ASSUME IInv, NEW pc \in {"reread", "analyzing", "job", "failed"}, Goto(Staff, pc),
         UNCHANGED <<command, records, case, sent, clock, stops>>, ~case.armed
  PROVE  IInv'
<1>1. /\ request[Staff] \in Request /\ Staff \in Requester
      /\ clock \in Nat /\ stops \in 0..MaxStops
  BY StaffIs
<1>2. PICK to \in Request : to = At(request[Staff], pc) /\ to.pc = pc
  BY <1>1, PointTyped
<1>3. request' = [request EXCEPT ![Staff] = to]
  BY <1>2 DEF Goto, At
<1>4. StaffFits(to)
  BY <1>2 DEF StaffFits
<1> QED
  BY <1>1, <1>3, <1>4, OnlyRequestGoes

LEMMA StaffOutdated ==
  ASSUME IInv, Outdated(Staff), UNCHANGED <<command, records, case, sent, clock, stops>>
  PROVE  IInv'
<1>1. request' = [request EXCEPT ![Staff] = Idle]
  BY DEF Outdated
<1> QED
  BY <1>1, StaffIs, GoesIdle

-----------------------------------------------------------------------------
(* Uploads *)

LEMMA StartUploadKeeps ==
  ASSUME IInv, NEW c \in Client, StartUpload(c)
  PROVE  IInv'
<1>1. clock \in Nat /\ stops \in 0..MaxStops
  BY ClientIs
<1>2. PICK to \in Request :
        /\ to = Fresh("original", clock, "RECEIVED")
        /\ to.pc = "original" /\ to.tries = 0 /\ to.expected = "RECEIVED"
  BY <1>1, FreshTyped
<1>3. request' = [request EXCEPT ![c] = to]
  BY <1>2 DEF StartUpload
<1>4. ClientFits(c, to)
  BY <1>2 DEF ClientFits, UploadFits, StartFits, RoundsFit
<1>5. UNCHANGED <<command, records, case, sent>> /\ clock' \in Nat /\ stops' \in 0..MaxStops
  BY <1>1 DEF StartUpload
<1> QED
  BY <1>3, <1>4, <1>5, RequesterIs, OnlyRequestGoes

\* A half is stored where there was none.
LEMMA HalfStored ==
  ASSUME IInv, NEW k \in Key, NEW role \in Role, NEW half \in Record, records[k][role] = None,
         records' = [records EXCEPT ![k] = [records[k] EXCEPT ![role] = half]]
  PROVE  /\ records' \in StoreType /\ RecordsStay
         /\ records'[k][role] = half /\ half # None
         /\ \A j \in Key, r \in Role : j # k \/ r # role => records'[j][r] = records[j][r]
<1>1. TypeOK
  BY DEF IInv
<1>3. half # None
  BY NoneAssumption
<1>4. records \in StoreType
  BY <1>1, TypeParts
<1>5. [records[k] EXCEPT ![role] = half] \in [Role -> Record \cup {None}]
  BY <1>4 DEF StoreType
<1>6. records' \in StoreType
  BY <1>4, <1>5 DEF StoreType
<1>7. /\ records'[k] = [records[k] EXCEPT ![role] = half]
      /\ \A j \in Key : j # k => records'[j] = records[j]
  BY <1>4 DEF StoreType
<1>8. /\ records'[k][role] = half
      /\ \A j \in Key, r \in Role : j # k \/ r # role => records'[j][r] = records[j][r]
  BY <1>4, <1>7 DEF StoreType
<1>9. RecordsStay
  BY <1>8 DEF RecordsStay
<1> QED
  BY <1>3, <1>6, <1>8, <1>9

LEMMA PutKeeps ==
  ASSUME IInv, NEW c \in Client, NEW role \in Role, NEW next, Put(c, role, next),
         UNCHANGED <<command, case, sent, clock, stops>>,
         \/ role = "original" /\ next = "preview" /\ request[c].pc = "original"
         \/ role = "preview" /\ next \in {"attempt", "answered"} /\ request[c].pc = "preview"
  PROVE  IInv'
<1>1. /\ TypeOK /\ request[c] \in Request /\ ClientFits(c, request[c])
      /\ clock \in Nat /\ stops \in 0..MaxStops /\ sent \in Pair \cup {None}
      /\ StoreFits /\ CaseFits /\ FrozenPairStands
  BY ClientIs DEF IInv
<1>2. PICK k \in Key : k = command[c].key
  BY <1>1, CommandTyped
<1>3. request[c].tries = 0 /\ request[c].expected = "RECEIVED"
  BY <1>1 DEF ClientFits, RoundsFit
<1>4. ASSUME NEW to \in Request, to.pc \in {"attempt", "answered", "conflict"},
             to.tries = 0, to.expected = "RECEIVED"
      PROVE  ClientFits(c, to) /\ ClientFits(c, to)'
  BY <1>4 DEF ClientFits, UploadFits, StartFits, RoundsFit
<1>5. CASE /\ records[k][role] = None
           /\ records' = [records EXCEPT ![k] = [records[k] EXCEPT ![role] =
                           [fp |-> Fingerprint(c), stamp |-> request[c].stamp]]]
           /\ Goto(c, next)
  <2>1. PICK half \in Record : /\ half = [fp |-> Fingerprint(c), stamp |-> request[c].stamp]
                              /\ half.fp = Fingerprint(c)
    <3>1. /\ Fingerprint(c) \in [image : Image, consent : BOOLEAN]
          /\ request[c].stamp \in Nat
      BY <1>1, ClientIs, CommandTyped
    <3>2. [fp |-> Fingerprint(c), stamp |-> request[c].stamp] \in Record
      BY <3>1 DEF Record
    <3> QED
      BY <3>2
  <2>2. /\ records' \in StoreType /\ RecordsStay
        /\ records'[k][role] = half /\ half # None /\ half.fp = Fingerprint(c)
        /\ \A j \in Key, r \in Role : j # k \/ r # role => records'[j][r] = records[j][r]
    <3>1. records' = [records EXCEPT ![k] = [records[k] EXCEPT ![role] = half]]
      BY <1>5, <2>1
    <3>2. k = command[c].key /\ records[k][role] = None /\ half.fp = Fingerprint(c)
      BY <1>2, <1>5, <2>1
    <3>3. /\ records' \in StoreType /\ RecordsStay
          /\ records'[k][role] = half /\ half # None
          /\ \A j \in Key, r \in Role : j # k \/ r # role => records'[j][r] = records[j][r]
      BY <3>1, <3>2, HalfStored
    <3> QED
      BY <3>2, <3>3
  <2>3. CaseStays /\ CaseFits' /\ case' \in CaseType
    BY <1>1, TypeParts DEF CaseStays, CaseFits
  <2>4. FrozenPairStands'
    BY <1>1, <2>2, FrozenStays
  <2>5. StoreFits'
    <3> SUFFICES ASSUME NEW j \in Key, records'[j]["preview"] # None
                 PROVE  /\ records'[j]["original"] # None
                        /\ records'[j]["original"].fp = records'[j]["preview"].fp
      BY DEF StoreFits
    <3>1. CASE j # k
      BY <1>1, <2>2, <3>1 DEF StoreFits, Role
    <3>2. CASE j = k /\ role = "original"
      <4>1. records'[k]["preview"] = records[k]["preview"]
        BY <2>2, <3>2 DEF Role
      <4>2. records[k]["original"] # None
        BY <1>1, <3>2, <4>1 DEF StoreFits
      <4> QED
        BY <1>5, <3>2, <4>2
    <3>3. CASE j = k /\ role = "preview"
      <4>1. records[k]["original"] # None /\ records[k]["original"].fp = Fingerprint(c)
        BY <1>1, <1>2, <3>3 DEF ClientFits, UploadFits
      <4>2. records'[k]["original"] = records[k]["original"] /\ records'[k]["preview"] = half
        BY <2>2, <3>3 DEF Role
      <4> QED
        BY <2>2, <3>3, <4>1, <4>2
    <3> QED
      BY <3>1, <3>2, <3>3 DEF Role
  <2>6. next \in {"preview", "attempt", "answered"}
    OBVIOUS
  <2>7. PICK to \in Request :
          /\ to = At(request[c], next) /\ to.pc = next
          /\ to.tries = request[c].tries /\ to.expected = request[c].expected
    BY <1>1, <2>6, PointTyped
  <2>8. request' = [request EXCEPT ![c] = to]
    BY <1>5, <2>7 DEF Goto, At
  <2>9. ClientFits(c, to)'
    <3>1. CASE next = "preview"
      <4>1. records'[k]["original"] # None /\ records'[k]["original"].fp = Fingerprint(c)
        BY <2>2, <3>1
      <4>2. command'[c].key = k /\ Fingerprint(c)' = Fingerprint(c)
        BY <1>2 DEF Fingerprint
      <4> QED
        BY <1>3, <2>7, <3>1, <4>1, <4>2 DEF ClientFits, UploadFits, StartFits, RoundsFit
    <3>2. CASE next # "preview"
      BY <1>3, <1>4, <2>6, <2>7, <3>2
    <3> QED
      BY <3>1, <3>2
  <2> QED
    BY <1>1, <2>2, <2>3, <2>4, <2>5, <2>8, <2>9, RequesterIs, RequestGoes
<1>6. CASE /\ records[k][role] # None
           /\ Goto(c, IF Matches(records[k][role], Fingerprint(c)) THEN next ELSE "conflict")
           /\ UNCHANGED records
  <2>1. CASE Matches(records[k][role], Fingerprint(c)) /\ next = "preview"
    <3>1. Goto(c, "preview")
      BY <1>6, <2>1
    <3>2. UploadFits(c, At(request[c], "preview"))
      BY <1>2, <1>6, <2>1 DEF UploadFits, Matches
    <3> QED
      BY <1>3, <1>6, <3>1, <3>2, ClientGoes
  <2>2. CASE ~(Matches(records[k][role], Fingerprint(c)) /\ next = "preview")
    <3>1. PICK pc \in {"attempt", "answered", "conflict"} : Goto(c, pc)
      BY <1>6, <2>2
    <3>2. PICK to \in Request :
            /\ to = At(request[c], pc) /\ to.pc = pc
            /\ to.tries = request[c].tries /\ to.expected = request[c].expected
      BY <1>1, PointTyped
    <3>3. request' = [request EXCEPT ![c] = to]
      BY <3>1, <3>2 DEF Goto, At
    <3>4. ClientFits(c, to)
      BY <1>3, <1>4, <3>2
    <3> QED
      BY <1>1, <1>6, <3>3, <3>4, RequesterIs, OnlyRequestGoes
  <2> QED
    BY <2>1, <2>2
<1> QED
  BY <1>2, <1>5, <1>6 DEF Put

LEMMA PutOriginalKeeps ==
  ASSUME IInv, NEW c \in Client, PutOriginal(c)
  PROVE  IInv'
  BY PutKeeps DEF PutOriginal, Role

LEMMA PutPreviewKeeps ==
  ASSUME IInv, NEW c \in Client, PutPreview(c)
  PROVE  IInv'
<1>1. PICK next \in {"attempt", "answered"} :
        next = IF command[c].consent THEN "attempt" ELSE "answered"
  OBVIOUS
<1>2. /\ Put(c, "preview", next) /\ request[c].pc = "preview"
      /\ UNCHANGED <<command, case, sent, clock, stops>>
  BY <1>1 DEF PutPreview
<1> QED
  BY <1>2, PutKeeps DEF Role

-----------------------------------------------------------------------------
(* The automatic start *)

\* An armed case whose frozen pair is that of a client was started with its key.
LEMMA OwnStart ==
  ASSUME IInv, NEW c \in Client, case.armed, Authorized(command[c].key),
         \/ case.frozen = PairOf(command[c].key)
         \/ case.by = BaseKey(c)
         \/ case.requested = BaseKey(c)
  PROVE  /\ case.frozen = PairOf(command[c].key) /\ OwnsStart(c)
         /\ case.state # "RECEIVED"
         /\ case.state \in {"ANALYZING", "ANALYZED"} => case.requested = BaseKey(c)
<1>1. TypeOK /\ CaseFits
  BY DEF IInv
<1>2. PICK k \in Key : k = command[c].key /\ Authorized(k)
  BY <1>1, CommandTyped
<1>3. PairOf(k) # None /\ BaseKey(c) = PairOf(k)
  BY <1>1, <1>2, AuthorizedTyped, BaseKeyIs
<1> QED
  BY <1>1, <1>2, <1>3 DEF CaseFits, OwnsStart

LEMMA AttemptKeeps ==
  ASSUME IInv, NEW c \in Client, Attempt(c)
  PROVE  IInv'
<1>1. /\ TypeOK /\ request[c] \in Request /\ ClientFits(c, request[c])
      /\ request[c].tries \in 0..2 /\ request[c].expected = "RECEIVED"
      /\ clock \in Nat /\ stops \in 0..MaxStops
  BY ClientIs
<1>2. /\ request[c].pc = "attempt"
      /\ UNCHANGED <<command, records, case, sent, clock, stops>>
  BY DEF Attempt
<1>3. PICK k \in Key : k = command[c].key
  BY <1>1, CommandTyped
<1>4. request[c].tries # MaxTries
  BY <1>1 DEF MaxTries
<1>5. \/ Goto(c, "answered")
      \/ case.armed /\ Authorized(k) /\ OwnsStart(c) /\ Goto(c, "job")
      \/ /\ case.armed /\ Authorized(k)
         /\ case.state = "RECEIVED" \/ (case.state = "EVIDENCE_READY" /\ OwnsStart(c))
         /\ request' = [request EXCEPT ![c] = AtWith(request[c], "begin", PairOf(k))]
  BY <1>3, <1>4 DEF Attempt, Goto, AtWith
<1>6. CASE Goto(c, "answered")
  BY <1>2, <1>6, ClientGoes
<1>7. CASE case.armed /\ Authorized(k) /\ OwnsStart(c) /\ Goto(c, "job")
  <2>1. case.frozen = PairOf(command[c].key)
    BY <1>7 DEF OwnsStart
  <2> QED
    BY <1>2, <1>3, <1>7, <2>1, ClientGoes
<1>8. CASE /\ case.armed /\ Authorized(k)
           /\ case.state = "RECEIVED" \/ (case.state = "EVIDENCE_READY" /\ OwnsStart(c))
           /\ request' = [request EXCEPT ![c] = AtWith(request[c], "begin", PairOf(k))]
  <2>1. PairOf(k) \in Pair
    BY <1>1, <1>8, AuthorizedTyped
  <2>2. PICK to \in Request :
          /\ to = AtWith(request[c], "begin", PairOf(k))
          /\ to.pc = "begin" /\ to.tries = request[c].tries /\ to.refs = PairOf(k)
          /\ to.expected = request[c].expected
    BY <1>1, <2>1, RefsTyped
  <2>3. to.tries > 0 => to.tries = 1 /\ OwnsStart(c)
    BY <1>1, <1>2, <1>8, <2>2 DEF ClientFits, RoundsFit
  <2>4. ClientFits(c, to)
    BY <1>1, <1>3, <1>8, <2>2, <2>3 DEF ClientFits, UploadFits, StartFits, RoundsFit
  <2> QED
    BY <1>1, <1>2, <1>8, <2>2, <2>4, RequesterIs, OnlyRequestGoes
<1> QED
  BY <1>5, <1>6, <1>7, <1>8

LEMMA ClientReads ==
  ASSUME IInv, NEW c \in Client, ReadCase(c)
  PROVE  IInv'
<1>1. /\ TypeOK /\ CaseFits /\ request[c] \in Request /\ ClientFits(c, request[c])
      /\ request[c].tries \in 0..2 /\ request[c].expected = "RECEIVED"
  BY ClientIs DEF IInv
<1>2. /\ request[c].pc = "begin"
      /\ UNCHANGED <<command, records, case, sent, clock, stops>>
  BY DEF ReadCase
<1>3. /\ case.armed /\ Authorized(command[c].key)
      /\ request[c].refs = PairOf(command[c].key)
      /\ request[c].tries > 0 => request[c].tries = 1 /\ OwnsStart(c)
      /\ request[c].tries > 0 => case.state # "RECEIVED"
  BY <1>1, <1>2 DEF ClientFits, StartFits, RoundsFit
<1>4. \/ case.state # "RECEIVED" /\ ~Resumes(c) /\ Outdated(c)
      \/ case.state = "RECEIVED" /\ Goto(c, "ready")
      \/ case.state = "EVIDENCE_READY" /\ Resumes(c) /\ Goto(c, "analyzing")
      \/ case.state = "ANALYZING" /\ Resumes(c) /\ Goto(c, "job")
  <2>1. c # Staff
    BY RequesterIs
  <2>2. case.state \in {"RECEIVED", "EVIDENCE_READY", "ANALYZING", "ANALYZED"}
    BY <1>1, TypeParts DEF CaseType
  <2>3. case.state = "ANALYZED" => ~Resumes(c)
    BY DEF Resumes
  <2> QED
    BY <1>1, <2>1, <2>2, <2>3 DEF ReadCase
<1>5. CASE case.state # "RECEIVED" /\ ~Resumes(c) /\ Outdated(c)
  <2>1. request[c].tries <= 1
    BY <1>1, <1>3
  <2>2. ASSUME request[c].tries = 1
        PROVE  case.state = "ANALYZED"
    <3>1. OwnsStart(c)
      BY <1>3, <2>2
    <3>2. case.by = BaseKey(c)
      BY <3>1 DEF OwnsStart
    <3>3. case.state = "ANALYZING" => case.requested = BaseKey(c)
      BY <1>3, <3>2, OwnStart
    <3>4. case.state \notin {"EVIDENCE_READY", "ANALYZING"}
      BY <1>1, <1>5, <3>2, <3>3 DEF Resumes
    <3> QED
      BY <1>1, <1>5, <3>4, TypeParts DEF CaseType
  <2> QED
    BY <1>2, <1>5, <2>1, <2>2, ClientOutdated
<1>6. CASE case.state = "RECEIVED" /\ Goto(c, "ready")
  <2>1. request[c].tries = 0
    BY <1>1, <1>3, <1>6
  <2> QED
    BY <1>2, <1>3, <1>6, <2>1, ClientGoes
<1>7. CASE case.state = "EVIDENCE_READY" /\ Resumes(c) /\ Goto(c, "analyzing")
  <2>1. case.by = BaseKey(c)
    BY <1>7 DEF Resumes
  <2>2. case.frozen = PairOf(command[c].key)
    BY <1>3, <2>1, OwnStart
  <2> QED
    BY <1>2, <1>3, <1>7, <2>2, ClientGoes
<1>8. CASE case.state = "ANALYZING" /\ Resumes(c) /\ Goto(c, "job")
  <2>1. case.requested = BaseKey(c)
    BY <1>8 DEF Resumes
  <2>2. case.frozen = PairOf(command[c].key)
    BY <1>3, <2>1, OwnStart
  <2> QED
    BY <1>2, <1>3, <1>8, <2>2, ClientGoes
<1> QED
  BY <1>4, <1>5, <1>6, <1>7, <1>8

LEMMA StaffReads ==
  ASSUME IInv, ReadCase(Staff)
  PROVE  IInv'
<1>1. /\ TypeOK /\ Staff \in Requester /\ request[Staff] \in Request
      /\ clock \in Nat /\ stops \in 0..MaxStops
  BY StaffIs
<1>2. UNCHANGED <<command, records, case, sent, clock, stops>>
  BY DEF ReadCase
<1>3. \/ request' = [request EXCEPT ![Staff] = Idle]
      \/ Outdated(Staff)
      \/ /\ ~case.armed
         /\ \E k \in Key :
              /\ Authorized(k)
              /\ request' = [request EXCEPT ![Staff] = AtWith(request[Staff], "ready", PairOf(k))]
      \/ ~case.armed /\ (Goto(Staff, "analyzing") \/ Goto(Staff, "job"))
  <2>1. case.state \in {"RECEIVED", "EVIDENCE_READY", "ANALYZING", "ANALYZED"}
    BY <1>1, TypeParts DEF CaseType
  <2>2. request[Staff].expected # "ANALYZED"
    BY <1>1, RequestTyped
  <2>3. case.state = "ANALYZED" => ~Resumes(Staff)
    BY DEF Resumes
  <2> QED
    BY <2>1, <2>2, <2>3 DEF ReadCase, AtWith
<1>4. CASE request' = [request EXCEPT ![Staff] = Idle]
  BY <1>1, <1>2, <1>4, GoesIdle
<1>5. CASE Outdated(Staff)
  BY <1>2, <1>5, StaffOutdated
<1>6. ASSUME ~case.armed, NEW k \in Key, Authorized(k),
             request' = [request EXCEPT ![Staff] = AtWith(request[Staff], "ready", PairOf(k))]
      PROVE  IInv'
  <2>1. PairOf(k) \in Pair
    BY <1>1, <1>6, AuthorizedTyped
  <2>2. PICK to \in Request :
          /\ to = AtWith(request[Staff], "ready", PairOf(k))
          /\ to.pc = "ready" /\ to.refs = PairOf(k)
    BY <1>1, <2>1, RefsTyped
  <2>3. StaffFits(to)
    BY <1>6, <2>2 DEF StaffFits
  <2> QED
    BY <1>1, <1>2, <1>6, <2>2, <2>3, OnlyRequestGoes
<1>7. CASE ~case.armed /\ (Goto(Staff, "analyzing") \/ Goto(Staff, "job"))
  BY <1>2, <1>7, StaffGoes
<1> QED
  BY <1>3, <1>4, <1>5, <1>6, <1>7

LEMMA StaffRequestKeeps ==
  ASSUME IInv, StaffRequest
  PROVE  IInv'
<1>1. /\ TypeOK /\ Staff \in Requester /\ clock \in Nat /\ stops \in 0..MaxStops
  BY StaffIs
<1>2. PICK expected \in {"RECEIVED", "EVIDENCE_READY"} :
        request' = [request EXCEPT ![Staff] = Fresh("begin", 0, expected)]
  BY DEF StaffRequest
<1>3. PICK to \in Request : to = Fresh("begin", 0, expected) /\ to.pc = "begin"
  BY FreshTyped
<1>4. StaffFits(to)
  BY <1>3 DEF StaffFits
<1>5. UNCHANGED <<command, records, case, sent>> /\ clock' \in Nat /\ stops' \in 0..MaxStops
  BY <1>1 DEF StaffRequest
<1> QED
  BY <1>1, <1>2, <1>3, <1>4, <1>5, OnlyRequestGoes

\* The pair a request is about to freeze, whoever made it.
LEMMA ReadyHolds ==
  ASSUME IInv, NEW x \in Requester, request[x].pc = "ready"
  PROVE  /\ \E k \in Key : Authorized(k) /\ request[x].refs = PairOf(k)
         /\ BaseKey(x) \in Pair \cup {Staff} /\ BaseKey(x) # None
         /\ case.armed => x \in Client /\ BaseKey(x) = request[x].refs
<1>1. CASE x = Staff
  <2>1. BaseKey(x) = Staff /\ Staff # None
    BY <1>1, BaseKeyIs, NoneAssumption
  <2> QED
    BY <1>1, <2>1, StaffIs DEF StaffFits
<1>2. CASE x # Staff
  <2>1. x \in Client
    BY <1>2, RequesterIs
  <2>2. TypeOK /\ ClientFits(x, request[x])
    BY <2>1, ClientIs
  <2>3. PICK k \in Key : k = command[x].key
    BY <2>1, <2>2, CommandTyped
  <2>4. Authorized(k) /\ request[x].refs = PairOf(k)
    BY <2>2, <2>3 DEF ClientFits, StartFits
  <2>5. PairOf(k) \in Pair /\ PairOf(k) # None /\ BaseKey(x) = PairOf(k)
    BY <2>1, <2>2, <2>3, <2>4, AuthorizedTyped, BaseKeyIs
  <2> QED
    BY <2>1, <2>4, <2>5
<1> QED
  BY <1>1, <1>2

LEMMA CaseFrozen ==
  ASSUME IInv, NEW x \in Requester, request[x].pc = "ready", case.state = "RECEIVED",
         case' = [case EXCEPT !.state = "EVIDENCE_READY", !.frozen = request[x].refs,
                              !.by = BaseKey(x)],
         UNCHANGED <<command, records>>
  PROVE  /\ records' \in StoreType /\ case' \in CaseType
         /\ RecordsStay /\ CaseStays /\ StoreFits' /\ CaseFits' /\ FrozenPairStands'
         /\ case'.armed = case.armed /\ case'.frozen = request[x].refs
<1>1. TypeOK /\ StoreFits /\ CaseFits /\ FrozenPairStands /\ case \in CaseType
  BY TypeParts DEF IInv
<1>2. PICK k \in Key : Authorized(k) /\ request[x].refs = PairOf(k)
  BY ReadyHolds
<1>3. PairOf(k) \in Pair /\ PairOf(k) # None
  BY <1>1, <1>2, AuthorizedTyped
<1>4. PICK pair \in Pair : pair = PairOf(k) /\ pair = request[x].refs
  BY <1>2, <1>3
<1>5. PICK by \in Pair \cup {None, Staff} : by = BaseKey(x) /\ (case.armed => by = pair)
  BY <1>4, ReadyHolds
<1>6. case' = [case EXCEPT !.state = "EVIDENCE_READY", !.frozen = pair, !.by = by]
  BY <1>4, <1>5
<1>7. /\ case' \in CaseType
      /\ case'.state = "EVIDENCE_READY" /\ case'.armed = case.armed
      /\ case'.frozen = pair /\ case'.by = by /\ case'.requested = case.requested
  BY <1>1, <1>6 DEF CaseType
<1>8. case.frozen = None /\ case.requested = None
  BY <1>1 DEF CaseFits
<1>9. CaseStays /\ CaseFits'
  BY <1>3, <1>4, <1>5, <1>7, <1>8 DEF CaseStays, CaseFits
<1>10. RecordsStay /\ StoreFits' /\ records' \in StoreType
  BY <1>1, TypeParts DEF RecordsStay, StoreFits
<1>11. FrozenPairStands'
  BY <1>1, <1>2, <1>4, <1>7, <1>10, FrozenStays
<1> QED
  BY <1>4, <1>7, <1>9, <1>10, <1>11

LEMMA CommitReadyKeeps ==
  ASSUME IInv, NEW x \in Requester, CommitReady(x)
  PROVE  IInv'
<1>1. /\ TypeOK /\ request[x] \in Request /\ request[x].pc = "ready"
      /\ UNCHANGED <<command, records, sent, clock, stops>>
      /\ clock \in Nat /\ stops \in 0..MaxStops /\ sent \in Pair \cup {None}
  BY RequestTyped, StaffIs DEF IInv, CommitReady
<1>2. x # Staff => /\ x \in Client /\ ClientFits(x, request[x])
                   /\ case.armed /\ Authorized(command[x].key)
                   /\ request[x].refs = PairOf(command[x].key)
                   /\ request[x].tries = 0 /\ request[x].expected = "RECEIVED"
  BY <1>1, RequesterIs, ClientIs DEF ClientFits, StartFits, RoundsFit
<1>3. x = Staff => ~case.armed
  BY <1>1, StaffIs DEF StaffFits
<1>4. CASE /\ case.state = "RECEIVED"
           /\ case' = [case EXCEPT !.state = "EVIDENCE_READY", !.frozen = request[x].refs,
                                   !.by = BaseKey(x)]
           /\ Goto(x, "reread")
  <2>1. /\ records' \in StoreType /\ case' \in CaseType
        /\ RecordsStay /\ CaseStays /\ StoreFits' /\ CaseFits' /\ FrozenPairStands'
        /\ case'.armed = case.armed /\ case'.frozen = request[x].refs
    BY <1>1, <1>4, CaseFrozen
  <2>2. PICK to \in Request :
          /\ to = At(request[x], "reread") /\ to.pc = "reread"
          /\ to.tries = request[x].tries /\ to.expected = request[x].expected
    BY <1>1, PointTyped
  <2>3. request' = [request EXCEPT ![x] = to]
    BY <1>4, <2>2 DEF Goto, At
  <2>4. ASSUME x # Staff
        PROVE  ClientFits(x, to)'
    <3>1. PICK k \in Key : k = command[x].key
      BY <1>1, <1>2, <2>4, CommandTyped
    <3>2. Authorized(k)' /\ PairOf(k)' = PairOf(k)
      BY <1>2, <2>1, <2>4, <3>1, PairStays
    <3>3. case'.armed /\ case'.frozen = PairOf(k)' /\ command'[x].key = k
      BY <1>1, <1>2, <2>1, <2>4, <3>1, <3>2
    <3> QED
      BY <1>2, <2>2, <2>4, <3>2, <3>3 DEF ClientFits, UploadFits, StartFits, RoundsFit
  <2>5. x = Staff => StaffFits(to)'
    BY <1>3, <2>1, <2>2 DEF StaffFits
  <2> QED
    BY <1>1, <2>1, <2>3, <2>4, <2>5, RequestGoes
<1>5. CASE /\ Goto(x, IF case.frozen = request[x].refs THEN "reread" ELSE "failed")
           /\ UNCHANGED case
  <2>1. CASE x = Staff
    <3>1. PICK pc \in {"reread", "failed"} : Goto(x, pc)
      BY <1>5
    <3> QED
      BY <1>1, <1>3, <1>5, <2>1, <3>1, StaffGoes
  <2>2. CASE x # Staff /\ case.frozen = request[x].refs
    <3>1. Goto(x, "reread")
      BY <1>5, <2>2
    <3> QED
      BY <1>1, <1>2, <1>5, <2>2, <3>1, ClientGoes
  <2>3. CASE x # Staff /\ case.frozen # request[x].refs
    <3>1. Goto(x, "failed")
      BY <1>5, <2>3
    <3> QED
      BY <1>1, <1>2, <1>5, <2>3, <3>1, ClientGoes
  <2> QED
    BY <2>1, <2>2, <2>3
<1>6. CASE case.state # "RECEIVED" /\ Outdated(x) /\ UNCHANGED case
  <2>1. CASE x = Staff
    BY <1>1, <1>6, <2>1, StaffOutdated
  <2>2. CASE x # Staff
    <3>1. request[x].tries <= 1 /\ request[x].tries # 1
      BY <1>2, <2>2
    <3> QED
      BY <1>1, <1>2, <1>6, <2>2, <3>1, ClientOutdated
  <2> QED
    BY <2>1, <2>2
<1> QED
  BY <1>4, <1>5, <1>6 DEF CommitReady

LEMMA RereadKeeps ==
  ASSUME IInv, NEW x \in Requester, Reread(x)
  PROVE  IInv'
<1>1. /\ request[x].pc = "reread"
      /\ UNCHANGED <<command, records, case, sent, clock, stops>>
  BY DEF Reread
<1>2. PICK pc \in {"analyzing", "job", "failed"} : Goto(x, pc)
  BY DEF Reread
<1>3. CASE x = Staff
  <2>1. ~case.armed
    BY <1>1, <1>3, StaffIs DEF StaffFits
  <2> QED
    BY <1>1, <1>2, <1>3, <2>1, StaffGoes
<1>4. CASE x # Staff
  <2>1. x \in Client
    BY <1>4, RequesterIs
  <2>2. /\ case.armed /\ Authorized(command[x].key)
        /\ case.frozen = PairOf(command[x].key)
    BY <1>1, <2>1, ClientIs DEF ClientFits, StartFits
  <2> QED
    BY <1>1, <1>2, <2>1, <2>2, ClientGoes
<1> QED
  BY <1>3, <1>4

LEMMA CaseRequested ==
  ASSUME IInv, NEW x \in Requester, case.state = "EVIDENCE_READY",
         NEW by \in Pair \cup {Staff}, case.armed => by = case.frozen,
         case' = [case EXCEPT !.state = "ANALYZING", !.requested = by],
         UNCHANGED <<command, records>>
  PROVE  /\ records' \in StoreType /\ case' \in CaseType
         /\ RecordsStay /\ CaseStays /\ StoreFits' /\ CaseFits' /\ FrozenPairStands'
         /\ case'.armed = case.armed /\ case'.frozen = case.frozen
<1>1. TypeOK /\ StoreFits /\ CaseFits /\ FrozenPairStands /\ case \in CaseType
  BY TypeParts DEF IInv
<1>2. /\ case' \in CaseType
      /\ case'.state = "ANALYZING" /\ case'.armed = case.armed
      /\ case'.frozen = case.frozen /\ case'.by = case.by /\ case'.requested = by
  BY <1>1 DEF CaseType
<1>3. by # None
  BY NoneAssumption
<1>4. CaseStays /\ CaseFits'
  BY <1>1, <1>2, <1>3 DEF CaseStays, CaseFits
<1>5. RecordsStay /\ StoreFits' /\ records' \in StoreType
  BY <1>1, TypeParts DEF RecordsStay, StoreFits
<1>6. FrozenPairStands'
  BY <1>1, <1>2, <1>5, FrozenStays
<1> QED
  BY <1>2, <1>4, <1>5, <1>6

LEMMA CommitAnalyzingKeeps ==
  ASSUME IInv, NEW x \in Requester, CommitAnalyzing(x)
  PROVE  IInv'
<1>1. /\ TypeOK /\ request[x] \in Request /\ request[x].pc = "analyzing"
      /\ UNCHANGED <<command, records, sent, clock, stops>>
      /\ clock \in Nat /\ stops \in 0..MaxStops /\ sent \in Pair \cup {None}
  BY RequestTyped, StaffIs DEF IInv, CommitAnalyzing
<1>2. x # Staff => /\ x \in Client /\ ClientFits(x, request[x])
                   /\ case.armed /\ Authorized(command[x].key)
                   /\ case.frozen = PairOf(command[x].key)
  BY <1>1, RequesterIs, ClientIs DEF ClientFits, StartFits
<1>3. x = Staff => ~case.armed
  BY <1>1, StaffIs DEF StaffFits
<1>4. CASE /\ case.state = "EVIDENCE_READY"
           /\ case' = [case EXCEPT !.state = "ANALYZING", !.requested = BaseKey(x)]
           /\ Goto(x, "job")
  <2>1. PICK by \in Pair \cup {Staff} : by = BaseKey(x) /\ (case.armed => by = case.frozen)
    <3>1. CASE x = Staff
      BY <1>3, <3>1, BaseKeyIs
    <3>2. CASE x # Staff
      <4>1. PICK k \in Key : k = command[x].key
        BY <1>1, <1>2, <3>2, CommandTyped
      <4>2. PairOf(k) \in Pair
        BY <1>1, <1>2, <3>2, <4>1, AuthorizedTyped
      <4> QED
        BY <1>2, <3>2, <4>1, <4>2, BaseKeyIs
    <3> QED
      BY <3>1, <3>2
  <2>2. case' = [case EXCEPT !.state = "ANALYZING", !.requested = by]
    BY <1>4, <2>1
  <2>3. /\ records' \in StoreType /\ case' \in CaseType
        /\ RecordsStay /\ CaseStays /\ StoreFits' /\ CaseFits' /\ FrozenPairStands'
        /\ case'.armed = case.armed /\ case'.frozen = case.frozen
    BY <1>1, <1>4, <2>1, <2>2, CaseRequested
  <2>4. PICK to \in Request :
          /\ to = At(request[x], "job") /\ to.pc = "job"
          /\ to.tries = request[x].tries /\ to.expected = request[x].expected
    BY <1>1, PointTyped
  <2>5. request' = [request EXCEPT ![x] = to]
    BY <1>4, <2>4 DEF Goto, At
  <2>6. ASSUME x # Staff
        PROVE  ClientFits(x, to)'
    <3>1. ClientFits(x, to)
      BY <1>2, <2>4, <2>6 DEF ClientFits, UploadFits, StartFits, RoundsFit
    <3> QED
      BY <1>1, <1>2, <2>3, <2>6, <3>1, ClientStays DEF IInv
  <2>7. x = Staff => StaffFits(to)'
    BY <1>3, <2>3, <2>4 DEF StaffFits
  <2> QED
    BY <1>1, <2>3, <2>5, <2>6, <2>7, RequestGoes
<1>5. CASE Goto(x, "job") /\ UNCHANGED case
  <2>1. CASE x = Staff
    BY <1>1, <1>3, <1>5, <2>1, StaffGoes
  <2>2. CASE x # Staff
    BY <1>1, <1>2, <1>5, <2>2, ClientGoes
  <2> QED
    BY <2>1, <2>2
<1>6. CASE /\ case.requested # BaseKey(x) /\ case.state # "EVIDENCE_READY"
           /\ Outdated(x) /\ UNCHANGED case
  <2>1. CASE x = Staff
    BY <1>1, <1>6, <2>1, StaffOutdated
  <2>2. CASE x # Staff
    <3>1. /\ case.state # "RECEIVED"
          /\ case.state \in {"ANALYZING", "ANALYZED"} => case.requested = BaseKey(x)
      BY <1>2, <2>2, OwnStart
    <3>2. case.state \in {"RECEIVED", "EVIDENCE_READY", "ANALYZING", "ANALYZED"}
      BY <1>1, TypeParts DEF CaseType
    <3> QED
      BY <1>6, <3>1, <3>2
  <2> QED
    BY <2>1, <2>2
<1> QED
  BY <1>4, <1>5, <1>6 DEF CommitAnalyzing

-----------------------------------------------------------------------------
(* The analyst, and requests that stop *)

LEMMA CallAnalystKeeps ==
  ASSUME IInv, CallAnalyst
  PROVE  IInv'
<1>1. /\ TypeOK /\ StoreFits /\ CaseFits /\ FrozenPairStands /\ case \in CaseType
      /\ case.state = "ANALYZING"
      /\ case' = [case EXCEPT !.state = "ANALYZED"]
      /\ UNCHANGED <<command, records, request, clock, stops>>
      /\ clock \in Nat /\ stops \in 0..MaxStops /\ sent \in Pair \cup {None}
  BY TypeParts DEF IInv, CallAnalyst
<1>2. sent' \in Pair \cup {None}
  BY <1>1, AuthorizedTyped DEF CallAnalyst
<1>3. /\ case' \in CaseType /\ case'.state = "ANALYZED" /\ case'.armed = case.armed
      /\ case'.frozen = case.frozen /\ case'.by = case.by /\ case'.requested = case.requested
  BY <1>1 DEF CaseType
<1>4. CaseStays /\ CaseFits'
  BY <1>1, <1>3 DEF CaseStays, CaseFits
<1>5. RecordsStay /\ StoreFits' /\ records' \in StoreType
  BY <1>1, TypeParts DEF RecordsStay, StoreFits
<1>6. FrozenPairStands'
  BY <1>1, <1>3, <1>5, FrozenStays
<1>7. PICK to \in Request : to = request[Staff] /\ StaffFits(to)
  BY StaffIs
<1>8. request' = [request EXCEPT ![Staff] = to]
  BY <1>1, <1>7 DEF TypeOK
<1>9. StaffFits(to)'
  BY <1>4, <1>5, <1>7, StaffStays
<1> QED
  BY <1>1, <1>2, <1>3, <1>4, <1>5, <1>6, <1>8, <1>9, RequesterIs, RequestGoes

LEMMA StopKeeps ==
  ASSUME IInv, NEW x \in Requester, Stop(x)
  PROVE  IInv'
<1>1. clock \in Nat /\ stops \in 0..MaxStops /\ stops > 0
  BY StaffIs DEF Stop
<1>2. stops - 1 \in 0..MaxStops
  BY <1>1, StopsAssumption
<1>3. /\ request' = [request EXCEPT ![x] = Idle]
      /\ UNCHANGED <<command, records, case, sent>> /\ clock' \in Nat
      /\ stops' \in 0..MaxStops
  BY <1>1, <1>2 DEF Stop
<1> QED
  BY <1>3, GoesIdle

-----------------------------------------------------------------------------
(* The theorems *)

LEMMA Start ==
  ASSUME Init
  PROVE  IInv
<1>1. /\ command \in CommandType
      /\ records = [k \in Key |-> [r \in Role |-> None]]
      /\ request = [x \in Requester |-> Idle]
      /\ sent = None /\ clock = 1 /\ stops = MaxStops
  BY DEF Init, CommandType
<1>2. PICK armed \in BOOLEAN :
        case = [state |-> "RECEIVED", armed |-> armed, frozen |-> None, by |-> None,
                requested |-> None]
  BY DEF Init
<1>3. case \in CaseType
  BY <1>2 DEF CaseType
<1>4. records \in StoreType
  BY <1>1 DEF StoreType
<1>5. request \in [Requester -> Request]
  BY <1>1, IdleTyped
<1>6. MaxStops \in 0..MaxStops
  BY StopsAssumption
<1>7. TypeOK
  BY <1>1, <1>3, <1>4, <1>5, <1>6 DEF TypeOK, CommandType, StoreType, CaseType
<1>8. StoreFits
  BY <1>1 DEF StoreFits, Role
<1>9. CaseFits /\ FrozenPairStands
  BY <1>2 DEF CaseFits, FrozenPairStands
<1>10. /\ \A c \in Client : request[c] = Idle
       /\ request[Staff] = Idle
  BY <1>1, RequesterIs
<1> QED
  BY <1>7, <1>8, <1>9, <1>10, IdleFits DEF IInv

LEMMA Step ==
  ASSUME IInv, [Next]_vars
  PROVE  IInv'
<1>1. ASSUME NEW c \in Client, StartUpload(c) \/ UploadStep(c)
      PROVE  IInv'
  BY <1>1, StartUploadKeeps, PutOriginalKeeps, PutPreviewKeeps, AttemptKeeps DEF UploadStep
<1>2. CASE StaffRequest
  BY <1>2, StaffRequestKeeps
<1>3. ASSUME NEW x \in Requester, BeginStep(x) \/ Stop(x)
      PROVE  IInv'
  <2>1. CASE ReadCase(x)
    BY <2>1, RequesterIs, ClientReads, StaffReads
  <2>2. CASE CommitReady(x)
    BY <2>2, CommitReadyKeeps
  <2>3. CASE Reread(x)
    BY <2>3, RereadKeeps
  <2>4. CASE CommitAnalyzing(x)
    BY <2>4, CommitAnalyzingKeeps
  <2>5. CASE Stop(x)
    BY <2>5, StopKeeps
  <2> QED
    BY <1>3, <2>1, <2>2, <2>3, <2>4, <2>5 DEF BeginStep
<1>4. CASE CallAnalyst
  BY <1>4, CallAnalystKeeps
<1>5. CASE UNCHANGED vars
  <2>1. /\ UNCHANGED <<command, records, case, sent>> /\ request' = request
        /\ clock' \in Nat /\ stops' \in 0..MaxStops
    BY <1>5, StaffIs DEF vars
  <2>2. PICK to \in Request : to = request[Staff] /\ StaffFits(to)
    BY StaffIs
  <2>3. request' = [request EXCEPT ![Staff] = to]
    BY <2>1, <2>2 DEF IInv, TypeOK
  <2> QED
    BY <2>1, <2>2, <2>3, RequesterIs, OnlyRequestGoes
<1> QED
  BY <1>1, <1>2, <1>3, <1>4, <1>5 DEF Next

LEMMA Invariant == Spec => []IInv
<1>1. Init => IInv
  BY Start
<1>2. IInv /\ [Next]_vars => IInv'
  BY Step
<1> QED
  BY <1>1, <1>2, PTL DEF Spec

\* The evidence, the case and the requests are of their types; among other things no
\* request begins a fourth round.
THEOREM TypeCorrect == Spec => []TypeOK
<1>1. IInv => TypeOK
  BY DEF IInv
<1> QED
  BY <1>1, Invariant, PTL

\* Both halves under a key are of one command, however many uploads use the key and
\* wherever they stop.
THEOREM HalvesOfOneCommand == Spec => []HalvesMatch
<1>1. IInv => HalvesMatch
  BY DEF IInv, StoreFits, HalvesMatch, OnePair
<1> QED
  BY <1>1, Invariant, PTL

\* The pair an analysis was frozen on remains complete, authorized and the same.
THEOREM FrozenPairKept == Spec => []FrozenPairStands
<1>1. IInv => FrozenPairStands
  BY DEF IInv
<1> QED
  BY <1>1, Invariant, PTL

\* The upload that is answered with a job is the one that was frozen.
THEOREM JobIsOwn == Spec => []JobMeansFrozen
<1>1. IInv => JobMeansFrozen
  BY DEF IInv, ClientFits, StartFits, JobMeansFrozen
<1> QED
  BY <1>1, Invariant, PTL

\* Three rounds suffice for any number of overlapping uploads: the case moves on
\* three times, and after the second failure it has no place to go.
THEOREM ThreeRounds == Spec => []RoundsSuffice
<1>1. IInv => RoundsSuffice
  BY DEF IInv, ClientFits, RoundsFit, RoundsSuffice
<1> QED
  BY <1>1, Invariant, PTL
=============================================================================
