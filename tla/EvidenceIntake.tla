--------------------------- MODULE EvidenceIntake ---------------------------
(***************************************************************************)
(* Evidence of one case and the start of its analysis: uploads of an       *)
(* original and its preview (service/app/evidence.py, upload_evidence of   *)
(* main.py), the automatic start an armed ordinary intake gets from an     *)
(* authorized upload, the start staff request for any other case           *)
(* (custody_service.py), and the evidence the analyst is sent (agent.py).  *)
(*                                                                         *)
(* Uploads overlap, use one idempotency key twice, stop between any two    *)
(* steps and are repeated by their clients.  The version of the case is    *)
(* determined by its state this early, so a transaction that expects the   *)
(* version it read is one that expects the state it read.                  *)
(***************************************************************************)
EXTENDS Naturals, FiniteSets

CONSTANTS Client,     \* clients that upload evidence
          Key,        \* idempotency keys they choose
          Image,      \* contents of the files
          Staff,      \* the client that requests the analysis of an unarmed case
          None,
          MaxStops    \* bound: requests that stop half-way

Role == {"original", "preview"}
Pair == [key : Key, image : Image]
Record == [fp : [image : Image, consent : BOOLEAN], stamp : Nat]

ASSUME StopsAssumption == MaxStops \in Nat
ASSUME NoneAssumption == None \notin Record \cup Pair \cup {Staff}
ASSUME StaffAssumption == Staff \notin Client \cup Pair

VARIABLES command,  \* what each client uploads: key, image, consent to the model
          records,  \* the evidence store: both halves under each key
          case,     \* state of the case and the evidence refs of its events
          request,  \* what each request has read and is about to do
          sent,     \* the pair whose preview the analyst was sent
          clock,    \* created_at of the next request
          stops     \* what is left of the bound

vars == <<command, records, case, request, sent, clock, stops>>

Requester == Client \cup {Staff}

\* _command_fingerprint: the content and the consent, for one case and epoch.
Fingerprint(c) == [image |-> command[c].image, consent |-> command[c].consent]

Fresh(pc, stamp, expected) ==
  [pc |-> pc, stamp |-> stamp, tries |-> 0, refs |-> None, expected |-> expected]
Idle == Fresh("idle", 0, "RECEIVED")

Init ==
  /\ command \in [Client -> [key : Key, image : Image, consent : BOOLEAN]]
  /\ records = [k \in Key |-> [r \in Role |-> None]]
  /\ \E armed \in BOOLEAN :
       case = [state |-> "RECEIVED", armed |-> armed, frozen |-> None, by |-> None,
               requested |-> None]
  /\ request = [x \in Requester |-> Idle]
  /\ sent = None
  /\ clock = 1
  /\ stops = MaxStops

Goto(x, pc) == request' = [request EXCEPT ![x] = [@ EXCEPT !.pc = pc]]

-----------------------------------------------------------------------------
(* The evidence store *)

\* _assert_idempotent_match: the record an upload finds under its own id must
\* come from the same command.
MatchesAny(record, fp) == TRUE   \* Mutant: whatever is there is taken for one's own.

Matches(record, fp) == record.fp = fp

\* Mutant: an upload replaces what is there.
PutReplacing(c, role, next) ==
  /\ records' = [records EXCEPT ![command[c].key] =
                   [@ EXCEPT ![role] = [fp |-> Fingerprint(c), stamp |-> request[c].stamp]]]
  /\ Goto(c, next)

\* put: the record id is derived from key and role, so that a put whose reply was
\* lost finds its own record when it reads again.  An existing record is
\* returned as it is, or is a conflict.
Put(c, role, next) ==
  LET k == command[c].key
      old == records[k][role]
      fp == Fingerprint(c)
  IN \/ /\ old = None
        /\ records' = [records EXCEPT ![k] =
                         [@ EXCEPT ![role] = [fp |-> fp, stamp |-> request[c].stamp]]]
        /\ Goto(c, next)
     \/ /\ old # None
        /\ Goto(c, IF Matches(old, fp) THEN next ELSE "conflict")
        /\ UNCHANGED records

\* _records_are_one_pair and _latest_complete_pair.
OnePair(k) ==
  /\ records[k]["original"] # None
  /\ records[k]["preview"] # None
  /\ records[k]["original"].fp = records[k]["preview"].fp

PairOf(k) == [key |-> k, image |-> records[k]["original"].fp.image]
Authorized(k) == OnePair(k) /\ records[k]["preview"].fp.consent

Created(k) == LET o == records[k]["original"].stamp
                  p == records[k]["preview"].stamp
              IN IF o > p THEN o ELSE p

Latest(k) == OnePair(k) /\ \A other \in Key : OnePair(other) => Created(other) <= Created(k)

-----------------------------------------------------------------------------
(* upload_evidence *)

\* A client sends its upload, again if the request before it stopped.
StartUpload(c) ==
  /\ request[c].pc = "idle"
  /\ request' = [request EXCEPT ![c] = Fresh("original", clock, "RECEIVED")]
  /\ clock' = clock + 1
  /\ UNCHANGED <<command, records, case, sent, stops>>

PutOriginal(c) ==
  /\ request[c].pc = "original"
  /\ Put(c, "original", "preview")
  /\ UNCHANGED <<command, case, sent, clock, stops>>

\* Only an upload with consent tries to start the analysis.
PutPreview(c) ==
  /\ request[c].pc = "preview"
  /\ Put(c, "preview", IF command[c].consent THEN "attempt" ELSE "answered")
  /\ UNCHANGED <<command, case, sent, clock, stops>>

-----------------------------------------------------------------------------
(* auto_start_authorized_intake_analysis *)

MaxTriesOne == 1   \* Mutant: a single attempt.
MaxTries == 3

\* The idempotency key of the command: derived from the pair, or chosen by staff.
BaseKey(x) == IF x = Staff THEN Staff ELSE PairOf(command[x].key)

\* _auto_evidence_ready_refs, compared with the refs of the request's own pair.
OwnsAnyStart(x) == TRUE   \* Mutant: whoever committed the first transition.

OwnsStart(x) == case.by = BaseKey(x) /\ case.frozen = PairOf(command[x].key)

\* One round of the loop, up to the call of begin_analysis, or what follows the
\* last round.
Attempt(c) ==
  /\ request[c].pc = "attempt"
  /\ LET k == command[c].key
         over == request[c].tries = MaxTries
         mine == OwnsStart(c)
     IN request' = [request EXCEPT ![c] =
          IF ~case.armed \/ ~Authorized(k) THEN [@ EXCEPT !.pc = "answered"]
          ELSE IF case.state = "ANALYZING" /\ mine THEN [@ EXCEPT !.pc = "job"]
          ELSE IF over THEN [@ EXCEPT !.pc = "stale"]
          ELSE IF case.state = "RECEIVED" \/ (case.state = "EVIDENCE_READY" /\ mine)
          THEN [@ EXCEPT !.pc = "begin", !.refs = PairOf(k)]
          ELSE [@ EXCEPT !.pc = "answered"]]
  /\ UNCHANGED <<command, records, case, sent, clock, stops>>

\* Staff request the analysis of the case at the version they saw, or repeat
\* the request they made at version 1; a retry uses the same key.
StaffRequest ==
  /\ request[Staff].pc = "idle"
  /\ case.state \in {"RECEIVED", "EVIDENCE_READY"}
  /\ \E expected \in {"RECEIVED", case.state} :
       request' = [request EXCEPT ![Staff] = Fresh("begin", 0, expected)]
  /\ UNCHANGED <<command, records, case, sent, clock, stops>>

-----------------------------------------------------------------------------
(* begin_analysis *)

\* Mutant: begin_analysis is called again at once.
OutdatedAtOnce(x) ==
  request' = [request EXCEPT ![x] =
                [@ EXCEPT !.pc = "begin", !.tries = request[x].tries + 1]]

\* stale_case_version: the automatic start tries again, staff get the error.
Outdated(x) ==
  request' = [request EXCEPT ![x] =
                IF x = Staff THEN Idle
                ELSE [@ EXCEPT !.pc = "attempt", !.tries = request[x].tries + 1]]

\* Mutant: the command does not recognise its own first transition.
ResumesNothing(x) == FALSE

\* exact_inflight_replay: the step the case is at was committed by this command.
Resumes(x) ==
  /\ request[x].expected = "RECEIVED"
  /\ \/ case.state = "EVIDENCE_READY" /\ case.by = BaseKey(x)
     \/ case.state = "ANALYZING" /\ case.requested = BaseKey(x)

\* The first read, and the checks before the first mutation.
ReadCase(x) ==
  /\ request[x].pc = "begin"
  /\ IF case.armed /\ x = Staff THEN request' = [request EXCEPT ![x] = Idle]
     ELSE IF case.state # request[x].expected /\ ~Resumes(x) THEN Outdated(x)
     ELSE CASE case.state = "RECEIVED" /\ x # Staff -> Goto(x, "ready")
            [] case.state = "RECEIVED" /\ x = Staff ->
                 \* _analysis_evidence_refs: the latest pair, if it is authorized.
                 \/ \E k \in Key :
                      /\ Latest(k) /\ Authorized(k)
                      /\ request' = [request EXCEPT ![x] = [@ EXCEPT !.pc = "ready", !.refs = PairOf(k)]]
                 \/ /\ \A k \in Key : ~(Latest(k) /\ Authorized(k))
                    /\ request' = [request EXCEPT ![x] = Idle]
            [] case.state = "EVIDENCE_READY" -> Goto(x, "analyzing")
            [] case.state = "ANALYZING" -> Goto(x, "job")
  /\ UNCHANGED <<command, records, case, sent, clock, stops>>

\* The transition to EVIDENCE_READY carries the refs of the frozen pair.
CommitReady(x) ==
  /\ request[x].pc = "ready"
  /\ \/ /\ case.by # BaseKey(x)
        /\ case.state = "RECEIVED"
        /\ case' = [case EXCEPT !.state = "EVIDENCE_READY", !.frozen = request[x].refs,
                                !.by = BaseKey(x)]
        /\ Goto(x, "reread")
     \/ /\ case.by = BaseKey(x)
        /\ Goto(x, IF case.frozen = request[x].refs THEN "reread" ELSE "failed")
        /\ UNCHANGED case
     \/ /\ case.by # BaseKey(x)
        /\ case.state # "RECEIVED"
        /\ Outdated(x)
        /\ UNCHANGED case
  /\ UNCHANGED <<command, records, sent, clock, stops>>

\* The read between the two mutations; an automatic start checks the refs again.
Reread(x) ==
  /\ request[x].pc = "reread"
  /\ Goto(x, CASE case.state = "EVIDENCE_READY" ->
                    IF x = Staff \/ OwnsStart(x) THEN "analyzing" ELSE "failed"
               [] case.state = "ANALYZING" -> "job"
               [] OTHER -> "failed")
  /\ UNCHANGED <<command, records, case, sent, clock, stops>>

CommitAnalyzing(x) ==
  /\ request[x].pc = "analyzing"
  /\ \/ /\ case.requested # BaseKey(x)
        /\ case.state = "EVIDENCE_READY"
        /\ case' = [case EXCEPT !.state = "ANALYZING", !.requested = BaseKey(x)]
        /\ Goto(x, "job")
     \/ /\ case.requested = BaseKey(x)
        /\ Goto(x, "job")
        /\ UNCHANGED case
     \/ /\ case.requested # BaseKey(x)
        /\ case.state # "EVIDENCE_READY"
        /\ Outdated(x)
        /\ UNCHANGED case
  /\ UNCHANGED <<command, records, sent, clock, stops>>

-----------------------------------------------------------------------------
\* The worker's call of the model: list_model_authorized returns the preview of
\* the latest complete pair, or nothing if that one is not authorized.
CallAnalyst ==
  /\ case.state = "ANALYZING"
  /\ \/ \E k \in Key : Latest(k) /\ Authorized(k) /\ sent' = PairOf(k)
     \/ /\ \A k \in Key : ~(Latest(k) /\ Authorized(k))
        /\ UNCHANGED sent
  /\ case' = [case EXCEPT !.state = "ANALYZED"]
  /\ UNCHANGED <<command, records, request, clock, stops>>

\* A request stops before its next step; its client may send it again.
Stop(x) ==
  /\ request[x].pc \notin {"idle", "answered", "job", "conflict", "stale", "failed"}
  /\ stops > 0
  /\ stops' = stops - 1
  /\ request' = [request EXCEPT ![x] = Idle]
  /\ UNCHANGED <<command, records, case, sent, clock>>

UploadStep(c) == PutOriginal(c) \/ PutPreview(c) \/ Attempt(c)
BeginStep(x) == ReadCase(x) \/ CommitReady(x) \/ Reread(x) \/ CommitAnalyzing(x)

Next ==
  \/ \E c \in Client : StartUpload(c) \/ UploadStep(c)
  \/ StaffRequest
  \/ \E x \in Requester : BeginStep(x) \/ Stop(x)
  \/ CallAnalyst

Spec == Init /\ [][Next]_vars

\* A request that was sent is served, and a client whose request stopped sends
\* it again.
Fairness ==
  \A c \in Client : WF_vars(StartUpload(c) \/ UploadStep(c) \/ BeginStep(c))

-----------------------------------------------------------------------------
(* Properties *)

Request ==
  [pc : {"idle", "original", "preview", "conflict", "attempt", "answered", "begin", "ready",
         "reread", "analyzing", "job", "failed", "stale"},
   stamp : Nat, tries : 0..MaxTries, refs : Pair \cup {None},
   expected : {"RECEIVED", "EVIDENCE_READY"}]

TypeOK ==
  /\ command \in [Client -> [key : Key, image : Image, consent : BOOLEAN]]
  /\ records \in [Key -> [Role -> Record \cup {None}]]
  /\ case \in [state : {"RECEIVED", "EVIDENCE_READY", "ANALYZING", "ANALYZED"},
               armed : BOOLEAN, frozen : Pair \cup {None},
               by : Pair \cup {None, Staff}, requested : Pair \cup {None, Staff}]
  /\ request \in [Requester -> Request]
  /\ sent \in Pair \cup {None}
  /\ clock \in Nat
  /\ stops \in 0..MaxStops

\* The two halves under one key always come from one and the same command, also
\* when two clients use the key for different files or different consents and
\* stop between the halves.
HalvesMatch ==
  \A k \in Key :
    records[k]["original"] # None /\ records[k]["preview"] # None => OnePair(k)

\* The pair an analysis was frozen on stays what it was when it was frozen:
\* complete, of the same content and with consent, whatever is uploaded later.
FrozenPairStands ==
  case.frozen # None =>
    LET k == case.frozen.key IN Authorized(k) /\ PairOf(k) = case.frozen

\* An upload that is answered with a job is the one whose pair the command was
\* frozen on: a client is never told that another client's pair is its own.
JobMeansFrozen ==
  \A c \in Client : request[c].pc = "job" => case.frozen = PairOf(command[c].key)

\* The three rounds of the automatic start are enough: an upload never ends in
\* a version conflict, however its siblings and retries interleave.
RoundsSuffice == \A c \in Client : request[c].pc # "stale"

\* An armed intake is not stranded: once a pair is complete and authorized, the
\* analysis starts, although requests may stop between the two transitions of
\* the command and other uploads may not finish what they began.
AuthorizedIntakeStarts ==
  case.armed /\ (\E k \in Key : Authorized(k)) ~> case.state \in {"ANALYZING", "ANALYZED"}

\* service/README.md: an armed intake freezes its triggering pair, and a later
\* upload cannot be sent to the model by substitution.
ModelSeesFrozenPair == case.armed /\ sent # None => sent = case.frozen
=============================================================================
