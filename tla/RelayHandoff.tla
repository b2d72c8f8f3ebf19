----------------------------- MODULE RelayHandoff -----------------------------
(***************************************************************************)
(* The custody service and Relay Post together, from a committed           *)
(* reservation intent to the release: the relay commands of                *)
(* custody_service.py as they go through the HTTP gateway of relay.py to   *)
(* the store of RelayStore.                                                *)
(*                                                                         *)
(* A command reads the case, then the handoff, sends one request, and      *)
(* commits what the answer says.  Another command may commit between any   *)
(* two of these, the request may take effect and its answer be lost, the   *)
(* process may stop anywhere, and the command is repeated by its client or *)
(* by the queue.  One clock serves both sides.                             *)
(***************************************************************************)
EXTENDS RelayStore

CONSTANTS Handler,
          ClientKey,  \* idempotency keys of the clients' commands
          ItemOf,     \* the item each case has selected
          HoldTime,   \* how long a reservation is asked for: 20 minutes
          TokenTime   \* how long credentials are asked for: 10 minutes

\* The id of a case's outbox row, the key of its reservation and of its release,
\* is represented by the case.
ASSUME RowsAssumption == Case \subseteq Key
ASSUME ItemOfAssumption == ItemOf \in [Case -> Item]
ASSUME TimesAssumption ==
  HoldTime \in Nat /\ TokenTime \in Nat /\ Second <= HoldTime /\ Second <= TokenTime

VARIABLES passport,  \* state and version of each case
          handoff,   \* what the service recorded of each reservation
          receipts,  \* the commands of clients that were committed
          call       \* what each handler is doing

service == <<passport, handoff, receipts>>
all == <<vars, service, call>>

PassportState ==
  {"RESERVE_REQUESTED", "RESERVED", "CLAIMANT_PRESENT", "RELEASE_REQUESTED",
   "RELEASED", "RECONCILIATION_REQUIRED"}
Passport == [state : PassportState, version : Nat]

\* remote is the reservation's version as last told, 0 before it is held.
Handoff ==
  [remote : Nat, expires : Nat \cup {None}, issued : Nat \cup {None},
   attested : SUBSET Role]

Command == [op : {"reserve", "release"}, case : Case]
             \cup [op : {"tokens"}, case : Case, key : ClientKey]
             \cup [op : {"attest"}, case : Case, key : ClientKey, role : Role]

\* A command that read the case, and one that also read the handoff and has its
\* request, with the expiry it asks for.
Reading == [at : {"reading"}, command : Command, passport : Passport]
Call ==
  [at : {"calling", "accepted", "failed"}, command : Command, passport : Passport,
   handoff : Handoff, expires : Nat \cup {None}]
Idle == [at |-> "idle"]

HandoffInit ==
  /\ Init
  /\ passport = [c \in Case |-> [state |-> "RESERVE_REQUESTED", version |-> 0]]
  /\ handoff = [c \in Case |-> [remote |-> 0, expires |-> None, issued |-> None,
                                attested |-> {}]]
  /\ receipts = {}
  /\ call = [h \in Handler |-> Idle]

\* The reservation of a case at the relay.
Reserved(c) == <<c, ItemOf[c], c>>

-----------------------------------------------------------------------------
(* Starting a command: the case is read and checked first *)

Starts(h, command) ==
  /\ call[h] = Idle
  /\ call' = [call EXCEPT ![h] =
       [at |-> "reading", command |-> command, passport |-> passport[command.case]]]
  /\ UNCHANGED <<vars, service>>

\* A delivery of the reservation's or the release's task.
DeliverReserve(h, c) ==
  /\ passport[c].state = "RESERVE_REQUESTED"
  /\ Starts(h, [op |-> "reserve", case |-> c])

DeliverRelease(h, c) ==
  /\ passport[c].state = "RELEASE_REQUESTED"
  /\ Starts(h, [op |-> "release", case |-> c])

IssueTokens(h, c, k) ==
  /\ passport[c].state = "RESERVED"
  /\ Starts(h, [op |-> "tokens", case |-> c, key |-> k])

\* Whoever presents a credential was given it when it was issued.
AttestToken(h, c, k, role) ==
  /\ passport[c].state \in {"RESERVED", "CLAIMANT_PRESENT"}
  /\ handoff[c].issued # None
  /\ Starts(h, [op |-> "attest", case |-> c, key |-> k, role |-> role])

Earlier(s, t) == IF s < t THEN s ELSE t

TokenExpiry(c) == Earlier(handoff[c].expires, now + TokenTime)

Requests(h, expires) ==
  call' = [call EXCEPT ![h] =
    [at |-> "calling", command |-> @.command, passport |-> @.passport,
     handoff |-> handoff[@.command.case], expires |-> expires]]

\* The handoff is read on its own, and may be of another version of the case.
\* Credentials are not asked for twice, and a command whose end is over as it reads
\* the clock comes to nothing: the relay refuses the request, or the answer it
\* repeats is refused for its end.
ReadHandoff(h) ==
  LET command == call[h].command
      c == command.case
  IN /\ call[h].at = "reading"
     /\ \/ command.op = "reserve" /\ Requests(h, now + HoldTime)
        \/ /\ command.op = "tokens"
           /\ handoff[c].issued = None
           /\ now < Floor(TokenExpiry(c))
           /\ Requests(h, TokenExpiry(c))
        \/ command.op \in {"attest", "release"} /\ Requests(h, None)
     /\ UNCHANGED <<vars, service>>

\* Mutant: one presentation is enough.
MayReleaseEarly(c) ==
  /\ passport[c].state = "CLAIMANT_PRESENT"
  /\ handoff[c].attested # {}

\* begin_release calls no one, and its transaction finds the case and the handoff as
\* it read them, or refuses; its row is delivered by DeliverRelease.
MayRelease(c) ==
  /\ passport[c].state = "CLAIMANT_PRESENT"
  /\ handoff[c].attested = Role
  /\ now < handoff[c].expires

BeginRelease(c) ==
  /\ MayRelease(c)
  /\ passport' = [passport EXCEPT ![c] =
       [state |-> "RELEASE_REQUESTED", version |-> @.version + 1]]
  /\ UNCHANGED <<vars, handoff, receipts, call>>

-----------------------------------------------------------------------------
(* The request: its scope and body, and what it does at the relay *)

RequestKey(q) ==
  IF q.command.op \in {"tokens", "attest"} THEN <<q.command.case, q.command.key>>
  ELSE q.command.case

Scope(q) ==
  CASE q.command.op = "reserve" -> <<"reserve", RequestKey(q)>>
    [] q.command.op = "tokens" -> <<"credentials", RequestKey(q)>>
    [] q.command.op = "attest" -> <<"attestation", RequestKey(q)>>
    [] q.command.op = "release" -> <<"handoff", RequestKey(q)>>

\* The version of the item stands in the inventory the service was given, and it
\* is the first.
ItemVersion == 1

Body(q) ==
  LET c == q.command.case
      r == Reserved(c)
  IN CASE q.command.op = "reserve" -> <<c, ItemOf[c], ItemVersion, q.expires>>
       [] q.command.op = "tokens" -> <<r, q.handoff.remote, q.expires>>
       [] q.command.op = "attest" -> <<r, q.handoff.remote, q.command.role>>
       [] q.command.op = "release" -> <<r, q.handoff.remote>>

\* A request for a reservation states the version and etag of the item, unless the
\* case was reserved in the meantime: then it states the reservation's.
AsksForItem(q) == q.command.op = "reserve" /\ q.handoff.remote = 0

TakesEffect(q) ==
  LET c == q.command.case
      r == Reserved(c)
      key == RequestKey(q)
  IN \/ AsksForItem(q) /\ Reserve(key, c, ItemOf[c], ItemVersion, q.expires)
     \/ /\ q.command.op = "tokens"
        /\ reservations[r] # None
        /\ IssueCredentials(key, r, q.handoff.remote, q.expires)
     \/ /\ q.command.op = "attest"
        /\ reservations[r] # None
        /\ RecordAttestation(key, r, q.handoff.remote, q.command.role)
     \/ /\ q.command.op = "release"
        /\ reservations[r] # None
        /\ FinalizeHandoff(key, r, q.handoff.remote)

RelayReplays(q) ==
  /\ q.command.op = "reserve" => AsksForItem(q)
  /\ [scope |-> Scope(q), body |-> Body(q)] \in answered

Goes(h, at) ==
  call' = [call EXCEPT ![h] =
    [at |-> at, command |-> @.command, passport |-> @.passport, handoff |-> @.handoff,
     expires |-> @.expires]]

Answered(h) ==
  /\ call[h].at = "calling"
  /\ \/ TakesEffect(call[h])
     \/ RelayReplays(call[h]) /\ UNCHANGED vars
  /\ Goes(h, "accepted")
  /\ UNCHANGED service

\* The answer is lost after the effect.
AnswerLost(h) ==
  /\ call[h].at = "calling"
  /\ TakesEffect(call[h])
  /\ Goes(h, "failed")
  /\ UNCHANGED service

\* The relay is not reached or refuses: another body under the key, a version
\* that has moved on, a window that is over.  Or a stored answer is given again and
\* the callback in it is too old by now.
NotDone(h) ==
  /\ call[h].at = "calling"
  /\ Sweep
  /\ Goes(h, "failed")
  /\ UNCHANGED service

-----------------------------------------------------------------------------
(* Committing the answer *)

Ends(h) == call' = [call EXCEPT ![h] = Idle]

\* Mutant: an answer is committed whatever became of the case.
UnmovedAlways(h) == TRUE

\* The case is at the version the command read.
Unmoved(h) == passport[call[h].command.case] = call[h].passport

\* commit_relay_attestation, from the worker: the reservation is held, or the
\* item is released.  A case that has moved on is left alone.
CommitReserve(h) ==
  LET q == call[h]
      c == q.command.case
  IN /\ q.at = "accepted" /\ q.command.op = "reserve"
     /\ IF Unmoved(h)
        THEN /\ passport' = [passport EXCEPT ![c] =
                  [state |-> "RESERVED", version |-> @.version + 1]]
             /\ handoff' = [handoff EXCEPT ![c] =
                  [remote |-> 1, expires |-> Floor(q.expires), issued |-> @.issued,
                   attested |-> @.attested]]
        ELSE UNCHANGED <<passport, handoff>>
     /\ Ends(h)
     /\ UNCHANGED <<vars, receipts>>

Released(c, remote) ==
  /\ passport' = [passport EXCEPT ![c] = [state |-> "RELEASED", version |-> @.version + 1]]
  /\ handoff' = [handoff EXCEPT ![c] =
       [remote |-> remote + 1, expires |-> @.expires, issued |-> @.issued,
        attested |-> @.attested]]

CommitRelease(h) ==
  LET q == call[h]
      c == q.command.case
  IN /\ q.at = "accepted" /\ q.command.op = "release"
     /\ IF Unmoved(h)
        THEN Released(c, q.handoff.remote)
        ELSE UNCHANGED <<passport, handoff>>
     /\ Ends(h)
     /\ UNCHANGED <<vars, receipts>>

\* commit_simulator_callback: the signed artifact of the finalised handoff comes
\* in on its own.  After a reconciliation it is refused.
ReceiveCallback(c) ==
  LET record == reservations[Reserved(c)]
  IN /\ record # None
     /\ record.status = "HANDOFF_ATTESTED"
     /\ passport[c].state = "RELEASE_REQUESTED"
     /\ Released(c, record.version - 1)
     /\ UNCHANGED <<vars, receipts, call>>

\* A client's command is committed once; the receipt answers a repetition.
Commits(h, state, record) ==
  LET q == call[h]
      c == q.command.case
  IN IF q.command \in receipts
     THEN UNCHANGED service
     ELSE /\ passport' = [passport EXCEPT ![c] =
               [state |-> state, version |-> @.version + 1]]
          /\ handoff' = [handoff EXCEPT ![c] = record]
          /\ receipts' = receipts \cup {q.command}

CommitTokens(h) ==
  LET q == call[h]
  IN /\ q.at = "accepted" /\ q.command.op = "tokens"
     /\ \/ Unmoved(h)
        \/ q.command \in receipts
     /\ Commits(h, q.passport.state,
          [remote |-> q.handoff.remote + 1, expires |-> q.handoff.expires,
           issued |-> Floor(q.expires), attested |-> q.handoff.attested])
     /\ Ends(h)
     /\ UNCHANGED vars

\* consume_token examines the credential again, at the present time.
Consumable(q) ==
  /\ q.command.role \notin handoff[q.command.case].attested
  /\ now < handoff[q.command.case].issued

\* Mutant: a state the service does not declare.
AttestedStateEach(q) == q.command.role

AttestedState(q) ==
  IF q.command.role = "CLAIMANT" THEN "CLAIMANT_PRESENT" ELSE q.passport.state

CommitAttestation(h) ==
  LET q == call[h]
  IN /\ q.at = "accepted" /\ q.command.op = "attest"
     /\ \/ Unmoved(h) /\ Consumable(q)
        \/ q.command \in receipts
     /\ Commits(h, AttestedState(q),
          [remote |-> q.handoff.remote + 1,
           expires |-> handoff[q.command.case].expires,
           issued |-> handoff[q.command.case].issued,
           attested |-> handoff[q.command.case].attested \cup {q.command.role}])
     /\ Ends(h)
     /\ UNCHANGED vars

\* The transaction refuses, or the process ends, at any point.
Stop(h) ==
  /\ call[h].at \in {"reading", "calling", "accepted"}
  /\ Ends(h)
  /\ UNCHANGED <<vars, service>>

\* A client is told that the relay could not complete the request.
TellClient(h) ==
  /\ call[h].at = "failed"
  /\ call[h].command.op \in {"tokens", "attest"}
  /\ Ends(h)
  /\ UNCHANGED <<vars, service>>

\* The worker stops a case that still waits for its task.
RequireReconciliation(h) ==
  LET c == call[h].command.case
  IN /\ call[h].at = "failed"
     /\ call[h].command.op \in {"reserve", "release"}
     /\ IF passport[c].state = call[h].passport.state
        THEN passport' = [passport EXCEPT ![c] =
               [state |-> "RECONCILIATION_REQUIRED", version |-> @.version + 1]]
        ELSE UNCHANGED passport
     /\ Ends(h)
     /\ UNCHANGED <<vars, handoff, receipts>>

RelayRead == Sweep /\ UNCHANGED <<service, call>>

HandoffNext ==
  \/ \E h \in Handler, c \in Case : DeliverReserve(h, c) \/ DeliverRelease(h, c)
  \/ \E h \in Handler, c \in Case, k \in ClientKey :
       IssueTokens(h, c, k) \/ \E role \in Role : AttestToken(h, c, k, role)
  \/ \E c \in Case : BeginRelease(c) \/ ReceiveCallback(c)
  \/ \E h \in Handler :
       \/ ReadHandoff(h)
       \/ Answered(h) \/ AnswerLost(h) \/ NotDone(h)
       \/ CommitReserve(h) \/ CommitRelease(h) \/ CommitTokens(h) \/ CommitAttestation(h)
       \/ Stop(h) \/ TellClient(h) \/ RequireReconciliation(h)
  \/ RelayRead

HandoffSpec == HandoffInit /\ [][HandoffNext]_all

-----------------------------------------------------------------------------
(* Properties *)

\* Every record of the service and of the commands under way is of its type.
HandoffTypeOK ==
  /\ passport \in [Case -> Passport]
  /\ handoff \in [Case -> Handoff]
  /\ receipts \subseteq Command
  /\ call \in [Handler -> Call \cup Reading \cup {Idle}]

\* The version of a reservation without the step that gives it up.
Effects(r) ==
  CASE reservations[r] = None -> 0
    [] reservations[r] # None /\ reservations[r].status = "EXPIRED"
         -> reservations[r].version - 1
    [] reservations[r] # None /\ reservations[r].status # "EXPIRED"
         -> reservations[r].version

Backed(record, h, state) ==
  /\ record.expires = h.expires
  /\ h.issued # None => record.tokens = h.issued
  /\ h.attested \subseteq record.attested
  /\ state = "RELEASED" => record.status = "HANDOFF_ATTESTED"

\* What the service recorded of a reservation, its credentials, its presentations
\* and its release is what the relay holds, and the relay is at most one effect
\* ahead: a lost answer is never followed by another effect, however often the
\* command is repeated and by whom.
ServiceFollowsRelay ==
  \A c \in Case :
    /\ Effects(Reserved(c)) \in {handoff[c].remote, handoff[c].remote + 1}
    /\ handoff[c].remote # 0 =>
         Backed(reservations[Reserved(c)], handoff[c], passport[c].state)

\* A release is requested only of a reservation that the relay is ready to hand
\* over, has handed over, or has given up because its time was over: on the
\* service's side the request is never premature.
ReleaseIsReady ==
  \A c \in Case :
    passport[c].state = "RELEASE_REQUESTED" =>
      reservations[Reserved(c)].status \in {"CALLBACK_READY", "HANDOFF_ATTESTED", "EXPIRED"}

\* The relay accepted a client's command that stated version v of the reservation,
\* as its stored answer tells.
TokensAccepted(c, k, v) ==
  \E e \in 0..(EndOfTime + HoldTime) :
    [scope |-> <<"credentials", <<c, k>>>>, body |-> <<Reserved(c), v, e>>] \in answered
AttestationAccepted(c, k, v, role) ==
  [scope |-> <<"attestation", <<c, k>>>>, body |-> <<Reserved(c), v, role>>] \in answered

\* What the relay accepted for a client is committed, or the service still stands
\* where the command was accepted.  A presentation may be refused here although it
\* was accepted there, when the other role commits between the two reads of the
\* command; but no other command gets past it, so that its repetition under the same
\* key states the same request, is answered from the store, and is what the case
\* still waits for.
AcceptedNotLost ==
  \A c \in Case, k \in ClientKey, v \in 1..3 :
    /\ TokensAccepted(c, k, v) =>
         \/ [op |-> "tokens", case |-> c, key |-> k] \in receipts
         \/ /\ handoff[c].remote = v /\ handoff[c].issued = None
            /\ passport[c].state = "RESERVED"
    /\ \A role \in Role : AttestationAccepted(c, k, v, role) =>
         \/ [op |-> "attest", case |-> c, key |-> k, role |-> role] \in receipts
         \/ /\ handoff[c].remote = v /\ role \notin handoff[c].attested
            /\ passport[c].state \in {"RESERVED", "CLAIMANT_PRESENT"}
=============================================================================
