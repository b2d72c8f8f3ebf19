# Found Roll: TLA+ specifications

Specifications, model-checking configurations and proofs for the custody core of
Found Roll: the service that takes a found item from intake through analysis,
claim evidence, human gates, a relay reservation and a two-party handoff to a
closed Item Passport.

## 1. The system

| component | state it keeps | operations | hard behaviour |
|---|---|---|---|
| custody graph and release policy (`service/app/state_machine.py`, `policy.py`) | none | `assert_transition`, `evaluate_release_policy` | edges that a late command could take |
| custody service (`custody_service.py`) | none of its own: each command reads, decides, calls others, commits | analysis, claim evidence, identity, approval, reservation, relay task, callback, credentials, release, close, reconciliation | commands overlap, repeat, stop half-way; decisions on stale reads |
| repository (`repository.py`, in memory and Firestore) | cases, events, outbox, claims, handoffs, tokens, claim links, receipts | one transaction per mutation: receipt, version, graph, writes | everything rests on it |
| outbox and tasks (`outbox.py`, `/tasks/outbox`) | outbox rows, execution claims | publish, reconcile, deliver, claim, recover | lost replies, redelivery, leases shorter than the work |
| claim links (`repository.py`, `main.py`) | one-time link of a case | issue, inspect, consume, rotate | rotation beside an answer through the old link |
| evidence store (`evidence.py`) | uploaded pairs of original and preview | put, list, latest or exact pair | half a pair, repeated uploads, a pair uploaded after the command froze another |
| Relay Post (`simulator/app/store.py`) | items, reservations, credentials, idempotent responses, with versions and eTags | reserve, issue, attest, finalise, expire, sign the callback | two cases and one item, expiry, repeated keys |
| relay gateway (`relay.py`) | none | `execute`, `issue_credentials`, `attest_token`, callback verification | an answer lost after the effect |
| demo reset (`replace_synthetic_fixture`) | workflow epoch | replace the demo case | old handlers meeting a new case with the same version numbers |
| case analyst, inventory (`agent.py`, `inventory.py`) | none | one proposal per analysis | slow, may abstain or fail |
| HTTP layer, auth, config, browser client, scripts, evaluation | none of the custody state | request handling, rendering, offline checks | - |

How they interact: a client calls the HTTP layer, which calls one command of the
custody service. The command reads the case, checks the version the client
states, may call Relay Post, and commits one or more mutations, each of them one
repository transaction. Some mutations add an outbox row in the same
transaction; the row is then published as a Cloud Tasks task of a deterministic
name, and its delivery comes back as a request of its own. Relay Post answers
the call of the worker, and the signed result of a finalised handoff also comes
in as a callback. There is no lock between requests: what keeps commands apart
is the transaction and the version it expects.

What makes each part correct:

- lifecycle: no reservation and no relay effect without the gates of the
  policy; no release without both credentials and staff confirmation; no lost
  update; an event log that is the history of the case; a case that stopped
  stays stopped;
- outbox: a command makes one model call at most, a row ends as its case says,
  and so does its claim, a committed command settles;
- claim links: every answer uses up a link of its own; a link that is reported
  active is one through which an answer is taken; a wrong answer is followed by
  its replacement;
- evidence: the pair that is analysed is the pair the command froze;
- relay: an item is in at most one live reservation, an operation takes effect
  once per key, credentials are used once, and no operation that begins after the
  end of a reservation or of its credentials takes effect;
- service and relay: the service never records what the relay does not hold, and
  is one effect behind at most; what the relay accepted for a client is not lost;
- reset: no result of the old epoch reaches the new case, and a case has one
  command exactly when it asked for its analysis. That no command of a new run is
  left without its task is promised, but not kept (section 3).

`PROJECT.json` lists the hazards of the code line by line, with the properties
that watch each of them.

## 2. Modules

| module | models | extends / uses |
|---|---|---|
| `CustodyGraph` | state graph, release policy (pure operators) | |
| `ItemPassport` | one case and the custody service around it | `CustodyGraph`, instance of `CustodyPromise` |
| `CustodyPromise` | abstract specification: stages of custody and the facts each needs | |
| `MCItemPassport` | instance for TLC: symmetry, view | `ItemPassport` |
| `ItemPassportProofs` | theorems about `ItemPassport` | `ItemPassport`, `TLAPS` |
| `CustodyHistoryProofs` | more theorems about `ItemPassport`: log, records, relay and the promise | `ItemPassportProofs` |
| `OutboxDelivery` | publication, delivery and execution of one analysis command | |
| `MCOutboxDelivery` | instance for TLC: symmetry | `OutboxDelivery` |
| `OutboxDeliveryProofs` | theorems about `OutboxDelivery` | `OutboxDelivery`, `TLAPS` |
| `EvidenceIntake` | uploads of one case, the start of its analysis, what the analyst is sent | |
| `MCEvidenceIntake` | instance for TLC: symmetry, or one client's command fixed | `EvidenceIntake` |
| `EvidenceIntakeProofs` | theorems about `EvidenceIntake` | `EvidenceIntake`, `TLAPS` |
| `RelayStore` | Relay Post: items, reservations, credentials, stored responses | instance of `ItemLock` |
| `ItemLock` | abstract specification: a lock of the items whose holds end | |
| `MCRelayStore` | instance for TLC: symmetry | `RelayStore` |
| `RelayStoreProofs` | theorems about `RelayStore` | `RelayStore`, `TLAPS` |
| `RelayHandoff` | service and relay composed, from a reservation intent to the release | `RelayStore` |
| `MCRelayHandoff` | instance for TLC: two cases after one item, symmetry | `RelayHandoff` |
| `RelayHandoffProofs` | theorems about `RelayHandoff` | `RelayHandoff`, `RelayStoreProofs` |
| `ClaimLinks` | private links, the answers through them, their rotation and inspection | |
| `MCClaimLinks` | instance for TLC: shared keys, symmetry | `ClaimLinks` |
| `ClaimLinksProofs` | theorems about `ClaimLinks` | `ClaimLinks`, `TLAPS` |
| `FixtureReset` | resets of the demo case beside its analysis | `CustodyGraph` |
| `MCFixtureReset` | instance for TLC: symmetry, view | `FixtureReset` |
| `FixtureResetProofs` | theorems about `FixtureReset` | `FixtureReset`, `TLAPS` |

### ItemPassport

`passport`, `handoff`, `tokens`, `outbox`, `log` and `receipts` are the
repository's records of one case; `remote` is the set of relay operations that
took effect; `handler[h]` is what request or task delivery `h` has read so far
and the point it has reached. A command is an action that starts (the read of
the case and the checks before the first side effect), one action per further
read, and one per commit. `ApplyMutation` is `apply_mutation`: receipt, expected
version, state graph, then all writes or none. `Abandon` stops a handler before
any of its steps, so a client that gave up, a crashed process and a timed-out
task are all there; the retry is a new start with the same or another key.

Abstractions. A timestamp or reference that is only tested for presence is a
Boolean (`identity`, `approval`, `confirmed`, `attested`). The two ways the
analyst can stop a case without asking for review of its own
(`ANALYST_UNAVAILABLE`, `ANALYST_REVIEW_REQUIRED`) are one event. The row of a
kind stands for the only row of that kind a case can have, since the graph
passes each request state once; outbox status `OPEN` is `PENDING` or
`DISPATCHED`. A reserve or release command that finds its own intent committed
returns a receipt and changes nothing, and is left out. The relay calls of
`issue_tokens` and `attest_token` only decide whether the command goes on here
(`Abandon` is the other outcome); `RelayExecute` covers the HTTP gateway, whose
redelivered reservation may be refused after it took effect, and the fixture
gateway. Idempotency keys keep the derivation of the code: the name of the
command's step together with the key of the client, or with the row served.

### OutboxDelivery

`row`, `claim` and `case` are the repository's records, `task` the Cloud Tasks
task of the row's name, `publisher` the request that committed the command and
the operators that run the reconciler, `worker` the deliveries. The external
part is Cloud Tasks, modelled from how the code uses it and from the deployment
notes: a name can be used once, deliveries are repeated until one is
acknowledged or the attempts are used up, an attempt may be delivered twice, a
creation may take effect although its reply is lost. `docs/deployment.md` asks
for one concurrent dispatch and a minimum backoff longer than the lease, which
is the guard of `Dispatch`; `DispatchAgain` breaks both on purpose. A worker
that outlives its lease goes on until a commit is refused.

### EvidenceIntake

`records` is the evidence store: under each idempotency key the record of the
original and the record of the preview, each with the fingerprint of the command
that wrote it. `case` holds the state of the case, whether it is an ordinary
intake armed for an automatic start, the pair its events froze and the start
that requested the analysis. `request[x]` is the upload of a client or the start
by staff, and the point it has reached.

An upload is one action per transaction or read: `StartUpload` (which
takes the time both records get), `PutOriginal`, `PutPreview`, `Attempt` (one
round of `auto_start_authorized_intake_analysis`), and then the steps of
`begin_analysis`: `ReadCase`, `CommitReady`, `Reread`, `CommitAnalyzing`. A put
is create-only: it finds a record of the same command, refuses one of another,
or writes. `Stop` ends a request before any step and its client may repeat it.

Abstractions. Image validation, sanitising and storage paths have no part in the
properties. Uploads have distinct times, so that the latest pair is one pair.
While the analysis starts, the state of a case determines its version, so a
transaction on a version is one on a state. The delivery of the command is
`OutboxDelivery`'s subject; here `CallAnalyst` is the one call that reads the
evidence.

### RelayStore

`items` and `reservations` are the simulator's dictionaries, `answered` the
idempotency records, `now` its clock. Every operation holds the lock, so it is
one action: it gives up what has lapsed (`SweptItems`, `SweptReservations`, the
function `_expire_locked`) and then does its own work on what is left. The code
reads the clock anew for the sweep, for each check and for what it records. In a
step, `now` is the first of these readings and `now'` the last (`Meanwhile`); a
check against a stored end reads it somewhere between (`Before`), so that a
presentation or a handoff may be recorded at or after the end it was checked
against. Times are stored by `isoformat`, which cuts them to the second (`Floor`;
a second has `Second` ticks): the end of a reservation and of its credentials is
compared as it was asked for and may be over as it is stored. A replay changes
nothing and a refusal
changes what the sweep changes, so both are `Sweep` or a stuttering step; that
covers stale eTags, wrong bindings, wrong credentials and wrong custodians. An
identifier of a reservation is a digest of case, item and key, which makes a
repeated request meet its own reservation again. `token_consumed` is the set
`attested`, since both change together. Left out: reset of the fixture, the limit
of 24 hours, the history of a reservation and the body and signature of the
callback.

### RelayHandoff

The module extends `RelayStore`, whose operations are the relay's side, and adds
the service's: `passport` and `handoff` are its records of each case, `receipts`
the commands of clients that were committed, and `call[h]` is what a request or
task delivery read, which expiry it asks for and how far it got. A command is
four steps. It starts by reading and checking the case (`DeliverReserve`,
`IssueTokens`, `AttestToken`, `DeliverRelease`). It then reads the handoff, on its
own, and computes the expiry it asks for from the clock (`ReadHandoff`); between
the two reads another command may commit, so that it holds an old version of the
case with a new version of the reservation. The gateway's request then ends in one of three ways: `Answered`, with its effect
or from a stored answer of the same key and body; `AnswerLost`, with its effect;
`NotDone`, which is every refusal and every failure before the effect. Last, the
answer is committed (`CommitReserve`, `CommitRelease`, `CommitTokens`,
`CommitAttestation`), or the failure is told to the client or sends the case to
reconciliation. `BeginRelease` calls no one, and `ReceiveCallback` is the signed
artifact coming in by itself. `Stop` ends a command at any point.

Scope and body of a request are what the relay compares: the same key with
another expiry is refused, which is how a retried `issue_tokens` or a redelivered
reservation fails when the clock has moved on. The version the service last heard of goes with the request,
as the eTag does.

Abstractions. One clock serves both sides. The id of the outbox row, the key of
the reservation, is represented by the case. A stored answer whose callback is
too old for `verify_callback_signature` is `NotDone`. The service's own checks of
an end (of the reservation in `begin_release`, of the credentials in
`consume_token`) read the clock in the step of their transaction, and no proof
rests on them. Deliveries of a relay task may
overlap here, although the row's handling allows one at a time.

What the module shows of the code: `attest_token` reads the case before the
handoff (`custody_service.py:1709` and `1722`). When the other role commits
between the two, the relay is sent its present version and accepts the
presentation, and the service refuses it with `stale_case_version`. The relay is
then one effect ahead, and no other command gets past it; the same command under
the same key is answered from the relay's memory and committed. `AcceptedNotLost`
says exactly this. It does not say that the repetition comes, or that it comes in
time: credentials may end first, and a `tokens` command that is repeated at
another moment asks for another expiry and is refused.

### ClaimLinks

`link` and `issuance` are the two places a link is stored, `claimLinks` by case
and `claimLinkIssuances` by key; `receipt` is the receipt of each answer.
`claimant`, `staff` and `viewer` are requests. An answer is: the read of case and
clock (`SubmitClaimEvidence`, or `Repeat` after a stop), the transaction
(`CommitAnswer`, `ReplayAnswer` or `RefuseAnswer`), the route's look at the result
with a new reading of the clock (`Rotate`), and the transaction that issues the
replacement (`IssueReplacement`). An inspection is two reads, of the case and of
the link. `good` in an inspection is a history variable: whether an answer through
the link would have been taken at some moment since the first read.

Abstractions. A token is a digest of case and key; here the token of a case is
the key of its issuance. In the code the keys of staff and the keys of rotations
(`rotate:` and the key of the answer) are strings of one namespace; a key of
staff that itself begins with `rotate:` is left out, since the bundled client
makes keys that begin with `claim-link`. An answer is right or wrong, and the case
is one that the question was put to. Left out: a token of another case and a version other
than the link's, which are refused; a repeated request of staff, which returns
the first link and changes nothing; the third read of an inspection, which fetches
the text of the question.

### FixtureReset

`case` is the demo case with its epoch and with `packet`, the epoch whose
evidence its candidates rest on; `rows` and `claims` are the outbox and its
execution claims, `created` the names of tasks that were ever created and `owed`
those whose delivery Cloud Tasks still repeats. `ResetDemo` is
`replace_synthetic_fixture`: a new epoch at version 1, rows and claims deleted,
evidence and task names left. Everything else is what may be under way at that
moment: the steps of `begin_analysis`, of the publication and of
`process_outbox`. Kind and version of the command are always the same, so that
the digest that names row and task differs by the epoch only (`RowId`).

Abstractions. Any task that was created may be delivered, late and again, and the
lease of a claim may be over at any moment. A task is owed until a delivery finds
its row done (`Acknowledge`); that a queue also drops a task whose attempts are
used up is left out, so that what is found missing here is missing for another
reason. Receipts, failures of a publication, the reconciler and the case after its question are left out; the first three are
in `OutboxDelivery` and `EvidenceIntake`. Of what a reset deletes, handoffs,
tokens, links and receipts go the way of the rows and have no part here.

What the module shows of the code: `apply_mutation` compares versions, and these
start at 1 again, so a request of the old epoch may commit a step in the new one.
The new case can then be analysed without evidence of its own, which ends in
`MANUAL_REVIEW`. It can also be given the row of the old epoch again: an old
request that had read its case before it queued the analysis commits the row with
the id of the old epoch, and the name of its task is taken. `NextRunNotStranded`
is what the documentation says of this, and a violated run refutes it.
`OneCommandPerCase` is what remains: however resets and requests cross, the case
has one command exactly when it asked for its analysis, no claim is left without
a row, and a command made from a case of the present epoch is dispatched only with
its task. Results of the analyst are kept out by the execution claim
(`PacketOfThisEpoch`).

## 3. Checks

| run | question | bounds | result |
|---|---|---|---|
| `item_passport` | does the lifecycle keep its gates, evidence, ledger and promise under overlap, repetition and crashes | 2 handlers, 2 keys, 1 wrong answer tolerated | holds, 223,896 states |
| `outbox_delivery` | one model call, consistent ends of row, claim and case | 2 deliveries, 2 operators, 3 attempts, 1 duplicate, 1 crash, 2 reconciliations, 1 failed creation | holds, 350,857 states |
| `outbox_liveness` | does a committed command settle | as above, 1 operator, 2 crashes, no failed creation, no lost reply | holds |
| `outbox_ambiguous` | is an ambiguous creation safe to retry, as the comment says | no crash, no duplicate, 2 reconciliations | violated |
| `evidence_intake` | are pairs whole, does the frozen pair stand, who is told that the job is its own, are three rounds enough, does an armed intake with an authorized pair start | 2 clients, 2 keys, 2 images, 2 stops, staff | holds, 299,609 states |
| `evidence_substitution` | is the analyst sent the frozen pair only, as the documentation says | 2 clients, 2 keys, 2 images | violated |
| `relay_store` | do items and reservations agree, are both roles needed, does every operation begin in time, is the store a lock of its items | 2 cases, 2 items, 2 keys, 5 ticks of half a second | holds, 141,563 states |
| `relay_handoff` | does the service follow the relay, is a release never premature, is nothing lost that the relay accepted | 2 cases after 1 item, 2 handlers, 2 client keys, 4 ticks of half a second, hold 3, credentials 2 | holds, 969,274 states |
| `claim_links` | does an answer use up one link, is a link that is reported active good, is a wrong answer followed by its replacement | 1 case, 2 claimants, 2 keys, 1 staff with 2 keys, 1 viewer, 1 wrong answer tolerated, life 1, 2 instants | holds, 775,544 states |
| `claim_rotation` | the last of these, as the documentation says it, for two cases | 2 cases, 1 claimant, the same 2 keys at both, 1 staff, no viewer | violated |
| `fixture_reset` | do results of an earlier run stay out of the demo case, does it have one command when it asked for one | 2 requests, 2 deliveries, 3 epochs | holds, 1,955,200 states |
| `reset_stranded` | is no command of a new run left without its task, as the documentation says | 2 requests, 1 delivery, 2 epochs | violated |

Why the bounds are enough. A race in the lifecycle is between a handler that
holds a snapshot and one that commits, and a third only repeats the part of one
of them; two keys make a repeated command and a second command of the same kind
both possible; one tolerated wrong answer lets the limit be reached by two
answers that may overlap. The limit of the code is three, and the proofs hold
for every limit. For the outbox, two deliveries are the worker that outlived its
lease and the one that took over; with three attempts, a crash and a duplicate,
both the takeover of a takeover and an exhausted task occur. For the evidence,
two clients share a key or do not, and choose content and consent freely; with two
stops both may be interrupted, or one twice; a command that starts twice, a pair
completed by a repeated upload and a newer pair beside a frozen one all occur. What
more clients could add is left to the proofs, which hold for any number. For the
relay, two cases, two items and two keys give a competitor for every item and a
second reservation of a case; with two ticks in a second an end may be cut or
not, and five ticks are enough for credentials to end before their reservation,
the reservation after them, another one to follow, and the clock to pass an end
within a step. With the service, two cases after one item and two overlapping commands,
each repeatable under either key, make every pair of commands meet between
any two of their reads, request and commit; four ticks let a retry ask for another expiry, credentials
end before the reservation and the reservation before its release. For the links,
two claimants with two keys are one command twice and two commands at once, two
answers are the one that is replaced and the one that passes the limit, and two
instants are a link before and after its end. For the reset, two requests and two
deliveries are one of the old epoch and one of the new at each place, and a third
epoch lets a row of the first meet the case of the third.

`MCItemPassport` uses a view: a handler whose snapshot is no longer current can
only be refused or find its own receipt, so what it saw is forgotten, and the
two keys of a command are interchangeable. A constraint on the actions makes a
fresh command take the lowest free key. `MCEvidenceIntake` fixes the key and the
file of one client, which are interchangeable with the others, since the run with
fairness may not declare a symmetry. `MCFixtureReset` uses a view too: what a
request or delivery read is forgotten at the points after which it is read again.
Deadlock is not checked where the system may stop: a closed case, an outbox whose
bounds are used up, an intake whose requests are answered, a claim whose answers
are used up, a demo case that was reset as often as the bound allows. It is
checked for the relay, alone and with the service, which always serves a read.

The abstract specification: `PromiseKept` maps a case to `CustodyPromise`
(stage from the state, facts from the claim, the human gates and the handoff)
and checks that every behaviour of the service is one of the promise.
`ItemsLocked` maps Relay Post to `ItemLock`: the reservation an item is held for
is the live reservation that names it, found among the reservations and not read
from the item, and reservations that expired or ended are over and never come
back.

Fairness (`FairSpec` of `OutboxDelivery`): weak fairness of a process that has
started, of the queue's dispatch, of the clock that ends a lease, and of an
operator who runs the reconciler while it has work. A crash is never forced.
The code justifies the first by having no wait inside a command, the queue's
contract the second, and `docs/deployment.md`, which makes the reconciler the
recovery for failed publications, the last.

`Fairness` of `EvidenceIntake` is weak fairness of each client with its request:
a request that was accepted is served, and a client whose upload stopped repeats
it, which is what the idempotency key of the upload is for. Staff and stops are
never forced.

The violated runs. `outbox.py:119` and `service/README.md:171` say that an
ambiguous first enqueue is safe to retry, because the name is deterministic. The
counterexample: the task is created, the reply is lost, the row is marked
`FAILED` at stage `PUBLISH`; all attempts of the task are refused with
`outbox_publication_not_recovered` and the queue drops it; the operator's
reconciliation meets `AlreadyExists`, which is reported as queued, and marks the
row `DISPATCHED`. No task is left, the row is no longer eligible for
reconciliation, and the case stays `ANALYZING`.

`service/README.md:24` says that an armed intake freezes its triggering pair and
that a later upload cannot be sent to the model by substitution. The
counterexample: the first pair is complete and authorized, the command freezes
it and the case is `ANALYZING`; a second client completes a pair of its own, which
the service still accepts as evidence; the worker then asks the store for the
latest complete pair (`agent.py:381`), and the analyst is sent the second one.

`service/README.md:19` says that a wrong answer consumes the old link and returns
a replacement. The counterexample needs two cases whose claimants use the same
key: both answers are taken, since receipts are found by case and key; the first
rotation issues its link under `rotate:` and the key; the second meets that
issuance record, which is stored under a digest of the key alone
(`custody_service.py:413`), and is refused with `idempotency_conflict`. Repeating
the answer meets the same refusal, and the claimant has no link until staff issue
one. The bundled browser client makes unique keys and does not run into this. In
`claim_links`, with one case, the property holds.

`service/README.md:171` says that each synthetic reset creates a new epoch so that
the retention of task names cannot strand the next demo run, and the comment at
`repository.py:1203` that a reset leaves no orphaned row. The counterexample: two
requests read the same case of the first epoch, both about to queue its analysis;
one does so, its task is created, delivered and acknowledged with the row done,
and the case is reset; a request of the new run brings the case to the version the
other one read; that one then commits in the new epoch, with a row whose id and
task name are digests of the old one; the creation meets `AlreadyExists`, which is
reported as queued, and the row is marked `DISPATCHED`. No task is left for it and the case
stays `ANALYZING`.

## 4. Proofs

Every invariant and every action property that a passing run checks, and both
refinements, are theorems: the run shows them on the instance of section 3, the
theorem for every value of the constants. All assumptions are on constants and
are named in the module that declares them; those on `None` (or `Idle`) only say
that a value that stands for nothing is none of the values it is compared with.
`ReplacementPromised` alone has a hypothesis beside them.

Each component has one inductive invariant. Apart from the properties it
contains, its parts say what a step relies on that it does not check: what a
process under way read and how that relates to the records now. The proof that
`Next` keeps it has one step per action; lemmas on what records and updates
contain come first, since most actions need them.

### ItemPassportProofs

For any set of handlers and keys and any limit of wrong answers
(`WrongAnswerLimitAssumption`: it is a natural number):

- `TypeCorrect`: `Spec => []TypeOK`;
- `SnapshotsAreCurrent`: `Spec => []SnapshotsCurrent`;
- `GatesHold`: `Spec => []ReleaseGates`;
- `GatesHoldAhead`: `Spec => []GatesAhead`.

They rest on one inductive invariant, `IInv`, the conjunction of these four and
of `RelayArguments` (a worker that calls the relay serves a relay row). None is
inductive alone. `ReleaseGates` is disturbed by `CommitReservation`, which
trusts a decision taken on an old read; that the read is still the case when the
transaction is accepted is `SnapshotsCurrent`, and that the decision was taken
at all is `GatesAhead`. `SnapshotsCurrent` is kept because an accepted mutation
always advances the version (`MutationSnapshots`) and types make versions
numbers. The proof has one lemma for a step that commits (`MutationInductive`:
any mutation with well-formed records that does not weaken the policy's inputs
and leads where `MayLeadTo` allows), one for a step that does not
(`HandlerStep`), and then one step per action.

### CustodyHistoryProofs

Under the same assumption:

- `EvidenceHolds`: `Spec => []HandoffEvidence`;
- `LedgerIsHistory`: `Spec => []EventLedger`;
- `CaseAgreesWithRelay`: `Spec => []RelayAgreement`;
- `RowsTellTheTruth`: `Spec => []OutboxTruth`;
- `AnswersAreCounted`: `Spec => []WrongAnswersCounted`;
- `StoppedStays`: `Spec => StoppedStaysStopped`;
- `PromiseImplemented`: `Spec => PromiseKept`, the refinement of `CustodyPromise`.

The invariant is `HistoryInv`: `IInv`, the five invariants, and what they need.
`KeysReceipted` and `ReceiptsTold` tie the log to the receipts: an event's key
cannot repeat because its receipt would have answered, and a repeated step of a
worker may conclude from its receipt what the case says. `StateFits` is what the
state of the case says of the other records; `HandlersKnow` is what a handler
that has come so far knows, such as that a worker between its relay call and its
commit serves a row whose effect the relay has.

The argument uses `SnapshotsCurrent` once, for each command: a transaction that
is accepted finds the case its handler read, so that the commit is a step of one
of nine kinds on the records (`CaseStep`) which no longer mention what any
handler read. Everything else is about these steps. `CaseStepKeeps` shows that each keeps the records in
order (`RecordsKept`), and `KnowsKept` that what the other handlers know stays
true. For `StoppedStaysStopped`, no `CaseStep` starts in a stopped state. For the
refinement, each `CaseStep` is a step of `CustodyPromise` on its stage and facts,
and every other step leaves both as they are; that the facts a stage needs are
there is what the invariant supplies.

### RelayStoreProofs

For any items, cases and keys and any length of time (`EndOfTimeAssumption`: the
clock's bound is a natural number; `SecondAssumption`: a second has a tick; and
`NoneAssumption`: `None` is no reservation, no record and no number):

- `TypeCorrect`: `Spec => []TypeOK`;
- `HoldsAreLive`: `Spec => []HoldIsLive`;
- `HandoffTakesBothRoles`: `Spec => []BothRolesPresented`;
- `OperationsBeginInWindow`: `Spec => BegunInWindow`;
- `StoreIsLock`: `Spec => ItemsLocked`, the refinement of `ItemLock`.

The three invariants together are inductive. `HoldIsLive` has two directions
because each operation needs both: a reservation on an available item must not
meet a live one, and an operation on a live reservation must find its item held.
The proof follows an operation in two parts. `SweptGood` shows the invariant of
the items and reservations after the sweep, which are values and not yet a state;
`GoodStep` shows it for one reservation and its item changing together, in any
items and reservations that satisfy it, and every operation is an instance.
`OperationsBeginInWindow` speaks of the first reading of the clock, the sweep's:
an operation on a reservation finds it not swept away, so that it began before
the end, and an operation with credentials found theirs ahead at a later reading.
A new end is at most the cut part of a second behind, which is what `Floor`
takes away.

The refinement needs one fact more, `MadeOnce`: a reservation that exists was
made under a key that is answered. Without it a repeated request could hold an
item for a reservation that is over. `LockReads` shows that what the lock reads
off the reservations is what the items say; the sweep is then the lock's
expiry of exactly the reservations that lapsed (`SweptLock`), and
`ReserveLocks`, `AdvanceLocks` and `FinalizeLocks` add what the operation does.

### RelayHandoffProofs

For any cases, items, handlers and client keys and any times (the assumptions of
`RelayStore`; `RowsAssumption`: the key of a reservation is that of its case's
row; `ItemOfAssumption`: every case is after an item; `TimesAssumption`: holds
and credentials are asked for a second at least):

- `HandoffTypeCorrect`: `HandoffSpec => []HandoffTypeOK`;
- `RelayFollowed`: `HandoffSpec => []ServiceFollowsRelay`;
- `ReleasesAreReady`: `HandoffSpec => []ReleaseIsReady`;
- `AcceptedStayCommittable`: `HandoffSpec => []AcceptedNotLost`;
- `RelayKeepsItsPromises`: `HandoffSpec => [](HoldIsLive /\ BothRolesPresented)`;
- `RelayStaysLock`: `HandoffSpec => ItemsLocked /\ BegunInWindow`.

The last two carry the theorems of `RelayStoreProofs` over to the composition,
where requests state the version a command read and not the present one.

`HandoffInv` adds to the relay's `IInv`: on both sides the version tells the
status (`RelayFits`, `HandoffFits`); the relay is as far as the service or one
effect ahead (`Follows`); every stored answer stands for an effect the
reservation shows, and a client's is committed or the service is still where it
was then (`AnswersDone`); a version is served to one command (`TokensServedOnce`,
`AttestsServedOnce`); and what a command read of the case is the case still, or a
case that has moved on (`ReadingFits`). The handoff it read is the handoff still
or an earlier one, and if the case has not moved on since its own, earlier read,
the handoff has not either (`Read`): that is why a commit that finds the version
it expects may use what was read apart. The stored answers are the point: a lost answer is asked
for again, perhaps after the case went on, and the answer from memory must not be
taken for a new effect. `ServiceFollowsRelay` alone says nothing of them.

### OutboxDeliveryProofs

For any deliveries and operators and any bounds (`BoundsAssumption`: the bounds
are natural numbers and a task has an attempt; `NoneAssumption`: `None` is no
worker):

- `TypeCorrect`: `Spec => []TypeOK`;
- `OneModelCall`: `Spec => []AtMostOneModelCall`;
- `RowTruth`: `Spec => []RowMatchesCase`;
- `ClaimAndRowEnd`: `Spec => []ClaimEndsWithRow`;
- `LateResultsStayOut`: `Spec => RecoveryNeverProposes`.

`AtMostOneModelCall` is a counter that one action raises; what keeps it from
being raised again is `OneFirst`: one delivery at most is the first holder of the
claim, nobody has called the model before it did, and without a claim nobody has
begun. `NotTakenOver` is its counterpart for `LateResultsStayOut`: as long as the
first holder owns the claim, nobody else executes. `SeenFits` and `EndFits` say
that a delivery commits on, and ends the row by, what the case is.

### ClaimLinksProofs

For any cases, claimants, staff and keys, any limit of wrong answers, any
lifetime of links and any length of time (`WrongAnswersAssumption`,
`LinkLifeAssumption`, `EndOfTimeAssumption`, `NoneAssumption`):

- `TypeCorrect`: `Spec => []TypeOK`;
- `OneGoodLink`: `Spec => []ActiveMeansTaken`;
- `OneAnswerPerLink`: `Spec => []AnswersUseLinks`;
- `InspectionsAreTrue`: `Spec => []InspectionWasTrue`;
- `ReplacementPromised`: `DisjointKeys => (Spec => []WrongAnswerReplaced)`.

The invariant says that the two copies of a link agree and that only the latest
link of a case can still be good (`CopiesAgree`), how the versions of links and
receipts lie to that of their case (`VersionsFit`, `ReceiptsFit`), and what a
claimant's or viewer's request may rely on (`ClaimantsFit`, `ViewersFit`).
`FinitelyMany` makes counting answers meaningful with infinitely many keys.

`DisjointKeys`, that no two cases are answered under the same key, is the
hypothesis that the code does not establish; the run `claim_rotation` violates
the property where it fails, so that the two together say exactly when the
documented promise is kept. `claim_links`, with one case, satisfies it. Under it,
`RotationsFit` says that a link issued under the key of an answer replaces that
answer's link, and `RefusedMovedOn` that a refused replacement is one whose case
has moved on.

### EvidenceIntakeProofs

For any clients, keys and images and any number of stops (`StopsAssumption`,
`NoneAssumption`, and `StaffAssumption`: staff are no client):

- `TypeCorrect`: `Spec => []TypeOK`;
- `HalvesOfOneCommand`: `Spec => []HalvesMatch`;
- `FrozenPairKept`: `Spec => []FrozenPairStands`;
- `JobIsOwn`: `Spec => []JobMeansFrozen`;
- `ThreeRounds`: `Spec => []RoundsSuffice`.

`HalvesMatch` needs what an upload knows between its two puts (`UploadFits`).
`FrozenPairStands` and `JobMeansFrozen` need what a start carries from its check
to its commit (`StartFits`, `StaffFits`) and that in an armed case what was frozen
and what was requested is one pair (`CaseFits`). Three rounds are enough for any
number of uploads (`RoundsFit`): a first round fails only because the case is no
longer received; a second, only for the owner of the start, because it was
analysed meanwhile; and an analysed case leaves nothing to decide in the third.

### FixtureResetProofs

For any requests, deliveries and number of epochs (`MaxEpochAssumption`: the
bound is a positive number, and `NoneAssumption`: `None` is no worker, no epoch
and no status of a row):

- `TypeCorrect`: `Spec => []TypeOK`;
- `PacketHolds`: `Spec => []PacketOfThisEpoch`;
- `CommandsAcrossResets`: `Spec => []OneCommandPerCase`.

`PacketOfThisEpoch` is not inductive: the transaction that stores candidates
compares neither epoch nor packet. What is missing is `ClaimSeesEpoch`: a delivery
that has read the case since it claimed the row, and still holds the claim, read a
case of the present epoch, because a reset takes every claim away and a claim has
to be taken again before the next read. `ResultOfThisEpoch` is the step where it
is used.

`OneCommandPerCase` needs `AfreshInv`: within an epoch the state of the case
determines its version (`VersionFits`), so that a request of an earlier epoch
whose version fits meets the state it expects; nothing under way is of a future
epoch and what is marked or delivered was created (`AllFit`); the name of the
present epoch is free, or its task is still owed, or its work is done
(`NamesFit`), which a late mark cannot undo (`DoneStays`); from the request of its
analysis on a case has one row (`OneCommand`); and rows and claims are of no epoch
still to come (`RowsFit`). The row a case has may be one of an earlier epoch: the
statement about tasks excepts it, and `reset_stranded` shows that it has to.

### Only model-checked

Liveness is out of the prover's reach: `CommandSettles` and
`AuthorizedIntakeStarts` are checked by TLC under the fairness of section 3. The
four violated properties are refuted by TLC and have no theorem. That the pure
operators of `CustodyGraph` are those of the code rests on reading them.

## 5. Not modelled, and the plan

Not planned, because they hold no custody state: the HTTP layer with its header
and role checks, configuration, correlation ids, hashing, static fixtures and
disclosures, the browser client, scripts and the evaluation. What the model
answers is outside a specification; its three outcomes are in.

Left out of parts that are modelled: what only counts or shows (the counters of
replays and retries, the manifest, the projections of the API), signatures and
bindings of callbacks, which decide between a call and a refusal, the publisher of
local runs, which calls the worker at once, and the simulator's own reset.

A valuable case whose process stops between the identity attestation and the
request for approval (`custody_service.py:1266`) waits for ever: repeating the
command is answered from its receipt. That is what the code does, no document says
otherwise, and so no property does.

Planned:

1. The relay rows of several cases in `OutboxDelivery`, which has one command.
2. The reset of Relay Post beside the demo reset.
