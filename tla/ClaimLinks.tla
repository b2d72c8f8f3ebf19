------------------------------ MODULE ClaimLinks ------------------------------
(***************************************************************************)
(* The private links through which a claimant answers the question of a    *)
(* case: custody_service.issue_claim_link, inspect_claim_link and          *)
(* submit_claim_evidence, the rotation of a link after a wrong answer in   *)
(* the route of main.py, and the repository transactions below them.       *)
(*                                                                         *)
(* A link is stored twice, as the link of its case and under the key of    *)
(* its issuance.  Its token is a digest of case and key, so that a         *)
(* repeated issuance returns the same token; here the token of a case is   *)
(* the key.  Every request reads the clock, and a claimant's request also  *)
(* the case, before its transaction.                                       *)
(***************************************************************************)
EXTENDS Naturals, FiniteSets

CONSTANTS Case,
          Claimant,     \* requests with an answer that may overlap
          Staff,        \* requests for a link that may overlap
          Viewer,       \* requests that look at a link
          ClaimantKey,  \* [Case -> set of the keys its claimants use]
          StaffKey,
          None,
          WrongAnswers, \* wrong answers after which a case still asks: 3 in the code
          LinkLife,     \* claim_link_ttl_seconds
          EndOfTime     \* bound: the clock stops here

ASSUME WrongAnswersAssumption == WrongAnswers \in Nat
ASSUME LinkLifeAssumption == LinkLife \in Nat \ {0}
ASSUME EndOfTimeAssumption == EndOfTime \in Nat

VARIABLES case,      \* state, version and wrong answers of each case
          link,      \* claimLinks: the latest link of each case, or None
          issuance,  \* claimLinkIssuances: the link of each key, or None
          receipt,   \* idempotency: what each answer came to, or None
          claimant, staff, viewer,  \* the requests
          now

stored == <<case, link, issuance, receipt>>
vars == <<case, link, issuance, receipt, claimant, staff, viewer, now>>

Key == UNION {ClaimantKey[c] : c \in Case}
Answer == {"right", "wrong"}

\* The keys of issuances: those of staff, and "rotate:" before a claimant's key.  Both
\* are strings of one namespace; the clients of staff number keys that begin with
\* "claim-link", and one that itself begins with "rotate:" is left out.
IssuanceKey == ({"staff"} \X StaffKey) \cup ({"rotate"} \X Key)

CaseRecord ==
  [state : {"ANALYZING", "CLARIFICATION_REQUIRED", "CLAIM_EVIDENCE_ACCEPTED", "MANUAL_REVIEW"},
   version : Nat, wrong : Nat]
ClaimLinkRecord ==
  [case : Case, key : IssuanceKey, version : Nat, expires : Nat,
   used : BOOLEAN, superseded : BOOLEAN]
\* What a claimant commands, and the fingerprint of the command: the version and
\* the token it states and the answer.
Command ==
  [case : Case, key : Key, token : IssuanceKey, version : Nat, answer : Answer]
Receipt == [command : Command, outcome : CaseRecord]

ASSUME NoneAssumption == None \notin ClaimLinkRecord \cup Receipt

\* An answer on its way, with what was read for it, and the reply to one after
\* which the case still asks.
Submission ==
  [at : {"answering"}, command : Command, wrong : Nat, time : Nat]
    \cup [at : {"answered", "stopped"}, command : Command]
    \cup [at : {"issuing"}, command : Command, time : Nat]
    \cup [at : {"refused"}, command : Command]
Reply == [at : {"replied"}, command : Command, replacement : IssuanceKey]

LinkRequest ==
  [at : {"issuing"}, case : Case, key : {"staff"} \X StaffKey, version : Nat, time : Nat]

\* A look at a link, with the version as read; good: an answer through the link
\* would have been taken at some moment since.
Inspection ==
  [at : {"reading"}, case : Case, token : IssuanceKey, version : Nat, time : Nat,
   good : BOOLEAN]
    \cup [at : {"active"}, good : BOOLEAN]

Idle == [at |-> "idle"]

Init ==
  /\ case = [c \in Case |-> [state |-> "ANALYZING", version |-> 0, wrong |-> 0]]
  /\ link = [c \in Case |-> None]
  /\ issuance = [k \in IssuanceKey |-> None]
  /\ receipt = [a \in Case \X Key |-> None]
  /\ claimant = [p \in Claimant |-> Idle]
  /\ staff = [s \in Staff |-> Idle]
  /\ viewer = [w \in Viewer |-> Idle]
  /\ now = 0

\* The analyst's question is asked (_process_analysis).
AskPrivateQuestion(c) ==
  /\ case[c].state = "ANALYZING"
  /\ case' = [case EXCEPT ![c] = [state |-> "CLARIFICATION_REQUIRED",
                                  version |-> @.version + 1, wrong |-> @.wrong]]
  /\ UNCHANGED <<link, issuance, receipt, claimant, staff, viewer, now>>

-----------------------------------------------------------------------------
(* What makes a link good *)

\* _validate_claim_link, for a case at the version given.
Valid(record, token, version, time) ==
  /\ record # None
  /\ record.key = token
  /\ ~record.used
  /\ ~record.superseded
  /\ record.version = version
  /\ time < record.expires

\* _claim_link_is_active, for the record under an issuance key.
Active(record, time) ==
  LET latest == link[record.case]
  IN /\ latest # None
     /\ latest.key = record.key
     /\ ~latest.used /\ ~latest.superseded
     /\ ~record.used /\ ~record.superseded
     /\ record.version = case[record.case].version
     /\ time < record.expires

-----------------------------------------------------------------------------
(* Issuing a link *)

NewLink(k, c, version, time) ==
  [case |-> c, key |-> k, version |-> version, expires |-> time + LinkLife,
   used |-> FALSE, superseded |-> FALSE]

\* Mutants: the old link is left as it is; only what changes is written.
SupersededNever(record) == record
SupersededPartly(record) == [key |-> record.key, superseded |-> TRUE]

Superseded(record) ==
  [case |-> record.case, key |-> record.key, version |-> record.version,
   expires |-> record.expires, used |-> record.used, superseded |-> TRUE]

MayIssue(k, c, version) ==
  /\ issuance[k] = None
  /\ case[c].state = "CLARIFICATION_REQUIRED"
  /\ case[c].version = version

\* The command was carried out before, for the same case and version.
IssuedBefore(k, c, version) ==
  /\ issuance[k] # None
  /\ issuance[k].case = c
  /\ issuance[k].version = version

\* The transaction of issue_claim_link.  Inspections that have begun could see
\* the new link from now on.
IssueClaimLink(k, c, version, time) ==
  /\ MayIssue(k, c, version)
  /\ link' = [link EXCEPT ![c] = NewLink(k, c, version, time)]
  /\ issuance' = [j \in IssuanceKey |->
       IF j = k THEN NewLink(k, c, version, time)
       ELSE IF link[c] # None /\ link[c].key = j THEN Superseded(link[c])
       ELSE issuance[j]]
  /\ viewer' = [w \in Viewer |->
       IF viewer[w].at = "reading" /\ viewer[w].case = c
       THEN [viewer[w] EXCEPT !.good = @ \/ viewer[w].token = k] ELSE viewer[w]]
  /\ UNCHANGED <<case, receipt, now>>

\* Staff ask for a link for the version of the case they see.  A repeated request
\* returns the link of the first and changes nothing.
StaffRequest(s, c, k) ==
  /\ staff[s].at = "idle"
  /\ issuance[<<"staff", k>>] = None
  /\ staff' = [staff EXCEPT ![s] = [at |-> "issuing", case |-> c, key |-> <<"staff", k>>,
                                    version |-> case[c].version, time |-> now]]
  /\ UNCHANGED <<stored, claimant, viewer, now>>

StaffIssue(s) ==
  /\ staff[s].at = "issuing"
  /\ IssueClaimLink(staff[s].key, staff[s].case, staff[s].version, staff[s].time)
  /\ staff' = [staff EXCEPT ![s] = Idle]
  /\ UNCHANGED claimant

\* The request is refused, finds its link issued before, or stops.
StaffEnds(s) ==
  /\ staff[s].at = "issuing"
  /\ staff' = [staff EXCEPT ![s] = Idle]
  /\ UNCHANGED <<stored, claimant, viewer, now>>

-----------------------------------------------------------------------------
(* Answering *)

Answering(command) ==
  [at |-> "answering", command |-> command, wrong |-> case[command.case].wrong, time |-> now]

\* The claimant has a token of the case, and states the version its link was
\* issued for: with another one the answer is refused.
SubmitClaimEvidence(p, c, key, token, answer) ==
  /\ claimant[p].at \in {"idle", "replied", "refused"}
  /\ issuance[token] # None
  /\ issuance[token].case = c
  /\ claimant' = [claimant EXCEPT ![p] =
       Answering([case |-> c, key |-> key, token |-> token,
                  version |-> issuance[token].version, answer |-> answer])]
  /\ UNCHANGED <<stored, staff, viewer, now>>

\* The same command again, after its request stopped: it reads case and clock anew.
Repeat(p) ==
  /\ claimant[p].at = "stopped"
  /\ claimant' = [claimant EXCEPT ![p] = Answering(@.command)]
  /\ UNCHANGED <<stored, staff, viewer, now>>

\* What the answer makes of the case: one mutation for a wrong answer, three for
\* the one that passes the limit and for a right one.
Outcome(answer, version, wrong) ==
  CASE answer = "right" ->
         [state |-> "CLAIM_EVIDENCE_ACCEPTED", version |-> version + 3, wrong |-> wrong]
    [] answer = "wrong" /\ wrong + 1 > WrongAnswers ->
         [state |-> "MANUAL_REVIEW", version |-> version + 3, wrong |-> wrong + 1]
    [] OTHER ->
         [state |-> "CLARIFICATION_REQUIRED", version |-> version + 1, wrong |-> wrong + 1]

\* The receipt under the key of a command, and whether it is of this command.
Earlier(command) == receipt[<<command.case, command.key>>]
Committed(command) == Earlier(command) # None /\ Earlier(command).command = command

\* Mutant: the link is examined before the receipt.
ReplayedWhileValid(q) ==
  /\ Committed(q.command)
  /\ Valid(link[q.command.case], q.command.token, q.command.version, q.time)

Replayed(q) == Committed(q.command)

Acceptable(q) ==
  LET c == q.command.case
  IN /\ Earlier(q.command) = None
     /\ case[c].version = q.command.version
     /\ Valid(link[c], q.command.token, case[c].version, q.time)
     /\ case[c].state = "CLARIFICATION_REQUIRED"

Used(record) ==
  [case |-> record.case, key |-> record.key, version |-> record.version,
   expires |-> record.expires, used |-> TRUE, superseded |-> record.superseded]

\* Mutant: only the link of the case is marked as used.
ConsumeLinkOnly(c) == link' = [link EXCEPT ![c] = Used(@)] /\ UNCHANGED issuance

Consume(c) ==
  /\ link' = [link EXCEPT ![c] = Used(@)]
  /\ issuance' = [issuance EXCEPT ![link[c].key] = Used(link[c])]

\* The transaction of consume_claim_link_and_apply_mutations.
CommitAnswer(p) ==
  LET q == claimant[p]
      c == q.command.case
      outcome == Outcome(q.command.answer, q.command.version, q.wrong)
  IN /\ q.at = "answering"
     /\ Acceptable(q)
     /\ case' = [case EXCEPT ![c] = outcome]
     /\ Consume(c)
     /\ receipt' = [receipt EXCEPT ![<<c, q.command.key>>] =
                      [command |-> q.command, outcome |-> outcome]]
     /\ claimant' = [claimant EXCEPT ![p] = [at |-> "answered", command |-> q.command]]
     /\ UNCHANGED <<staff, viewer, now>>

\* The command was committed before: its receipt is the answer.
ReplayAnswer(p) ==
  LET q == claimant[p]
  IN /\ q.at = "answering"
     /\ Replayed(q)
     /\ claimant' = [claimant EXCEPT ![p] = [at |-> "answered", command |-> q.command]]
     /\ UNCHANGED <<stored, staff, viewer, now>>

\* The reply is an error; of interest later if the command had been committed.
Refuse(p) ==
  claimant' = [claimant EXCEPT ![p] =
    IF Committed(@.command) THEN [at |-> "refused", command |-> @.command] ELSE Idle]

RefuseAnswer(p) ==
  /\ claimant[p].at = "answering"
  /\ ~Replayed(claimant[p])
  /\ ~Acceptable(claimant[p])
  /\ Refuse(p)
  /\ UNCHANGED <<stored, staff, viewer, now>>

\* The route looks at the result: a wrong answer after which the case still asks
\* is followed by the issue of another link, with a clock reading of its own.
StillAsks(command) ==
  /\ command.answer = "wrong"
  /\ Earlier(command).outcome.state = "CLARIFICATION_REQUIRED"

Rotate(p) ==
  LET command == claimant[p].command
  IN /\ claimant[p].at = "answered"
     /\ claimant' = [claimant EXCEPT ![p] =
          IF StillAsks(command)
          THEN [at |-> "issuing", command |-> command, time |-> now] ELSE Idle]
     /\ UNCHANGED <<stored, staff, viewer, now>>

IssueReplacement(p) ==
  LET q == claimant[p]
      c == q.command.case
      key == <<"rotate", q.command.key>>
      version == Earlier(q.command).outcome.version
      replied == [claimant EXCEPT ![p] =
                    [at |-> "replied", command |-> q.command, replacement |-> key]]
  IN /\ q.at = "issuing"
     /\ \/ /\ IssueClaimLink(key, c, version, q.time)
           /\ claimant' = replied
           /\ UNCHANGED staff
        \/ /\ IssuedBefore(key, c, version)
           /\ claimant' = replied
           /\ UNCHANGED <<stored, staff, viewer, now>>
        \/ /\ ~MayIssue(key, c, version)
           /\ ~IssuedBefore(key, c, version)
           /\ Refuse(p)
           /\ UNCHANGED <<stored, staff, viewer, now>>

\* The request of a claimant ends between two steps, and so may its reply.
Stop(p) ==
  /\ claimant[p].at \in {"answering", "answered", "issuing"}
  /\ claimant' = [claimant EXCEPT ![p] = [at |-> "stopped", command |-> @.command]]
  /\ UNCHANGED <<stored, staff, viewer, now>>

-----------------------------------------------------------------------------
(* Looking at a link: two reads, of the case and of the link *)

WouldBeTaken(token, c, time) ==
  /\ case[c].state = "CLARIFICATION_REQUIRED"
  /\ Valid(link[c], token, case[c].version, time)

InspectClaimLink(w, c, token) ==
  /\ viewer[w].at \in {"idle", "active"}
  /\ issuance[token] # None
  /\ issuance[token].case = c
  /\ viewer' = [viewer EXCEPT ![w] =
       [at |-> "reading", case |-> c, token |-> token, version |-> case[c].version,
        time |-> now, good |-> WouldBeTaken(token, c, now)]]
  /\ UNCHANGED <<stored, claimant, staff, now>>

\* Mutant: a link is good at the moment it expires.
InspectionFindsLate(q) ==
  LET record == link[q.case]
  IN record # None /\ Valid(record, q.token, q.version, record.expires - 1)
                   /\ q.time <= record.expires

InspectionFinds(q) == Valid(link[q.case], q.token, q.version, q.time)

ReadLink(w) ==
  /\ viewer[w].at = "reading"
  /\ viewer' = [viewer EXCEPT ![w] =
       IF InspectionFinds(@) THEN [at |-> "active", good |-> @.good] ELSE Idle]
  /\ UNCHANGED <<stored, claimant, staff, now>>

Tick ==
  /\ now < EndOfTime
  /\ now' = now + 1
  /\ UNCHANGED <<stored, claimant, staff, viewer>>

-----------------------------------------------------------------------------
ClaimantStep(p) ==
  \/ Repeat(p) \/ CommitAnswer(p) \/ ReplayAnswer(p) \/ RefuseAnswer(p)
  \/ Rotate(p) \/ IssueReplacement(p)

Next ==
  \/ \E c \in Case : AskPrivateQuestion(c)
  \/ \E s \in Staff, c \in Case, k \in StaffKey : StaffRequest(s, c, k)
  \/ \E s \in Staff : StaffIssue(s) \/ StaffEnds(s)
  \/ \E p \in Claimant, c \in Case, token \in IssuanceKey, answer \in Answer :
       \E key \in ClaimantKey[c] : SubmitClaimEvidence(p, c, key, token, answer)
  \/ \E p \in Claimant : ClaimantStep(p) \/ Stop(p)
  \/ \E w \in Viewer, c \in Case, token \in IssuanceKey : InspectClaimLink(w, c, token)
  \/ \E w \in Viewer : ReadLink(w)
  \/ Tick

Spec == Init /\ [][Next]_vars

-----------------------------------------------------------------------------
(* Properties *)

TypeOK ==
  /\ case \in [Case -> CaseRecord]
  /\ link \in [Case -> ClaimLinkRecord \cup {None}]
  /\ issuance \in [IssuanceKey -> ClaimLinkRecord \cup {None}]
  /\ receipt \in [Case \X Key -> Receipt \cup {None}]
  /\ claimant \in [Claimant -> Submission \cup Reply \cup {Idle}]
  /\ staff \in [Staff -> LinkRequest \cup {Idle}]
  /\ viewer \in [Viewer -> Inspection \cup {Idle}]
  /\ now \in Nat

\* A repeated issuance reports a link as active exactly if an answer through it
\* would be taken: the two tests read two copies of the link, and of all links
\* that were ever issued for a case one at most is good.
ActiveMeansTaken ==
  \A k \in IssuanceKey :
    issuance[k] # None =>
      /\ Active(issuance[k], now) <=> WouldBeTaken(k, issuance[k].case, now)
      /\ ~issuance[k].used /\ ~issuance[k].superseded => link[issuance[k].case] = issuance[k]

\* Every answer that was taken used up a link of its own, issued for the version
\* the answer found, and the wrong ones are those the case counts: overlapping,
\* repeated or interrupted requests never have two answers for one link.
Answers(c) == {key \in Key : receipt[<<c, key>>] # None}
Given(c, key) == receipt[<<c, key>>].command
AnswersUseLinks ==
  \A c \in Case :
    /\ case[c].wrong = Cardinality({key \in Answers(c) : Given(c, key).answer = "wrong"})
    /\ \A key \in Answers(c) :
         LET record == issuance[Given(c, key).token]
         IN /\ record.used
            /\ record.case = c
            /\ record.version = Given(c, key).version
            /\ \A other \in Answers(c) \ {key} : Given(c, other).token # record.key

\* An inspection that calls a link active is right about some moment between its
\* two reads, although they are not one transaction.
InspectionWasTrue ==
  \A w \in Viewer : viewer[w].at = "active" => viewer[w].good

\* A claimant whose wrong answer was taken gets the replacement as long as the
\* case is as that answer left it: a request that stopped after the commit may be
\* repeated, finds its receipt although its link is used, and issues the link
\* that is missing, under the key that makes a second issue the first one.
WrongAnswerReplaced ==
  \A p \in Claimant :
    claimant[p].at = "refused" =>
      LET command == claimant[p].command
      IN StillAsks(command) /\ case[command.case] # Earlier(command).outcome
=============================================================================
