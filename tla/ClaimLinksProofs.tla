-------------------------- MODULE ClaimLinksProofs --------------------------
(***************************************************************************)
(* Theorems about ClaimLinks, for any cases, claimants, staff, viewers and *)
(* keys, any limit of wrong answers and any length of time.                *)
(***************************************************************************)
EXTENDS ClaimLinks, FiniteSetTheorems, TLAPS

-----------------------------------------------------------------------------
(* The inductive invariant *)

\* The two records of a link are the same, and only the latest link of a case can
\* still be good.
CopiesAgree ==
  /\ \A k \in IssuanceKey : issuance[k] # None =>
       /\ issuance[k].key = k
       /\ ~issuance[k].used /\ ~issuance[k].superseded => link[issuance[k].case] = issuance[k]
  /\ \A c \in Case : link[c] # None =>
       link[c].case = c /\ issuance[link[c].key] = link[c]

\* A link is issued for a version the case has had, and for one in which it asks.
VersionsFit ==
  /\ \A k \in IssuanceKey : issuance[k] # None =>
       issuance[k].version <= case[issuance[k].case].version
  /\ \A c \in Case : link[c] # None /\ link[c].version = case[c].version =>
       case[c].state = "CLARIFICATION_REQUIRED"

\* A receipt is found under the case and key of its command, and the case has been
\* in the state it records.
ReceiptsFit ==
  \A c \in Case, key \in Key : receipt[<<c, key>>] # None =>
    LET command == receipt[<<c, key>>].command
        outcome == receipt[<<c, key>>].outcome
    IN /\ command.case = c /\ command.key = key
       /\ issuance[command.token] # None
       /\ outcome.version <= case[c].version
       /\ outcome.version = case[c].version => case[c] = outcome

\* The wrong answers of a case that were taken.
WrongOnes(c) == {key \in Answers(c) : Given(c, key).answer = "wrong"}
FinitelyMany == \A c \in Case : IsFiniteSet(WrongOnes(c))

\* What a claimant's request holds: a token that was issued for the version it
\* states, the wrong answers of that version if it is the present one, and a
\* receipt once it was answered.
CommandFits(command) ==
  /\ command.key \in ClaimantKey[command.case]
  /\ issuance[command.token] # None
  /\ issuance[command.token].case = command.case
  /\ issuance[command.token].version = command.version
ReadFits(q) ==
  case[q.command.case].version = q.command.version => q.wrong = case[q.command.case].wrong
ClaimantFits(p) ==
  claimant[p].at # "idle" =>
    /\ CommandFits(claimant[p].command)
    /\ claimant[p].at = "answering" => ReadFits(claimant[p])
    /\ claimant[p].at \in {"answered", "issuing", "refused"} => Committed(claimant[p].command)
    /\ claimant[p].at \in {"issuing", "refused"} => StillAsks(claimant[p].command)
ClaimantsFit == \A p \in Claimant : ClaimantFits(p)

\* Whoever finds the link good at its second read has seen a good link before.
ViewerFits(w) ==
  viewer[w].at = "reading" /\ InspectionFinds(viewer[w]) => viewer[w].good
ViewersFit == \A w \in Viewer : ViewerFits(w)

LinkInv == CopiesAgree /\ VersionsFit /\ ReceiptsFit
IInv ==
  /\ TypeOK /\ LinkInv /\ FinitelyMany /\ AnswersUseLinks /\ ClaimantsFit
  /\ ViewersFit /\ InspectionWasTrue

\* For the rotation: keys are used at one case only.
DisjointKeys == \A c, d \in Case : c # d => ClaimantKey[c] \cap ClaimantKey[d] = {}

\* A link issued under the key of an answer replaces that answer's link.
RotationsFit ==
  \A key \in Key :
    LET record == issuance[<<"rotate", key>>]
    IN record # None =>
         /\ key \in ClaimantKey[record.case]
         /\ receipt[<<record.case, key>>] # None
         /\ record.version = receipt[<<record.case, key>>].outcome.version

\* A replacement is refused to those only whose case has moved on.
RefusedMovedOn ==
  \A p \in Claimant : claimant[p].at = "refused" =>
    Earlier(claimant[p].command).outcome.version < case[claimant[p].command.case].version

RInv == IInv /\ RotationsFit /\ RefusedMovedOn

-----------------------------------------------------------------------------
(* What the steps write is of its type *)

LinkType == [Case -> ClaimLinkRecord \cup {None}]
IssuanceType == [IssuanceKey -> ClaimLinkRecord \cup {None}]
ReceiptType == [Case \X Key -> Receipt \cup {None}]
ClaimantType == [Claimant -> Submission \cup Reply \cup {Idle}]
StaffType == [Staff -> LinkRequest \cup {Idle}]
ViewerType == [Viewer -> Inspection \cup {Idle}]

LEMMA TypeParts ==
  ASSUME TypeOK
  PROVE  /\ case \in [Case -> CaseRecord]
         /\ link \in LinkType
         /\ issuance \in IssuanceType
         /\ receipt \in ReceiptType
         /\ claimant \in ClaimantType
         /\ staff \in StaffType
         /\ viewer \in ViewerType
         /\ now \in Nat
  BY DEF TypeOK, LinkType, IssuanceType, ReceiptType, ClaimantType, StaffType, ViewerType

LEMMA TypesNext ==
  ASSUME case' \in [Case -> CaseRecord], link' \in LinkType, issuance' \in IssuanceType,
         receipt' \in ReceiptType, claimant' \in ClaimantType, staff' \in StaffType,
         viewer' \in ViewerType, now' \in Nat
  PROVE  TypeOK'
  BY DEF TypeOK, LinkType, IssuanceType, ReceiptType, ClaimantType, StaffType, ViewerType

LEMMA KeyOfCase ==
  ASSUME NEW c \in Case, NEW key \in ClaimantKey[c]
  PROVE  key \in Key /\ <<"rotate", key>> \in IssuanceKey
<1>1. key \in Key
  BY DEF Key
<1> QED
  BY <1>1 DEF IssuanceKey

LEMMA CaseTyped ==
  ASSUME TypeOK, NEW c \in Case
  PROVE  case[c] \in CaseRecord /\ case[c].version \in Nat /\ case[c].wrong \in Nat
  BY DEF TypeOK, CaseRecord

LEMMA RecordTyped ==
  ASSUME NEW record \in ClaimLinkRecord
  PROVE  /\ record # None
         /\ record.case \in Case /\ record.key \in IssuanceKey
         /\ record.version \in Nat /\ record.expires \in Nat
         /\ record.used \in BOOLEAN /\ record.superseded \in BOOLEAN
  BY NoneAssumption DEF ClaimLinkRecord

LEMMA LinkTyped ==
  ASSUME TypeOK, NEW c \in Case, link[c] # None
  PROVE  link[c] \in ClaimLinkRecord
  BY DEF TypeOK

LEMMA IssuanceTyped ==
  ASSUME TypeOK, NEW k \in IssuanceKey, issuance[k] # None
  PROVE  issuance[k] \in ClaimLinkRecord
  BY DEF TypeOK

LEMMA CommandTyped ==
  ASSUME NEW command \in Command
  PROVE  /\ command.case \in Case /\ command.key \in Key
         /\ command.token \in IssuanceKey /\ command.version \in Nat
         /\ command.answer \in Answer
         /\ <<command.case, command.key>> \in Case \X Key
  BY DEF Command

LEMMA ReceiptTyped ==
  ASSUME TypeOK, NEW c \in Case, NEW key \in Key, receipt[<<c, key>>] # None
  PROVE  /\ receipt[<<c, key>>].command \in Command
         /\ receipt[<<c, key>>].outcome \in CaseRecord
         /\ receipt[<<c, key>>].outcome.version \in Nat
<1>1. receipt[<<c, key>>] \in Receipt
  BY DEF TypeOK
<1> QED
  BY <1>1 DEF Receipt, CaseRecord

LEMMA ClaimantTyped ==
  ASSUME TypeOK, NEW p \in Claimant, claimant[p].at # "idle"
  PROVE  /\ claimant[p].command \in Command
         /\ claimant[p].at = "answering" => claimant[p].wrong \in Nat /\ claimant[p].time \in Nat
         /\ claimant[p].at = "issuing" => claimant[p].time \in Nat
<1>1. claimant[p] \in Submission \cup Reply
  BY DEF TypeOK, Idle
<1> QED
  BY <1>1 DEF Submission, Reply

LEMMA StaffTyped ==
  ASSUME TypeOK, NEW s \in Staff, staff[s].at = "issuing"
  PROVE  staff[s] \in LinkRequest
  BY DEF TypeOK, Idle

LEMMA ViewerTyped ==
  ASSUME TypeOK, NEW w \in Viewer, viewer[w].at = "reading"
  PROVE  viewer[w] \in [at : {"reading"}, case : Case, token : IssuanceKey, version : Nat,
                        time : Nat, good : BOOLEAN]
  BY DEF TypeOK, Idle, Inspection

\* The records made of a link are records of a link, and say the same of what it is.
LEMMA NewLinkTyped ==
  ASSUME NEW k \in IssuanceKey, NEW c \in Case, NEW version \in Nat, NEW time \in Nat
  PROVE  NewLink(k, c, version, time) \in ClaimLinkRecord
  BY LinkLifeAssumption DEF NewLink, ClaimLinkRecord

LEMMA SupersededTyped ==
  ASSUME NEW record \in ClaimLinkRecord
  PROVE  /\ Superseded(record) \in ClaimLinkRecord
         /\ Superseded(record).superseded
         /\ Superseded(record).case = record.case /\ Superseded(record).key = record.key
         /\ Superseded(record).version = record.version
         /\ Superseded(record).used = record.used
  BY DEF Superseded, ClaimLinkRecord

LEMMA UsedTyped ==
  ASSUME NEW record \in ClaimLinkRecord
  PROVE  /\ Used(record) \in ClaimLinkRecord
         /\ Used(record).used
         /\ Used(record).case = record.case /\ Used(record).key = record.key
         /\ Used(record).version = record.version
         /\ Used(record).superseded = record.superseded
  BY DEF Used, ClaimLinkRecord

LEMMA OutcomeTyped ==
  ASSUME NEW answer \in Answer, NEW version \in Nat, NEW wrong \in Nat
  PROVE  /\ Outcome(answer, version, wrong) \in CaseRecord
         /\ Outcome(answer, version, wrong).version \in {version + 1, version + 3}
         /\ Outcome(answer, version, wrong).wrong =
              IF answer = "wrong" THEN wrong + 1 ELSE wrong
  BY WrongAnswersAssumption DEF Outcome, CaseRecord, Answer
-----------------------------------------------------------------------------
(* What every step keeps of the stored data *)

Grows ==
  /\ \A c \in Case : /\ case[c].version <= case'[c].version
                     /\ case[c].version = case'[c].version => case'[c] = case[c]
  /\ \A k \in IssuanceKey : issuance[k] # None =>
       /\ issuance'[k] # None
       /\ issuance'[k].case = issuance[k].case
       /\ issuance'[k].key = issuance[k].key
       /\ issuance'[k].version = issuance[k].version
  /\ \A c \in Case, key \in Key :
       receipt[<<c, key>>] # None => receipt'[<<c, key>>] = receipt[<<c, key>>]

\* A request that waits finds its command as it left it.
LEMMA ClaimantStays ==
  ASSUME TypeOK, VersionsFit, Grows, case' \in [Case -> CaseRecord],
         NEW p \in Claimant, ClaimantFits(p), claimant'[p] = claimant[p]
  PROVE  ClaimantFits(p)'
<1> DEFINE command == claimant[p].command
<1> SUFFICES ASSUME claimant[p].at # "idle"
             PROVE  /\ command.key \in ClaimantKey[command.case]
                    /\ issuance'[command.token] # None
                    /\ issuance'[command.token].case = command.case
                    /\ issuance'[command.token].version = command.version
                    /\ claimant[p].at = "answering" =>
                         (case'[command.case].version = command.version =>
                            claimant[p].wrong = case'[command.case].wrong)
                    /\ claimant[p].at \in {"answered", "issuing", "refused"} =>
                         /\ receipt'[<<command.case, command.key>>] # None
                         /\ receipt'[<<command.case, command.key>>].command = command
                    /\ claimant[p].at \in {"issuing", "refused"} =>
                         /\ command.answer = "wrong"
                         /\ receipt'[<<command.case, command.key>>].outcome.state
                              = "CLARIFICATION_REQUIRED"
  BY DEF ClaimantFits, CommandFits, ReadFits, Committed, Earlier, StillAsks
<1>1. command \in Command
  BY ClaimantTyped
<1>2. /\ command.case \in Case /\ command.key \in Key
      /\ command.token \in IssuanceKey /\ command.version \in Nat
  BY <1>1, CommandTyped
<1>3. /\ command.key \in ClaimantKey[command.case]
      /\ issuance[command.token] # None
      /\ issuance[command.token].case = command.case
      /\ issuance[command.token].version = command.version
      /\ claimant[p].at = "answering" =>
           (case[command.case].version = command.version =>
              claimant[p].wrong = case[command.case].wrong)
      /\ claimant[p].at \in {"answered", "issuing", "refused"} =>
           /\ receipt[<<command.case, command.key>>] # None
           /\ receipt[<<command.case, command.key>>].command = command
      /\ claimant[p].at \in {"issuing", "refused"} =>
           /\ command.answer = "wrong"
           /\ receipt[<<command.case, command.key>>].outcome.state = "CLARIFICATION_REQUIRED"
  BY DEF ClaimantFits, CommandFits, ReadFits, Committed, Earlier, StillAsks
<1>4. /\ command.version <= case[command.case].version
      /\ case[command.case].version <= case'[command.case].version
      /\ case[command.case].version = case'[command.case].version =>
           case'[command.case] = case[command.case]
      /\ case[command.case].version \in Nat /\ case'[command.case].version \in Nat
  BY <1>2, <1>3, CaseTyped DEF VersionsFit, Grows, CaseRecord
<1>5. case'[command.case].version = command.version =>
        case'[command.case] = case[command.case]
  <2> HIDE DEF command
  <2> QED
    BY <1>2, <1>4
<1>6. /\ issuance'[command.token] # None
      /\ issuance'[command.token].case = command.case
      /\ issuance'[command.token].version = command.version
      /\ receipt[<<command.case, command.key>>] # None =>
           receipt'[<<command.case, command.key>>] = receipt[<<command.case, command.key>>]
  BY <1>2, <1>3 DEF Grows
<1> HIDE DEF command
<1> QED
  BY <1>3, <1>5, <1>6

LEMMA StoredStays ==
  ASSUME TypeOK, UNCHANGED stored
  PROVE  Grows
<1> SUFFICES \A c \in Case : case[c].version <= case[c].version
  BY DEF Grows, stored
<1> QED
  BY CaseTyped

\* A step that stores nothing has to account for the requests it changes only.
LEMMA NothingStored ==
  ASSUME IInv, TypeOK', UNCHANGED stored,
         \A p \in Claimant : claimant'[p] = claimant[p] \/ ClaimantFits(p)',
         \A w \in Viewer : \/ viewer'[w] = viewer[w]
                            \/ /\ ViewerFits(w)'
                               /\ viewer'[w].at = "active" => viewer'[w].good
  PROVE  IInv'
<1>1. LinkInv'
  BY DEF IInv, LinkInv, CopiesAgree, VersionsFit, ReceiptsFit, stored
<1>2. AnswersUseLinks' /\ FinitelyMany'
  BY DEF IInv, AnswersUseLinks, FinitelyMany, WrongOnes, Answers, Given, stored
<1>3. ClaimantsFit'
  <2> SUFFICES ASSUME NEW p \in Claimant
               PROVE  ClaimantFits(p)'
    BY DEF ClaimantsFit
  <2>1. /\ TypeOK /\ VersionsFit /\ Grows /\ case' \in [Case -> CaseRecord]
        /\ ClaimantFits(p)
    BY StoredStays DEF IInv, LinkInv, TypeOK, ClaimantsFit
  <2> QED
    BY <2>1, ClaimantStays
<1>4. ViewersFit' /\ InspectionWasTrue'
  <2> SUFFICES ASSUME NEW w \in Viewer
               PROVE  /\ ViewerFits(w)'
                      /\ viewer'[w].at = "active" => viewer'[w].good
    BY DEF ViewersFit, InspectionWasTrue
  <2>1. CASE viewer'[w] = viewer[w]
    BY <2>1 DEF IInv, ViewersFit, ViewerFits, InspectionWasTrue, InspectionFinds, Valid, stored
  <2> QED
    BY <2>1
<1> QED
  BY <1>1, <1>2, <1>3, <1>4 DEF IInv

-----------------------------------------------------------------------------
(* The steps that store something *)

LEMMA AskKeeps ==
  ASSUME IInv, NEW c \in Case, AskPrivateQuestion(c)
  PROVE  IInv'
<1>1. /\ TypeOK /\ LinkInv /\ CopiesAgree /\ VersionsFit /\ ReceiptsFit /\ FinitelyMany
      /\ AnswersUseLinks /\ ClaimantsFit /\ ViewersFit /\ InspectionWasTrue
  BY DEF IInv, LinkInv
<1>2. /\ case' = [case EXCEPT ![c] = [state |-> "CLARIFICATION_REQUIRED",
                                     version |-> case[c].version + 1, wrong |-> case[c].wrong]]
      /\ link' = link /\ issuance' = issuance /\ receipt' = receipt
      /\ claimant' = claimant /\ staff' = staff /\ viewer' = viewer /\ now' = now
  BY DEF AskPrivateQuestion
<1>3. /\ \A d \in Case : d # c => case'[d] = case[d]
      /\ case'[c].state = "CLARIFICATION_REQUIRED"
      /\ case'[c].version = case[c].version + 1
      /\ case'[c].wrong = case[c].wrong
  BY <1>1, <1>2 DEF TypeOK
<1>4. \A d \in Case : case[d] \in CaseRecord /\ case[d].version \in Nat /\ case[d].wrong \in Nat
  BY <1>1, CaseTyped
<1>5. case' \in [Case -> CaseRecord]
  BY <1>1, <1>2, <1>4 DEF TypeOK, CaseRecord
<1>6. TypeOK'
  BY <1>1, <1>2, <1>5, TypeParts, TypesNext
<1>7. Grows
  BY <1>2, <1>3, <1>4 DEF Grows
<1>8. CopiesAgree'
  BY <1>1, <1>2 DEF CopiesAgree
<1>9. VersionsFit'
  <2>1. ASSUME NEW k \in IssuanceKey, issuance[k] # None
        PROVE  issuance[k].version <= case'[issuance[k].case].version
    <3>1. /\ issuance[k].case \in Case /\ issuance[k].version \in Nat
          /\ issuance[k].version <= case[issuance[k].case].version
      BY <1>1, <2>1, IssuanceTyped, RecordTyped DEF VersionsFit
    <3> QED
      BY <3>1, <1>3, <1>4
  <2>2. ASSUME NEW d \in Case, link[d] # None, link[d].version = case'[d].version
        PROVE  case'[d].state = "CLARIFICATION_REQUIRED"
    BY <1>1, <1>3, <2>2 DEF VersionsFit
  <2> QED
    BY <1>2, <2>1, <2>2 DEF VersionsFit
<1>10. ReceiptsFit'
  <2>1. ASSUME NEW d \in Case, NEW key \in Key, receipt[<<d, key>>] # None
        PROVE  LET outcome == receipt[<<d, key>>].outcome
               IN /\ outcome.version <= case'[d].version
                  /\ outcome.version = case'[d].version => case'[d] = outcome
    <3> DEFINE outcome == receipt[<<d, key>>].outcome
    <3>1. /\ outcome.version \in Nat
          /\ outcome.version <= case[d].version
          /\ outcome.version = case[d].version => case[d] = outcome
      BY <1>1, <2>1, ReceiptTyped DEF ReceiptsFit
    <3> HIDE DEF outcome
    <3>2. /\ outcome.version <= case'[d].version
          /\ outcome.version = case'[d].version => case'[d] = outcome
      BY <3>1, <1>3, <1>4
    <3> QED
      BY <3>2 DEF outcome
  <2>2. ASSUME NEW d \in Case, NEW key \in Key, receipt[<<d, key>>] # None
        PROVE  /\ receipt[<<d, key>>].command.case = d
               /\ receipt[<<d, key>>].command.key = key
               /\ issuance[receipt[<<d, key>>].command.token] # None
    BY <1>1, <2>2 DEF ReceiptsFit
  <2> QED
    BY <1>2, <2>1, <2>2 DEF ReceiptsFit
<1>11. FinitelyMany' /\ AnswersUseLinks'
  <2>1. \A d \in Case : case'[d].wrong = case[d].wrong
    BY <1>3
  <2> QED
    BY <1>1, <1>2, <2>1 DEF FinitelyMany, WrongOnes, AnswersUseLinks, Answers, Given
<1>12. ClaimantsFit'
  BY <1>1, <1>2, <1>5, <1>7, ClaimantStays DEF ClaimantsFit
<1>13. ViewersFit' /\ InspectionWasTrue'
  BY <1>1, <1>2 DEF ViewersFit, ViewerFits, InspectionFinds, Valid, InspectionWasTrue
<1> QED
  BY <1>6, <1>8, <1>9, <1>10, <1>11, <1>12, <1>13 DEF IInv, LinkInv

\* A link that is good is the record of its key, and the only good one.
LEMMA LatestLink ==
  ASSUME IInv, NEW c \in Case, link[c] # None
  PROVE  /\ link[c] \in ClaimLinkRecord
         /\ link[c].case = c
         /\ link[c].key \in IssuanceKey
         /\ issuance[link[c].key] = link[c]
         /\ \A d \in Case : d # c /\ link[d] # None => link[d].key # link[c].key
<1>1. TypeOK /\ CopiesAgree
  BY DEF IInv, LinkInv
<1>2. link[c] \in ClaimLinkRecord /\ link[c].key \in IssuanceKey
  BY <1>1, LinkTyped, RecordTyped
<1>3. \A d \in Case : link[d] # None => link[d].case = d /\ issuance[link[d].key] = link[d]
  BY <1>1 DEF CopiesAgree
<1> QED
  BY <1>2, <1>3

\* The issue of a link, by staff or after a wrong answer: all but the claimants.
LEMMA IssueStores ==
  ASSUME IInv, NEW k \in IssuanceKey, NEW c \in Case, NEW version, NEW time \in Nat,
         IssueClaimLink(k, c, version, time)
  PROVE  /\ case' = case /\ receipt' = receipt /\ now' = now
         /\ link' \in LinkType /\ issuance' \in IssuanceType /\ viewer' \in ViewerType
         /\ Grows
         /\ issuance'[k].version = version
<1> DEFINE new == NewLink(k, c, version, time)
           old == link[c]
<1>1. /\ TypeOK /\ CopiesAgree
      /\ link \in LinkType /\ issuance \in IssuanceType /\ viewer \in ViewerType
  BY TypeParts DEF IInv, LinkInv
<1>2. /\ issuance[k] = None
      /\ version = case[c].version /\ version \in Nat
      /\ link' = [link EXCEPT ![c] = new]
      /\ issuance' = [j \in IssuanceKey |->
           IF j = k THEN new
           ELSE IF old # None /\ old.key = j THEN Superseded(old)
           ELSE issuance[j]]
      /\ viewer' = [w \in Viewer |->
           IF viewer[w].at = "reading" /\ viewer[w].case = c
           THEN [viewer[w] EXCEPT !.good = @ \/ viewer[w].token = k] ELSE viewer[w]]
      /\ case' = case /\ receipt' = receipt /\ now' = now
  BY <1>1, CaseTyped DEF IssueClaimLink, MayIssue
<1>3. new \in ClaimLinkRecord /\ new.version = version
  BY <1>2, NewLinkTyped DEF NewLink
<1>4. old # None => /\ Superseded(old) \in ClaimLinkRecord
                   /\ Superseded(old).case = old.case
                   /\ Superseded(old).key = old.key
                   /\ Superseded(old).version = old.version
                   /\ issuance[old.key] = old
  BY <1>1, LatestLink, SupersededTyped
<1> HIDE DEF new, old
<1>5. link' \in LinkType
  BY <1>1, <1>2, <1>3 DEF LinkType
<1>6. issuance' \in IssuanceType
  BY <1>1, <1>2, <1>3, <1>4 DEF IssuanceType
<1>7. viewer' \in ViewerType
  <2> SUFFICES ASSUME NEW w \in Viewer
               PROVE  viewer'[w] \in Inspection \cup {Idle}
    BY <1>2 DEF ViewerType
  <2>1. CASE viewer[w].at = "reading" /\ viewer[w].case = c
    <3>1. viewer'[w] = [viewer[w] EXCEPT !.good = viewer[w].good \/ viewer[w].token = k]
      BY <1>2, <2>1
    <3>2. viewer[w] \in [at : {"reading"}, case : Case, token : IssuanceKey, version : Nat,
                        time : Nat, good : BOOLEAN]
      BY <1>1, <2>1, ViewerTyped
    <3> QED
      BY <3>1, <3>2 DEF Inspection
  <2>2. CASE ~(viewer[w].at = "reading" /\ viewer[w].case = c)
    <3>1. viewer'[w] = viewer[w]
      BY <1>2, <2>2
    <3> QED
      BY <1>1, <3>1 DEF ViewerType
  <2> QED
    BY <2>1, <2>2
<1>8. Grows
  <2>1. \A d \in Case : case[d].version <= case[d].version
    BY <1>1, CaseTyped
  <2>2. \A j \in IssuanceKey : issuance[j] # None =>
          /\ issuance'[j] # None
          /\ issuance'[j].case = issuance[j].case
          /\ issuance'[j].key = issuance[j].key
          /\ issuance'[j].version = issuance[j].version
    BY <1>2, <1>4, RecordTyped
  <2> QED
    BY <1>2, <2>1, <2>2 DEF Grows
<1>9. issuance'[k].version = version
  BY <1>2, <1>3
<1> QED
  BY <1>2, <1>5, <1>6, <1>7, <1>8, <1>9

LEMMA IssueKeeps ==
  ASSUME IInv, NEW k \in IssuanceKey, NEW c \in Case, NEW version, NEW time \in Nat,
         IssueClaimLink(k, c, version, time)
  PROVE  /\ LinkInv' /\ FinitelyMany' /\ AnswersUseLinks'
         /\ ViewersFit' /\ InspectionWasTrue'
<1> DEFINE new == NewLink(k, c, version, time)
           old == link[c]
<1>1. /\ TypeOK /\ CopiesAgree /\ VersionsFit /\ ReceiptsFit /\ FinitelyMany
      /\ AnswersUseLinks /\ ViewersFit /\ InspectionWasTrue
  BY DEF IInv, LinkInv
<1>2. /\ issuance[k] = None
      /\ case[c].state = "CLARIFICATION_REQUIRED"
      /\ version = case[c].version /\ version \in Nat
      /\ link' = [link EXCEPT ![c] = new]
      /\ issuance' = [j \in IssuanceKey |->
           IF j = k THEN new
           ELSE IF old # None /\ old.key = j THEN Superseded(old)
           ELSE issuance[j]]
      /\ viewer' = [w \in Viewer |->
           IF viewer[w].at = "reading" /\ viewer[w].case = c
           THEN [viewer[w] EXCEPT !.good = @ \/ viewer[w].token = k] ELSE viewer[w]]
      /\ case' = case /\ receipt' = receipt /\ now' = now
  BY <1>1, CaseTyped DEF IssueClaimLink, MayIssue
<1>3. /\ new \in ClaimLinkRecord /\ new # None
      /\ new.version = version /\ new.case = c /\ new.key = k
  BY <1>2, NewLinkTyped, RecordTyped DEF NewLink
<1>4. old # None => /\ Superseded(old) # None
                   /\ Superseded(old).superseded
                   /\ Superseded(old).case = old.case
                   /\ Superseded(old).key = old.key
                   /\ Superseded(old).version = old.version
                   /\ Superseded(old).used = old.used
                   /\ old.case = c
                   /\ old.key \in IssuanceKey /\ old.key # k
                   /\ issuance[old.key] = old
                   /\ \A d \in Case : d # c /\ link[d] # None => link[d].key # old.key
  BY <1>1, <1>2, LatestLink, SupersededTyped, RecordTyped
<1> HIDE DEF new, old
<1>5. /\ link'[c] = new
      /\ \A d \in Case : d # c => link'[d] = link[d]
      /\ issuance'[k] = new
      /\ old # None => issuance'[old.key] = Superseded(old)
      /\ \A j \in IssuanceKey : j # k /\ (old # None => old.key # j) => issuance'[j] = issuance[j]
  BY <1>1, <1>2, <1>4 DEF TypeOK
<1>6. CopiesAgree'
  <2>1. ASSUME NEW j \in IssuanceKey, issuance'[j] # None
        PROVE  /\ issuance'[j].key = j
               /\ ~issuance'[j].used /\ ~issuance'[j].superseded =>
                    link'[issuance'[j].case] = issuance'[j]
    <3>1. CASE j = k
      BY <3>1, <1>3, <1>5
    <3>2. CASE old # None /\ old.key = j
      BY <3>2, <1>4, <1>5
    <3>3. CASE j # k /\ ~(old # None /\ old.key = j)
      <4>1. issuance'[j] = issuance[j] /\ issuance[j].case \in Case
        BY <1>1, <1>5, <2>1, <3>3, IssuanceTyped, RecordTyped
      <4>2. /\ issuance[j].key = j
            /\ ~issuance[j].used /\ ~issuance[j].superseded =>
                 link[issuance[j].case] = issuance[j]
        BY <1>1, <2>1, <4>1 DEF CopiesAgree
      <4>3. issuance[j].case = c /\ link[c] = issuance[j] => FALSE
        BY <2>1, <3>3, <4>1, <4>2 DEF old
      <4> QED
        BY <1>5, <4>1, <4>2, <4>3
    <3> QED
      BY <3>1, <3>2, <3>3
  <2>2. ASSUME NEW d \in Case, link'[d] # None
        PROVE  link'[d].case = d /\ issuance'[link'[d].key] = link'[d]
    <3>1. CASE d = c
      BY <3>1, <1>3, <1>5
    <3>2. CASE d # c
      <4>1. /\ link'[d] = link[d] /\ link[d].case = d /\ link[d].key \in IssuanceKey
            /\ issuance[link[d].key] = link[d]
        BY <1>5, <2>2, <3>2, LatestLink
      <4>2. link[d].key # k /\ (old # None => old.key # link[d].key)
        BY <1>2, <1>4, <2>2, <3>2, <4>1
      <4> QED
        BY <1>5, <4>1, <4>2
    <3> QED
      BY <3>1, <3>2
  <2> QED
    BY <2>1, <2>2 DEF CopiesAgree
<1>7. VersionsFit'
  <2>1. ASSUME NEW j \in IssuanceKey, issuance'[j] # None
        PROVE  issuance'[j].version <= case[issuance'[j].case].version
    <3>1. CASE j = k
      BY <3>1, <1>2, <1>3, <1>5
    <3>2. CASE old # None /\ old.key = j
      BY <3>2, <1>1, <1>4, <1>5 DEF VersionsFit
    <3>3. CASE j # k /\ ~(old # None /\ old.key = j)
      BY <3>3, <2>1, <1>1, <1>5 DEF VersionsFit
    <3> QED
      BY <3>1, <3>2, <3>3
  <2>2. ASSUME NEW d \in Case, link'[d] # None, link'[d].version = case[d].version
        PROVE  case[d].state = "CLARIFICATION_REQUIRED"
    <3>1. CASE d = c
      BY <3>1, <1>2
    <3>2. CASE d # c
      BY <3>2, <2>2, <1>1, <1>5 DEF VersionsFit
    <3> QED
      BY <3>1, <3>2
  <2> QED
    BY <1>2, <2>1, <2>2 DEF VersionsFit
<1>8. \A j \in IssuanceKey : issuance[j] # None =>
         /\ issuance'[j] # None
         /\ issuance'[j].case = issuance[j].case
         /\ issuance'[j].key = issuance[j].key
         /\ issuance'[j].version = issuance[j].version
         /\ issuance'[j].used = issuance[j].used
  BY <1>2, <1>4, <1>5
<1>9. \A d \in Case, key \in Key : receipt[<<d, key>>] # None =>
         receipt[<<d, key>>].command.token \in IssuanceKey
  BY <1>1, ReceiptTyped, CommandTyped
<1>10. ReceiptsFit'
  BY <1>1, <1>2, <1>8, <1>9 DEF ReceiptsFit
<1>11. AnswersUseLinks' /\ FinitelyMany'
  <2>1. /\ \A d \in Case : Answers(d)' = Answers(d) /\ WrongOnes(d)' = WrongOnes(d)
        /\ \A d \in Case, key \in Key : Given(d, key)' = Given(d, key)
    BY <1>2 DEF Answers, Given, WrongOnes
  <2>2. FinitelyMany'
    BY <1>1, <2>1 DEF FinitelyMany
  <2>3. ASSUME NEW d \in Case, NEW key \in Answers(d)
        PROVE  LET record == issuance'[Given(d, key).token]
               IN /\ record.used
                  /\ record.case = d
                  /\ record.version = Given(d, key).version
                  /\ \A other \in Answers(d) \ {key} : Given(d, other).token # record.key
    <3> DEFINE token == Given(d, key).token
    <3>1. token \in IssuanceKey /\ issuance[token] # None
      BY <1>1, <1>9, <2>3 DEF Answers, Given, ReceiptsFit
    <3>2. /\ issuance[token].used
          /\ issuance[token].case = d
          /\ issuance[token].version = Given(d, key).version
          /\ \A other \in Answers(d) \ {key} : Given(d, other).token # issuance[token].key
      BY <1>1 DEF AnswersUseLinks
    <3> QED
      BY <1>8, <3>1, <3>2
  <2>4. \A d \in Case : case'[d].wrong =
          Cardinality({key \in Answers(d)' : Given(d, key)'.answer = "wrong"})
    BY <1>1, <1>2, <2>1 DEF AnswersUseLinks, Answers, Given
  <2>5. ASSUME NEW d \in Case, NEW key \in Answers(d)'
        PROVE  LET record == issuance'[Given(d, key)'.token]
               IN /\ record.used
                  /\ record.case = d
                  /\ record.version = Given(d, key)'.version
                  /\ \A other \in Answers(d)' \ {key} : Given(d, other)'.token # record.key
    BY <1>2, <2>3, <2>5 DEF Answers, Given
  <2> QED
    BY <2>2, <2>4, <2>5 DEF AnswersUseLinks
<1>12. ViewersFit' /\ InspectionWasTrue'
  <2> SUFFICES ASSUME NEW w \in Viewer
               PROVE  /\ ViewerFits(w)'
                      /\ viewer'[w].at = "active" => viewer'[w].good
    BY DEF ViewersFit, InspectionWasTrue
  <2>1. CASE viewer[w].at = "reading" /\ viewer[w].case = c
    <3>1. viewer'[w] = [viewer[w] EXCEPT !.good = viewer[w].good \/ viewer[w].token = k]
      BY <1>2, <2>1
    <3>2. viewer[w] \in [at : {"reading"}, case : Case, token : IssuanceKey, version : Nat,
                        time : Nat, good : BOOLEAN]
      BY <1>1, <2>1, ViewerTyped
    <3>3. /\ viewer'[w].at = "reading" /\ viewer'[w].case = c
          /\ viewer'[w].token = viewer[w].token
          /\ viewer[w].token = k => viewer'[w].good
      BY <3>1, <3>2, <2>1
    <3>4. InspectionFinds(viewer[w])' => viewer[w].token = k
      BY <1>3, <1>5, <3>3 DEF InspectionFinds, Valid
    <3> QED
      BY <3>3, <3>4 DEF ViewerFits
  <2>2. CASE viewer[w].at = "reading" /\ viewer[w].case # c
    <3>1. viewer'[w] = viewer[w] /\ viewer[w].case \in Case
      BY <1>1, <1>2, <2>2, ViewerTyped
    <3>2. link'[viewer[w].case] = link[viewer[w].case]
      BY <1>5, <2>2, <3>1
    <3> QED
      BY <1>1, <2>2, <3>1, <3>2 DEF ViewersFit, ViewerFits, InspectionFinds, Valid
  <2>3. CASE viewer[w].at # "reading"
    <3>1. viewer'[w] = viewer[w]
      BY <1>2, <2>3
    <3> QED
      BY <1>1, <2>3, <3>1 DEF InspectionWasTrue, ViewerFits
  <2> QED
    BY <2>1, <2>2, <2>3
<1> QED
  BY <1>6, <1>7, <1>10, <1>11, <1>12 DEF LinkInv

\* The commit of an answer uses up the good link of its case.
LEMMA CommitFinds ==
  ASSUME IInv, NEW p \in Claimant, CommitAnswer(p)
  PROVE  LET q == claimant[p]
             command == q.command
             c == command.case
         IN /\ command \in Command
            /\ q.at = "answering" /\ q.wrong = case[c].wrong
            /\ c \in Case /\ command.key \in ClaimantKey[c]
            /\ receipt[<<c, command.key>>] = None
            /\ case[c].version = command.version
            /\ link[c] # None /\ link[c].key = command.token
            /\ ~link[c].used
            /\ link[c].version = case[c].version
<1> DEFINE q == claimant[p]
           command == q.command
           c == command.case
<1>1. TypeOK /\ ClaimantFits(p) /\ q.at = "answering"
  BY DEF IInv, ClaimantsFit, CommitAnswer
<1>2. /\ receipt[<<c, command.key>>] = None
      /\ case[c].version = command.version
      /\ link[c] # None /\ link[c].key = command.token
      /\ ~link[c].used
      /\ link[c].version = case[c].version
  BY DEF CommitAnswer, Acceptable, Valid, Earlier
<1>3. command \in Command /\ c \in Case
  BY <1>1, ClaimantTyped, CommandTyped
<1>4. command.key \in ClaimantKey[c] /\ q.wrong = case[c].wrong
  BY <1>1, <1>2 DEF ClaimantFits, CommandFits, ReadFits
<1> QED
  BY <1>1, <1>2, <1>3, <1>4

LEMMA CommitKeeps ==
  ASSUME IInv, NEW p \in Claimant, CommitAnswer(p)
  PROVE  IInv' /\ Grows
<1> DEFINE q == claimant[p]
<1>0. PICK command \in Command : command = q.command
  BY ClaimantTyped DEF IInv, CommitAnswer
<1> DEFINE c == command.case
           token == command.token
           outcome == Outcome(command.answer, command.version, q.wrong)
           old == link[c]
           new == Used(link[c])
<1>1. /\ TypeOK /\ CopiesAgree /\ VersionsFit /\ ReceiptsFit /\ FinitelyMany
      /\ AnswersUseLinks /\ ClaimantsFit /\ ViewersFit /\ InspectionWasTrue
  BY DEF IInv, LinkInv
<1>2. /\ command \in Command
      /\ q.at = "answering" /\ q.wrong = case[c].wrong
      /\ c \in Case /\ command.key \in ClaimantKey[c] /\ command.key \in Key
      /\ <<c, command.key>> \in Case \X Key
      /\ receipt[<<c, command.key>>] = None
      /\ case[c].version = command.version
      /\ old # None /\ old.key = token
      /\ ~old.used
      /\ old.version = command.version
      /\ token \in IssuanceKey /\ command.answer \in Answer
      /\ command.version \in Nat /\ q.wrong \in Nat
  <2>1. /\ command \in Command
        /\ q.at = "answering" /\ q.wrong = case[c].wrong
        /\ c \in Case /\ command.key \in ClaimantKey[c]
        /\ receipt[<<c, command.key>>] = None
        /\ case[c].version = command.version
        /\ old # None /\ old.key = token
        /\ ~old.used
        /\ old.version = case[c].version
    BY <1>0, CommitFinds
  <2>2. case[c].version \in Nat /\ case[c].wrong \in Nat
    BY <1>1, <2>1, CaseTyped
  <2>3. /\ command.key \in Key
        /\ <<c, command.key>> \in Case \X Key
        /\ token \in IssuanceKey /\ command.answer \in Answer
    BY <1>0, CommandTyped
  <2> QED
    BY <2>1, <2>2, <2>3
<1>3. /\ case' = [case EXCEPT ![c] = outcome]
      /\ link' = [link EXCEPT ![c] = new]
      /\ issuance' = [issuance EXCEPT ![old.key] = new]
      /\ receipt' = [receipt EXCEPT ![<<c, command.key>>] =
                        [command |-> command, outcome |-> outcome]]
      /\ claimant' = [claimant EXCEPT ![p] = [at |-> "answered", command |-> command]]
      /\ staff' = staff /\ viewer' = viewer /\ now' = now
  BY <1>0 DEF CommitAnswer, Consume
<1>4. /\ outcome \in CaseRecord
      /\ outcome.version \in Nat /\ outcome.version > command.version
      /\ outcome.wrong = IF command.answer = "wrong" THEN q.wrong + 1 ELSE q.wrong
  <2>1. /\ outcome \in CaseRecord
        /\ outcome.version \in {command.version + 1, command.version + 3}
        /\ outcome.wrong = IF command.answer = "wrong" THEN q.wrong + 1 ELSE q.wrong
    BY <1>2, OutcomeTyped
  <2> HIDE DEF outcome
  <2> QED
    BY <1>2, <2>1 DEF CaseRecord
<1>5. /\ new \in ClaimLinkRecord /\ new # None
      /\ new.used /\ new.case = c /\ new.key = token
      /\ new.version = command.version
      /\ old.case = c /\ issuance[token] = old
      /\ \A d \in Case : d # c /\ link[d] # None => link[d].key # token
  BY <1>2, LatestLink, UsedTyped, RecordTyped
<1>6. [command |-> command, outcome |-> outcome] \in Receipt
  BY <1>2, <1>4 DEF Receipt
<1> HIDE DEF outcome, old, new
<1>7. /\ case'[c] = outcome
      /\ \A d \in Case : d # c => case'[d] = case[d]
      /\ link'[c] = new
      /\ \A d \in Case : d # c => link'[d] = link[d]
      /\ issuance'[token] = new
      /\ \A j \in IssuanceKey : j # token => issuance'[j] = issuance[j]
  BY <1>1, <1>2, <1>3 DEF TypeOK
<1>8. /\ receipt'[<<c, command.key>>] = [command |-> command, outcome |-> outcome]
      /\ \A d \in Case, key \in Key : (d # c \/ key # command.key) =>
           receipt'[<<d, key>>] = receipt[<<d, key>>]
  BY <1>1, <1>2, <1>3 DEF TypeOK
<1>9. /\ receipt'[<<c, command.key>>] # None
      /\ receipt'[<<c, command.key>>].command = command
      /\ receipt'[<<c, command.key>>].outcome = outcome
  BY <1>6, <1>8, NoneAssumption
<1>10. /\ case' \in [Case -> CaseRecord]
       /\ link' \in LinkType /\ issuance' \in IssuanceType /\ receipt' \in ReceiptType
  <2>1. case' \in [Case -> CaseRecord]
    BY <1>1, <1>3, <1>4 DEF TypeOK
  <2>2. link' \in LinkType /\ issuance' \in IssuanceType
    BY <1>1, <1>3, <1>5, TypeParts DEF LinkType, IssuanceType
  <2>3. receipt' \in ReceiptType
    BY <1>1, <1>3, <1>6, TypeParts DEF ReceiptType
  <2> QED
    BY <2>1, <2>2, <2>3
<1>11. TypeOK'
  <2>1. [at |-> "answered", command |-> command] \in Submission
    BY <1>2 DEF Submission
  <2>2. claimant' \in ClaimantType
    <3> QED
      BY <1>1, <1>3, <2>1, TypeParts DEF ClaimantType
  <2> QED
    BY <1>1, <1>3, <1>10, <2>2, TypeParts, TypesNext
<1>12. \A d \in Case : case[d].version \in Nat /\ case[d].wrong \in Nat
  BY <1>1, CaseTyped
<1>13. Grows
  <2>1. \A d \in Case : /\ case[d].version <= case'[d].version
                        /\ case[d].version = case'[d].version => case'[d] = case[d]
    BY <1>2, <1>4, <1>7, <1>12
  <2>2. \A j \in IssuanceKey : issuance[j] # None =>
          /\ issuance'[j] # None
          /\ issuance'[j].case = issuance[j].case
          /\ issuance'[j].key = issuance[j].key
          /\ issuance'[j].version = issuance[j].version
    BY <1>2, <1>5, <1>7
  <2>3. \A d \in Case, key \in Key :
          receipt[<<d, key>>] # None => receipt'[<<d, key>>] = receipt[<<d, key>>]
    BY <1>2, <1>8
  <2> QED
    BY <2>1, <2>2, <2>3 DEF Grows
<1>14. CopiesAgree'
  <2>1. ASSUME NEW j \in IssuanceKey, issuance'[j] # None
        PROVE  /\ issuance'[j].key = j
               /\ ~issuance'[j].used /\ ~issuance'[j].superseded =>
                    link'[issuance'[j].case] = issuance'[j]
    <3>1. CASE j = token
      BY <3>1, <1>5, <1>7
    <3>2. CASE j # token
      <4>1. issuance'[j] = issuance[j] /\ issuance[j].case \in Case
        BY <1>1, <1>7, <2>1, <3>2, IssuanceTyped, RecordTyped
      <4>2. /\ issuance[j].key = j
            /\ ~issuance[j].used /\ ~issuance[j].superseded =>
                 link[issuance[j].case] = issuance[j]
        BY <1>1, <2>1, <4>1 DEF CopiesAgree
      <4>3. issuance[j].case = c /\ link[c] = issuance[j] => FALSE
        BY <1>2, <3>2, <4>2 DEF old
      <4> QED
        BY <1>7, <4>1, <4>2, <4>3
    <3> QED
      BY <3>1, <3>2
  <2>2. ASSUME NEW d \in Case, link'[d] # None
        PROVE  link'[d].case = d /\ issuance'[link'[d].key] = link'[d]
    <3>1. CASE d = c
      BY <3>1, <1>5, <1>7
    <3>2. CASE d # c
      <4>1. /\ link'[d] = link[d] /\ link[d].case = d /\ link[d].key \in IssuanceKey
            /\ issuance[link[d].key] = link[d]
        BY <1>7, <2>2, <3>2, LatestLink
      <4>2. link[d].key # token
        BY <1>5, <2>2, <3>2, <4>1
      <4> QED
        BY <1>7, <4>1, <4>2
    <3> QED
      BY <3>1, <3>2
  <2> QED
    BY <2>1, <2>2 DEF CopiesAgree
<1>15. VersionsFit'
  <2>1. ASSUME NEW j \in IssuanceKey, issuance'[j] # None
        PROVE  issuance'[j].version <= case'[issuance'[j].case].version
    <3>1. CASE j = token
      BY <3>1, <1>2, <1>4, <1>5, <1>7
    <3>2. CASE j # token
      <4>1. /\ issuance'[j] = issuance[j] /\ issuance[j].case \in Case
            /\ issuance[j].version \in Nat
            /\ issuance[j].version <= case[issuance[j].case].version
        BY <1>1, <1>7, <2>1, <3>2, IssuanceTyped, RecordTyped DEF VersionsFit
      <4> QED
        BY <1>2, <1>4, <1>7, <1>12, <4>1
    <3> QED
      BY <3>1, <3>2
  <2>2. ASSUME NEW d \in Case, link'[d] # None, link'[d].version = case'[d].version
        PROVE  case'[d].state = "CLARIFICATION_REQUIRED"
    <3>1. d # c
      BY <2>2, <1>2, <1>4, <1>5, <1>7
    <3> QED
      BY <3>1, <2>2, <1>1, <1>7 DEF VersionsFit
  <2> QED
    BY <2>1, <2>2 DEF VersionsFit
<1>16. ReceiptsFit'
  <2>1. ASSUME NEW d \in Case, NEW key \in Key, receipt'[<<d, key>>] # None
        PROVE  /\ receipt'[<<d, key>>].command.case = d
               /\ receipt'[<<d, key>>].command.key = key
               /\ issuance'[receipt'[<<d, key>>].command.token] # None
               /\ receipt'[<<d, key>>].outcome.version <= case'[d].version
               /\ receipt'[<<d, key>>].outcome.version = case'[d].version =>
                    case'[d] = receipt'[<<d, key>>].outcome
    <3>1. CASE d = c /\ key = command.key
      BY <3>1, <1>4, <1>5, <1>7, <1>9
    <3>2. CASE ~(d = c /\ key = command.key)
      <4> DEFINE earlier == receipt[<<d, key>>]
      <4>1. receipt'[<<d, key>>] = earlier /\ earlier # None
        BY <1>8, <2>1, <3>2
      <4>2. /\ earlier.command.case = d /\ earlier.command.key = key
            /\ issuance[earlier.command.token] # None
            /\ earlier.outcome.version <= case[d].version
            /\ earlier.outcome.version = case[d].version => case[d] = earlier.outcome
        BY <1>1, <4>1 DEF ReceiptsFit
      <4>3. earlier.outcome.version \in Nat /\ earlier.command.token \in IssuanceKey
        BY <1>1, <4>1, ReceiptTyped, CommandTyped
      <4> HIDE DEF earlier
      <4>4. issuance'[earlier.command.token] # None
        BY <1>13, <4>2, <4>3 DEF Grows
      <4>5. /\ earlier.outcome.version <= case'[d].version
            /\ earlier.outcome.version = case'[d].version => case'[d] = earlier.outcome
        BY <1>2, <1>4, <1>7, <1>12, <4>2, <4>3
      <4> QED
        BY <4>1, <4>2, <4>4, <4>5
    <3> QED
      BY <3>1, <3>2
  <2> QED
    BY <2>1 DEF ReceiptsFit
<1>17. /\ \A d \in Case : d # c => Answers(d)' = Answers(d) /\ WrongOnes(d)' = WrongOnes(d)
       /\ Answers(c)' = Answers(c) \cup {command.key}
       /\ command.key \notin Answers(c)
       /\ WrongOnes(c)' = IF command.answer = "wrong" THEN WrongOnes(c) \cup {command.key}
                          ELSE WrongOnes(c)
       /\ command.key \notin WrongOnes(c)
       /\ \A d \in Case : \A key \in Answers(d) : Given(d, key)' = Given(d, key)
       /\ Given(c, command.key)' = command
  <2> HIDE DEF c
  <2>1. \A d \in Case, key \in Key : receipt[<<d, key>>] # None => receipt'[<<d, key>>] = receipt[<<d, key>>]
    BY <1>13 DEF Grows
  <2>2. /\ \A d \in Case : d # c => Answers(d)' = Answers(d)
        /\ Answers(c)' = Answers(c) \cup {command.key}
        /\ command.key \notin Answers(c)
    BY <1>2, <1>8, <1>9 DEF Answers
  <2>3. /\ \A d \in Case : \A key \in Answers(d) : Given(d, key)' = Given(d, key)
        /\ Given(c, command.key)' = command
    BY <1>2, <1>9, <2>1 DEF Answers, Given
  <2> QED
    BY <1>2, <2>2, <2>3 DEF WrongOnes
<1>18. FinitelyMany' /\ \A d \in Case : case'[d].wrong = Cardinality(WrongOnes(d)')
  <2>1. /\ \A d \in Case : case[d].wrong = Cardinality(WrongOnes(d))
        /\ \A d \in Case : IsFiniteSet(WrongOnes(d))
    BY <1>1 DEF AnswersUseLinks, FinitelyMany, WrongOnes
  <2>2. IsFiniteSet(WrongOnes(c)') /\ case'[c].wrong = Cardinality(WrongOnes(c)')
    <3>1. CASE command.answer = "wrong"
      <4>1. /\ IsFiniteSet(WrongOnes(c) \cup {command.key})
            /\ Cardinality(WrongOnes(c) \cup {command.key}) = Cardinality(WrongOnes(c)) + 1
        BY <1>2, <1>17, <2>1, FS_AddElement
      <4>2. WrongOnes(c)' = WrongOnes(c) \cup {command.key}
        BY <1>17, <3>1
      <4>3. case'[c].wrong = Cardinality(WrongOnes(c)) + 1
        BY <1>2, <1>4, <1>7, <2>1, <3>1
      <4> QED
        BY <4>1, <4>2, <4>3
    <3>2. CASE command.answer # "wrong"
      <4>1. WrongOnes(c)' = WrongOnes(c)
        BY <1>17, <3>2
      <4> QED
        BY <1>2, <1>4, <1>7, <2>1, <3>2, <4>1
    <3> QED
      BY <3>1, <3>2
  <2>3. ASSUME NEW d \in Case
        PROVE  IsFiniteSet(WrongOnes(d)') /\ case'[d].wrong = Cardinality(WrongOnes(d)')
    <3>1. CASE d = c
      BY <2>2, <3>1
    <3>2. CASE d # c
      BY <1>7, <1>17, <2>1, <3>2
    <3> QED
      BY <3>1, <3>2
  <2> QED
    BY <2>3 DEF FinitelyMany
<1>19. AnswersUseLinks'
  <2>1. ASSUME NEW d \in Case, NEW key \in Answers(d)
        PROVE  /\ Given(d, key).token \in IssuanceKey
               /\ Given(d, key).token # token
               /\ issuance[Given(d, key).token].used
               /\ issuance[Given(d, key).token].case = d
               /\ issuance[Given(d, key).token].version = Given(d, key).version
               /\ issuance[Given(d, key).token].key = Given(d, key).token
               /\ \A other \in Answers(d) \ {key} :
                    Given(d, other).token # Given(d, key).token
    <3>1. Given(d, key).token \in IssuanceKey /\ issuance[Given(d, key).token] # None
      BY <1>1, <2>1, ReceiptTyped, CommandTyped DEF Answers, Given, ReceiptsFit
    <3>2. issuance[Given(d, key).token].key = Given(d, key).token
      BY <1>1, <3>1 DEF CopiesAgree
    <3>3. /\ issuance[Given(d, key).token].used
          /\ issuance[Given(d, key).token].case = d
          /\ issuance[Given(d, key).token].version = Given(d, key).version
          /\ \A other \in Answers(d) \ {key} :
               Given(d, other).token # issuance[Given(d, key).token].key
      BY <1>1, <2>1 DEF AnswersUseLinks
    <3>4. Given(d, key).token # token
      BY <1>2, <1>5, <3>3
    <3> QED
      BY <3>1, <3>2, <3>3, <3>4
  <2>2. ASSUME NEW d \in Case, NEW key \in Answers(d)'
        PROVE  LET record == issuance'[Given(d, key)'.token]
               IN /\ record.used
                  /\ record.case = d
                  /\ record.version = Given(d, key)'.version
                  /\ \A other \in Answers(d)' \ {key} : Given(d, other)'.token # record.key
    <3>1. CASE key \in Answers(d)
      <4>1. /\ Given(d, key)' = Given(d, key)
            /\ issuance'[Given(d, key).token] = issuance[Given(d, key).token]
        BY <1>7, <1>17, <2>1, <3>1
      <4>2. ASSUME NEW other \in Answers(d)' \ {key}
            PROVE  Given(d, other)'.token # Given(d, key).token
        <5>1. CASE other \in Answers(d)
          BY <5>1, <1>17, <2>1, <3>1
        <5>2. CASE other \notin Answers(d)
          <6>1. d = c /\ other = command.key
            BY <5>2, <1>17
          <6> QED
            BY <6>1, <1>17, <2>1, <3>1
        <5> QED
          BY <5>1, <5>2
      <4> QED
        BY <2>1, <3>1, <4>1, <4>2
    <3>2. CASE key \notin Answers(d)
      <4>1. d = c /\ key = command.key
        BY <1>17, <2>2, <3>2
      <4>2. Given(d, key)' = command /\ issuance'[command.token] = new
        BY <1>7, <1>17, <4>1
      <4>3. ASSUME NEW other \in Answers(d)' \ {key}
            PROVE  Given(d, other)'.token # token
        <5>1. other \in Answers(d)
          BY <1>17, <4>1
        <5> QED
          BY <5>1, <1>17, <2>1
      <4> QED
        BY <1>5, <4>1, <4>2, <4>3
    <3> QED
      BY <3>1, <3>2
  <2>3. \A d \in Case :
          case'[d].wrong = Cardinality({key \in Answers(d)' : Given(d, key)'.answer = "wrong"})
    BY <1>18 DEF WrongOnes
  <2> HIDE DEF c, token
  <2> QED
    BY <2>2, <2>3 DEF AnswersUseLinks
<1>20. ClaimantsFit'
  <2> SUFFICES ASSUME NEW r \in Claimant
               PROVE  ClaimantFits(r)'
    BY DEF ClaimantsFit
  <2>1. CASE r = p
    <3>1. claimant'[p] = [at |-> "answered", command |-> command]
      BY <1>1, <1>3 DEF TypeOK
    <3>2. /\ issuance[token] # None /\ issuance[token].case = c
          /\ issuance[token].version = command.version
      BY <1>2, <1>5
    <3>3. /\ issuance'[token] # None /\ issuance'[token].case = c
          /\ issuance'[token].version = command.version
      BY <1>5, <1>7
    <3> QED
      BY <1>2, <1>9, <2>1, <3>1, <3>3 DEF ClaimantFits, CommandFits, Committed, Earlier
  <2>2. CASE r # p
    <3>1. claimant'[r] = claimant[r]
      BY <1>1, <1>3, <2>2 DEF TypeOK
    <3> QED
      BY <1>1, <1>10, <1>13, <3>1, ClaimantStays DEF ClaimantsFit
  <2> QED
    BY <2>1, <2>2
<1>21. ViewersFit' /\ InspectionWasTrue'
  <2>1. InspectionWasTrue'
    BY <1>1, <1>3 DEF InspectionWasTrue
  <2>2. ASSUME NEW w \in Viewer, viewer[w].at = "reading", InspectionFinds(viewer[w])'
        PROVE  viewer[w].good
    <3>1. viewer[w].case \in Case
      BY <1>1, <2>2, ViewerTyped
    <3>2. viewer[w].case # c
      BY <1>3, <1>5, <1>7, <2>2 DEF InspectionFinds, Valid
    <3>3. InspectionFinds(viewer[w])
      BY <1>3, <1>7, <2>2, <3>1, <3>2 DEF InspectionFinds, Valid
    <3> QED
      BY <1>1, <2>2, <3>3 DEF ViewersFit, ViewerFits
  <2>3. ASSUME NEW w \in Viewer
        PROVE  ViewerFits(w)'
    BY <1>3, <2>2 DEF ViewerFits
  <2> QED
    BY <2>1, <2>3 DEF ViewersFit
<1>22. LinkInv'
  BY <1>14, <1>15, <1>16 DEF LinkInv
<1> QED
  BY <1>11, <1>13, <1>18, <1>19, <1>20, <1>21, <1>22 DEF IInv

-----------------------------------------------------------------------------
(* The other steps *)

\* A request of a claimant goes on to another point with its command.
LEMMA ClaimantGoes ==
  ASSUME IInv, NEW p \in Claimant, NEW to \in Submission \cup Reply \cup {Idle},
         claimant' = [claimant EXCEPT ![p] = to],
         UNCHANGED <<stored, staff, viewer>>, now' \in Nat,
         to.at # "idle" =>
           /\ CommandFits(to.command)
           /\ to.at = "answering" => ReadFits(to)
           /\ to.at \in {"answered", "issuing", "refused"} => Committed(to.command)
           /\ to.at \in {"issuing", "refused"} => StillAsks(to.command)
  PROVE  /\ IInv'
         /\ claimant'[p] = to
         /\ \A r \in Claimant : r # p => claimant'[r] = claimant[r]
<1>1. TypeOK /\ ClaimantsFit
  BY DEF IInv
<1>2. claimant'[p] = to /\ \A r \in Claimant : r # p => claimant'[r] = claimant[r]
  BY <1>1 DEF TypeOK
<1>3. claimant' \in ClaimantType
  BY <1>1, TypeParts DEF ClaimantType
<1>4. TypeOK'
  BY <1>1, <1>3, TypeParts, TypesNext DEF stored
<1>5. ClaimantFits(p)'
  BY <1>2 DEF ClaimantFits, CommandFits, ReadFits, Committed, Earlier, StillAsks, stored
<1> QED
  BY <1>2, <1>4, <1>5, NothingStored

\* So does a request of staff or a look at a link.
LEMMA StaffGoes ==
  ASSUME IInv, NEW s \in Staff, NEW to \in LinkRequest \cup {Idle},
         staff' = [staff EXCEPT ![s] = to], UNCHANGED <<stored, claimant, viewer, now>>
  PROVE  IInv'
<1>1. TypeOK
  BY DEF IInv
<1>2. staff' \in StaffType
  BY <1>1, TypeParts DEF StaffType
<1>3. TypeOK'
  BY <1>1, <1>2, TypeParts, TypesNext DEF stored
<1> QED
  BY <1>3, NothingStored

LEMMA ViewerGoes ==
  ASSUME IInv, NEW w \in Viewer, NEW to \in Inspection \cup {Idle},
         viewer' = [viewer EXCEPT ![w] = to], UNCHANGED <<stored, claimant, staff, now>>,
         to.at = "reading" /\ InspectionFinds(to) => to.good,
         to.at = "active" => to.good
  PROVE  IInv'
<1>1. TypeOK
  BY DEF IInv
<1>2. viewer' \in ViewerType
  BY <1>1, TypeParts DEF ViewerType
<1>3. TypeOK'
  BY <1>1, <1>2, TypeParts, TypesNext DEF stored
<1>4. viewer'[w] = to /\ \A v \in Viewer : v # w => viewer'[v] = viewer[v]
  BY <1>1 DEF TypeOK
<1>5. ViewerFits(w)' /\ (viewer'[w].at = "active" => viewer'[w].good)
  BY <1>4 DEF ViewerFits, InspectionFinds, Valid, stored
<1> QED
  BY <1>3, <1>4, <1>5, NothingStored

LEMMA IdleFits ==
  /\ Idle \in Submission \cup Reply \cup {Idle}
  /\ Idle \in LinkRequest \cup {Idle}
  /\ Idle \in Inspection \cup {Idle}
  /\ Idle.at = "idle"
  BY DEF Idle

\* What a request under way knows.
LEMMA OnTheWay ==
  ASSUME IInv, NEW p \in Claimant, claimant[p].at # "idle"
  PROVE  LET q == claimant[p]
         IN /\ q.command \in Command
            /\ CommandFits(q.command)
            /\ q.at \in {"answered", "issuing", "refused"} => Committed(q.command)
            /\ q.at \in {"issuing", "refused"} => StillAsks(q.command)
            /\ q.at = "issuing" => q.time \in Nat
  BY ClaimantTyped DEF IInv, ClaimantsFit, ClaimantFits

LEMMA AnsweringFits ==
  ASSUME IInv, NEW command \in Command
  PROVE  /\ Answering(command) \in Submission \cup Reply \cup {Idle}
         /\ Answering(command).at = "answering"
         /\ Answering(command).command = command
         /\ ReadFits(Answering(command))
<1>1. command.case \in Case
  BY CommandTyped
<1>2. case[command.case].wrong \in Nat /\ now \in Nat
  BY <1>1, CaseTyped DEF IInv, TypeOK
<1> QED
  BY <1>2 DEF Answering, Submission, ReadFits

LEMMA SubmitKeeps ==
  ASSUME IInv, NEW p \in Claimant, NEW c \in Case, NEW token \in IssuanceKey,
         NEW answer \in Answer, NEW key \in ClaimantKey[c],
         SubmitClaimEvidence(p, c, key, token, answer)
  PROVE  IInv' /\ claimant'[p].at = "answering"
               /\ \A r \in Claimant : r # p => claimant'[r] = claimant[r]
<1>0. TypeOK /\ issuance[token] # None /\ issuance[token].case = c
  BY DEF IInv, SubmitClaimEvidence
<1>1. issuance[token].version \in Nat /\ key \in Key
  BY <1>0, IssuanceTyped, RecordTyped, KeyOfCase
<1>2. PICK command \in Command :
        command = [case |-> c, key |-> key, token |-> token,
                   version |-> issuance[token].version, answer |-> answer]
  BY <1>1 DEF Command
<1> CommandFits(command)
  BY <1>0, <1>2 DEF CommandFits
<1>3. claimant' = [claimant EXCEPT ![p] = Answering(command)]
  BY <1>2 DEF SubmitClaimEvidence
<1>4. UNCHANGED <<stored, staff, viewer>> /\ now' \in Nat
  BY <1>0 DEF SubmitClaimEvidence, TypeOK
<1>5. PICK to \in Submission \cup Reply \cup {Idle} :
        /\ to = Answering(command) /\ to.at = "answering" /\ to.command = command
        /\ ReadFits(to)
  BY AnsweringFits
<1> QED
  BY <1>2, <1>3, <1>4, <1>5, ClaimantGoes

LEMMA RepeatKeeps ==
  ASSUME IInv, NEW p \in Claimant, Repeat(p)
  PROVE  IInv' /\ claimant'[p].at = "answering"
               /\ \A r \in Claimant : r # p => claimant'[r] = claimant[r]
<1>1. claimant[p].at # "idle"
  BY DEF Repeat
<1>2. PICK command \in Command : command = claimant[p].command /\ CommandFits(command)
  BY <1>1, OnTheWay
<1>3. claimant' = [claimant EXCEPT ![p] = Answering(command)]
  BY <1>2 DEF Repeat
<1>4. UNCHANGED <<stored, staff, viewer>> /\ now' \in Nat
  BY DEF Repeat, IInv, TypeOK
<1>5. PICK to \in Submission \cup Reply \cup {Idle} :
        /\ to = Answering(command) /\ to.at = "answering" /\ to.command = command
        /\ ReadFits(to)
  BY AnsweringFits
<1> QED
  BY <1>2, <1>3, <1>4, <1>5, ClaimantGoes

LEMMA ReplayKeeps ==
  ASSUME IInv, NEW p \in Claimant, ReplayAnswer(p)
  PROVE  IInv' /\ claimant'[p].at = "answered"
               /\ \A r \in Claimant : r # p => claimant'[r] = claimant[r]
<1>1. claimant[p].at # "idle" /\ Committed(claimant[p].command)
  BY DEF ReplayAnswer, Replayed
<1>2. PICK command \in Command : command = claimant[p].command /\ CommandFits(command)
  BY <1>1, OnTheWay
<1>3. PICK to \in Submission \cup Reply \cup {Idle} :
        to = [at |-> "answered", command |-> command]
  BY DEF Submission
<1>4. claimant' = [claimant EXCEPT ![p] = to]
  BY <1>2, <1>3 DEF ReplayAnswer
<1>5. UNCHANGED <<stored, staff, viewer>> /\ now' \in Nat
  BY DEF ReplayAnswer, IInv, TypeOK
<1>6. to.at = "answered" /\ to.command = command /\ Committed(to.command)
  BY <1>1, <1>2, <1>3
<1> QED
  BY <1>2, <1>4, <1>5, <1>6, ClaimantGoes

LEMMA RefuseAnswerKeeps ==
  ASSUME IInv, NEW p \in Claimant, RefuseAnswer(p)
  PROVE  IInv' /\ claimant'[p].at = "idle"
               /\ \A r \in Claimant : r # p => claimant'[r] = claimant[r]
<1>1. claimant' = [claimant EXCEPT ![p] = Idle]
  BY DEF RefuseAnswer, Refuse, Replayed
<1>2. UNCHANGED <<stored, staff, viewer>> /\ now' \in Nat
  BY DEF RefuseAnswer, IInv, TypeOK
<1> QED
  BY <1>1, <1>2, IdleFits, ClaimantGoes

LEMMA RotateKeeps ==
  ASSUME IInv, NEW p \in Claimant, Rotate(p)
  PROVE  IInv' /\ claimant'[p].at \in {"issuing", "idle"}
               /\ \A r \in Claimant : r # p => claimant'[r] = claimant[r]
<1>1. claimant[p].at = "answered"
  BY DEF Rotate
<1>2. PICK command \in Command :
        command = claimant[p].command /\ CommandFits(command) /\ Committed(command)
  BY <1>1, OnTheWay
<1>3. UNCHANGED <<stored, staff, viewer>> /\ now' \in Nat /\ now \in Nat
  BY DEF Rotate, IInv, TypeOK
<1>4. CASE StillAsks(command)
  <2>1. PICK to \in Submission \cup Reply \cup {Idle} :
          to = [at |-> "issuing", command |-> command, time |-> now]
    BY <1>3 DEF Submission
  <2>2. claimant' = [claimant EXCEPT ![p] = to]
    BY <1>2, <1>4, <2>1 DEF Rotate
  <2>3. to.at = "issuing" /\ to.command = command
    BY <2>1
  <2> QED
    BY <1>2, <1>3, <1>4, <2>2, <2>3, ClaimantGoes
<1>5. CASE ~StillAsks(command)
  <2>1. claimant' = [claimant EXCEPT ![p] = Idle]
    BY <1>2, <1>5 DEF Rotate
  <2> QED
    BY <1>3, <2>1, IdleFits, ClaimantGoes
<1> QED
  BY <1>4, <1>5

LEMMA StopKeeps ==
  ASSUME IInv, NEW p \in Claimant, Stop(p)
  PROVE  IInv' /\ claimant'[p].at = "stopped"
               /\ \A r \in Claimant : r # p => claimant'[r] = claimant[r]
<1>1. claimant[p].at # "idle"
  BY DEF Stop
<1>2. PICK command \in Command : command = claimant[p].command /\ CommandFits(command)
  BY <1>1, OnTheWay
<1>3. PICK to \in Submission \cup Reply \cup {Idle} :
        to = [at |-> "stopped", command |-> command]
  BY DEF Submission
<1>4. claimant' = [claimant EXCEPT ![p] = to]
  BY <1>2, <1>3 DEF Stop
<1>5. UNCHANGED <<stored, staff, viewer>> /\ now' \in Nat
  BY DEF Stop, IInv, TypeOK
<1>6. to.at = "stopped" /\ to.command = command
  BY <1>3
<1> QED
  BY <1>2, <1>4, <1>5, <1>6, ClaimantGoes

\* The second read of an inspection that began with a good link, or sees one now.
LEMMA InspectKeeps ==
  ASSUME IInv, NEW w \in Viewer, NEW c \in Case, NEW token \in IssuanceKey,
         InspectClaimLink(w, c, token)
  PROVE  IInv'
<1>1. TypeOK /\ VersionsFit
  BY DEF IInv, LinkInv
<1>2. case[c].version \in Nat /\ now \in Nat
  BY <1>1, CaseTyped DEF TypeOK
<1>3. WouldBeTaken(token, c, now) \in BOOLEAN
  BY DEF WouldBeTaken, Valid
<1>4. PICK to \in Inspection \cup {Idle} :
        to = [at |-> "reading", case |-> c, token |-> token, version |-> case[c].version,
              time |-> now, good |-> WouldBeTaken(token, c, now)]
  BY <1>2, <1>3 DEF Inspection
<1>5. viewer' = [viewer EXCEPT ![w] = to] /\ UNCHANGED <<stored, claimant, staff, now>>
  BY <1>4 DEF InspectClaimLink
<1>6. /\ to.at = "reading" /\ to.case = c /\ to.token = token
      /\ to.version = case[c].version /\ to.time = now
      /\ to.good = WouldBeTaken(token, c, now)
  BY <1>4
<1>7. InspectionFinds(to) => to.good
  BY <1>1, <1>6 DEF InspectionFinds, Valid, WouldBeTaken, VersionsFit
<1> QED
  BY <1>5, <1>6, <1>7, ViewerGoes

LEMMA ReadLinkKeeps ==
  ASSUME IInv, NEW w \in Viewer, ReadLink(w)
  PROVE  IInv'
<1>1. TypeOK /\ viewer[w].at = "reading" /\ UNCHANGED <<stored, claimant, staff, now>>
  BY DEF IInv, ReadLink
<1>2. CASE InspectionFinds(viewer[w])
  <2>1. viewer[w].good
    BY <1>1, <1>2 DEF IInv, ViewersFit, ViewerFits
  <2>2. viewer[w].good \in BOOLEAN
    BY <1>1, ViewerTyped
  <2>3. PICK to \in Inspection \cup {Idle} : to = [at |-> "active", good |-> viewer[w].good]
    BY <2>2 DEF Inspection
  <2>4. viewer' = [viewer EXCEPT ![w] = to]
    BY <1>2, <2>3 DEF ReadLink
  <2>5. to.at = "active" /\ to.good
    BY <2>1, <2>3
  <2> QED
    BY <1>1, <2>4, <2>5, ViewerGoes
<1>3. CASE ~InspectionFinds(viewer[w])
  <2>1. viewer' = [viewer EXCEPT ![w] = Idle]
    BY <1>3 DEF ReadLink
  <2> QED
    BY <1>1, <2>1, IdleFits, ViewerGoes
<1> QED
  BY <1>2, <1>3

LEMMA StaffRequestKeeps ==
  ASSUME IInv, NEW s \in Staff, NEW c \in Case, NEW k \in StaffKey, StaffRequest(s, c, k)
  PROVE  IInv'
<1>1. case[c].version \in Nat /\ now \in Nat
  BY CaseTyped DEF IInv, TypeOK
<1>2. PICK to \in LinkRequest \cup {Idle} :
        to = [at |-> "issuing", case |-> c, key |-> <<"staff", k>>,
              version |-> case[c].version, time |-> now]
  BY <1>1 DEF LinkRequest
<1> QED
  BY <1>2, StaffGoes DEF StaffRequest

LEMMA StaffEndsKeeps ==
  ASSUME IInv, NEW s \in Staff, StaffEnds(s)
  PROVE  IInv'
  BY IdleFits, StaffGoes DEF StaffEnds

\* What staff ask for is typed, and its key is none of a rotation.
LEMMA StaffHolds ==
  ASSUME IInv, NEW s \in Staff, staff[s].at = "issuing"
  PROVE  /\ staff[s].key \in {"staff"} \X StaffKey
         /\ staff[s].key \in IssuanceKey
         /\ staff[s].case \in Case /\ staff[s].time \in Nat
<1>1. staff[s] \in LinkRequest
  BY StaffTyped DEF IInv
<1> QED
  BY <1>1 DEF LinkRequest, IssuanceKey

LEMMA StaffIssueKeeps ==
  ASSUME IInv, NEW s \in Staff, StaffIssue(s)
  PROVE  IInv' /\ Grows
<1>1. PICK k \in IssuanceKey : k = staff[s].key
  BY StaffHolds DEF StaffIssue
<1>2. PICK c \in Case : c = staff[s].case
  BY StaffHolds DEF StaffIssue
<1>3. PICK time \in Nat : time = staff[s].time
  BY StaffHolds DEF StaffIssue
<1>4. PICK version : version = staff[s].version
  OBVIOUS
<1>5. IssueClaimLink(k, c, version, time)
  BY <1>1, <1>2, <1>3, <1>4 DEF StaffIssue, IssueClaimLink, MayIssue, NewLink
<1>6. /\ case' = case /\ receipt' = receipt /\ now' = now
      /\ link' \in LinkType /\ issuance' \in IssuanceType /\ viewer' \in ViewerType
      /\ Grows
      /\ LinkInv' /\ FinitelyMany' /\ AnswersUseLinks' /\ ViewersFit' /\ InspectionWasTrue'
  BY <1>5, IssueStores, IssueKeeps
<1>7. TypeOK /\ VersionsFit /\ ClaimantsFit
  BY DEF IInv, LinkInv
<1>8. claimant' = claimant /\ staff' = [staff EXCEPT ![s] = Idle]
  BY DEF StaffIssue
<1>9. staff' \in StaffType
  BY <1>7, <1>8, IdleFits, TypeParts DEF StaffType
<1>10. TypeOK'
  BY <1>6, <1>7, <1>8, <1>9, TypeParts, TypesNext
<1>11. case' \in [Case -> CaseRecord]
  BY <1>6, <1>7 DEF TypeOK
<1>12. ClaimantsFit'
  BY <1>6, <1>7, <1>8, <1>11, ClaimantStays DEF ClaimantsFit
<1> QED
  BY <1>6, <1>10, <1>12 DEF IInv

LEMMA ReplacementHolds ==
  ASSUME IInv, NEW p \in Claimant, claimant[p].at = "issuing"
  PROVE  LET command == claimant[p].command
         IN /\ command \in Command
            /\ CommandFits(command) /\ Committed(command) /\ StillAsks(command)
            /\ command.case \in Case
            /\ command.key \in ClaimantKey[command.case] /\ command.key \in Key
            /\ <<"rotate", command.key>> \in IssuanceKey
            /\ claimant[p].time \in Nat
<1>1. PICK command \in Command :
        /\ command = claimant[p].command
        /\ CommandFits(command) /\ Committed(command) /\ StillAsks(command)
        /\ claimant[p].time \in Nat
  BY OnTheWay
<1>2. command.case \in Case /\ command.key \in ClaimantKey[command.case]
  BY <1>1, CommandTyped DEF CommandFits
<1>3. command.key \in Key /\ <<"rotate", command.key>> \in IssuanceKey
  BY <1>2, KeyOfCase
<1> QED
  BY <1>1, <1>2, <1>3

\* The three ways the issue of a replacement ends.
LEMMA ReplacementIssued ==
  ASSUME IInv, NEW p \in Claimant, NEW command \in Command, command = claimant[p].command,
         claimant[p].at = "issuing",
         IssueClaimLink(<<"rotate", command.key>>, command.case,
                        Earlier(command).outcome.version, claimant[p].time),
         claimant' = [claimant EXCEPT ![p] =
           [at |-> "replied", command |-> command, replacement |-> <<"rotate", command.key>>]],
         UNCHANGED staff
  PROVE  /\ IInv' /\ Grows
         /\ case' = case /\ receipt' = receipt
         /\ claimant'[p].at = "replied"
         /\ \A r \in Claimant : r # p => claimant'[r] = claimant[r]
<1>1. /\ CommandFits(command)
      /\ command.case \in Case /\ command.key \in Key
      /\ <<"rotate", command.key>> \in IssuanceKey
  BY ReplacementHolds
<1>2. PICK time \in Nat : time = claimant[p].time
  BY ReplacementHolds
<1>3. PICK version : version = Earlier(command).outcome.version
  OBVIOUS
<1>4. PICK k \in IssuanceKey : k = <<"rotate", command.key>>
  BY <1>1
<1>5. PICK c \in Case : c = command.case
  BY <1>1
<1>6. IssueClaimLink(k, c, version, time)
  BY <1>2, <1>3, <1>4, <1>5 DEF IssueClaimLink, MayIssue, NewLink
<1>7. /\ case' = case /\ receipt' = receipt /\ now' = now
      /\ link' \in LinkType /\ issuance' \in IssuanceType /\ viewer' \in ViewerType
      /\ Grows
      /\ LinkInv' /\ FinitelyMany' /\ AnswersUseLinks' /\ ViewersFit' /\ InspectionWasTrue'
  BY <1>6, IssueStores, IssueKeeps
<1>8. TypeOK /\ VersionsFit /\ ClaimantsFit
  BY DEF IInv, LinkInv
<1>9. PICK to \in Submission \cup Reply \cup {Idle} :
        to = [at |-> "replied", command |-> command, replacement |-> k]
  BY DEF Reply
<1>10. claimant' = [claimant EXCEPT ![p] = to]
  BY <1>4, <1>9
<1>11. claimant'[p] = to /\ \A r \in Claimant : r # p => claimant'[r] = claimant[r]
  BY <1>8, <1>10 DEF TypeOK
<1>12. claimant' \in ClaimantType
  BY <1>8, <1>10, TypeParts DEF ClaimantType
<1>13. TypeOK'
  BY <1>7, <1>8, <1>12, TypeParts, TypesNext
<1>14. case' \in [Case -> CaseRecord]
  BY <1>7, <1>8 DEF TypeOK
<1>15. CommandFits(command)'
  <2>1. command.token \in IssuanceKey
    BY CommandTyped
  <2> QED
    BY <1>1, <1>7, <2>1 DEF CommandFits, Grows
<1>16. ClaimantsFit'
  <2> SUFFICES ASSUME NEW r \in Claimant
               PROVE  ClaimantFits(r)'
    BY DEF ClaimantsFit
  <2>1. CASE r = p
    BY <1>9, <1>11, <1>15, <2>1 DEF ClaimantFits, CommandFits
  <2>2. CASE r # p
    BY <1>7, <1>8, <1>11, <1>14, <2>2, ClaimantStays DEF ClaimantsFit
  <2> QED
    BY <2>1, <2>2
<1> QED
  BY <1>7, <1>9, <1>11, <1>13, <1>16 DEF IInv

LEMMA ReplacementFound ==
  ASSUME IInv, NEW p \in Claimant, NEW command \in Command, command = claimant[p].command,
         claimant[p].at = "issuing",
         claimant' = [claimant EXCEPT ![p] =
           [at |-> "replied", command |-> command, replacement |-> <<"rotate", command.key>>]],
         UNCHANGED <<stored, staff, viewer, now>>
  PROVE  /\ IInv' /\ claimant'[p].at = "replied"
         /\ \A r \in Claimant : r # p => claimant'[r] = claimant[r]
<1>1. CommandFits(command) /\ <<"rotate", command.key>> \in IssuanceKey
  BY ReplacementHolds
<1>2. PICK k \in IssuanceKey : k = <<"rotate", command.key>>
  BY <1>1
<1>3. PICK to \in Submission \cup Reply \cup {Idle} :
        to = [at |-> "replied", command |-> command, replacement |-> k]
  BY DEF Reply
<1>4. claimant' = [claimant EXCEPT ![p] = to]
  BY <1>2, <1>3
<1>5. UNCHANGED <<stored, staff, viewer>> /\ now' \in Nat
  BY DEF IInv, TypeOK
<1>6. to.at = "replied" /\ to.command = command /\ CommandFits(to.command)
  BY <1>1, <1>3
<1>7. /\ IInv' /\ claimant'[p] = to
      /\ \A r \in Claimant : r # p => claimant'[r] = claimant[r]
  BY <1>4, <1>5, <1>6, ClaimantGoes
<1> QED
  BY <1>6, <1>7

LEMMA ReplacementRefused ==
  ASSUME IInv, NEW p \in Claimant, NEW command \in Command, command = claimant[p].command,
         claimant[p].at = "issuing", Refuse(p), UNCHANGED <<stored, staff, viewer, now>>
  PROVE  /\ IInv' /\ claimant'[p].at = "refused" /\ claimant'[p].command = command
         /\ \A r \in Claimant : r # p => claimant'[r] = claimant[r]
<1>1. CommandFits(command) /\ Committed(command) /\ StillAsks(command)
  BY ReplacementHolds
<1>2. PICK to \in Submission \cup Reply \cup {Idle} :
        to = [at |-> "refused", command |-> command]
  BY DEF Submission
<1>3. claimant' = [claimant EXCEPT ![p] = to]
  BY <1>1, <1>2 DEF Refuse, Committed, Earlier
<1>4. UNCHANGED <<stored, staff, viewer>> /\ now' \in Nat
  BY DEF IInv, TypeOK
<1>5. /\ to.at = "refused" /\ to.command = command
      /\ CommandFits(to.command) /\ Committed(to.command) /\ StillAsks(to.command)
  BY <1>1, <1>2
<1>6. /\ IInv' /\ claimant'[p] = to
      /\ \A r \in Claimant : r # p => claimant'[r] = claimant[r]
  BY <1>3, <1>4, <1>5, ClaimantGoes
<1> QED
  BY <1>5, <1>6

LEMMA TickKeeps ==
  ASSUME IInv, Tick
  PROVE  IInv'
<1>1. TypeOK /\ now \in Nat /\ now' = now + 1
      /\ UNCHANGED <<stored, claimant, staff, viewer>>
  BY DEF IInv, TypeOK, Tick
<1>2. TypeOK'
  BY <1>1, TypeParts, TypesNext DEF stored
<1> QED
  BY <1>1, <1>2, NothingStored

\* What a step does to the refused: a claimant is refused at the end of the issue
\* of a replacement only, when the case or the record of its key forbids it.
MayBeRefused(p) ==
  /\ claimant[p].at = "issuing"
  /\ LET command == claimant[p].command
         key == <<"rotate", command.key>>
         version == Earlier(command).outcome.version
     IN ~MayIssue(key, command.case, version) /\ ~IssuedBefore(key, command.case, version)
RefusedStep ==
  \A p \in Claimant :
    claimant'[p].at = "refused" =>
      \/ claimant'[p] = claimant[p]
      \/ MayBeRefused(p) /\ claimant'[p].command = claimant[p].command

\* A link whose issuance is new replaces the link of an answer or was asked for
\* by staff.
RotatedStep ==
  \A key \in Key :
    LET k == <<"rotate", key>>
    IN issuance[k] = None /\ issuance'[k] # None =>
         \E p \in Claimant :
           LET command == claimant[p].command
           IN /\ claimant[p].at = "issuing"
              /\ command.key = key
              /\ issuance'[k].case = command.case
              /\ issuance'[k].version = Earlier(command).outcome.version

\* What an issue changes of the issuances.
LEMMA IssueNew ==
  ASSUME IInv, NEW k \in IssuanceKey, NEW c \in Case, NEW version, NEW time \in Nat,
         IssueClaimLink(k, c, version, time)
  PROVE  /\ issuance'[k].case = c /\ issuance'[k].version = version
         /\ \A j \in IssuanceKey : issuance[j] = None /\ j # k => issuance'[j] = None
<1>1. issuance' = [j \in IssuanceKey |->
        IF j = k THEN NewLink(k, c, version, time)
        ELSE IF link[c] # None /\ link[c].key = j THEN Superseded(link[c]) ELSE issuance[j]]
  BY DEF IssueClaimLink
<1>2. NewLink(k, c, version, time).case = c /\ NewLink(k, c, version, time).version = version
  BY DEF NewLink
<1>3. link[c] # None => issuance[link[c].key] = link[c]
  BY LatestLink
<1> QED
  BY <1>1, <1>2, <1>3

LEMMA IssueReplacementKeeps ==
  ASSUME IInv, NEW p \in Claimant, IssueReplacement(p)
  PROVE  IInv' /\ Grows /\ RefusedStep /\ RotatedStep
<1>1. claimant[p].at = "issuing"
  BY DEF IssueReplacement
<1>2. PICK command \in Command : command = claimant[p].command
  BY <1>1, ReplacementHolds
<1> DEFINE key == <<"rotate", command.key>>
           version == Earlier(command).outcome.version
           replied == [claimant EXCEPT ![p] =
             [at |-> "replied", command |-> command, replacement |-> key]]
<1>3. \/ /\ IssueClaimLink(key, command.case, version, claimant[p].time)
         /\ claimant' = replied /\ UNCHANGED staff
      \/ claimant' = replied /\ UNCHANGED <<stored, staff, viewer, now>>
      \/ /\ ~MayIssue(key, command.case, version) /\ ~IssuedBefore(key, command.case, version)
         /\ Refuse(p) /\ UNCHANGED <<stored, staff, viewer, now>>
  BY <1>2, Zenon DEF IssueReplacement
<1>4. ASSUME UNCHANGED stored
      PROVE  Grows /\ RotatedStep
  BY <1>4, StoredStays DEF IInv, RotatedStep, stored
<1>5. CASE /\ IssueClaimLink(key, command.case, version, claimant[p].time)
           /\ claimant' = replied /\ UNCHANGED staff
  <2>1. /\ IInv' /\ Grows
        /\ claimant'[p].at = "replied"
        /\ \A r \in Claimant : r # p => claimant'[r] = claimant[r]
    BY <1>1, <1>2, <1>5, ReplacementIssued
  <2>2. RefusedStep
    BY <2>1 DEF RefusedStep
  <2>3. /\ issuance'[key].case = command.case /\ issuance'[key].version = version
        /\ \A j \in IssuanceKey : issuance[j] = None /\ j # key => issuance'[j] = None
    <3>1. PICK k \in IssuanceKey : k = key
      BY <1>1, <1>2, ReplacementHolds
    <3>2. PICK c \in Case : c = command.case
      BY <1>1, <1>2, ReplacementHolds
    <3>3. PICK time \in Nat : time = claimant[p].time
      BY <1>1, <1>2, ReplacementHolds
    <3>4. PICK v : v = version
      OBVIOUS
    <3>5. IssueClaimLink(k, c, v, time)
      BY <1>5, <3>1, <3>2, <3>3, <3>4 DEF IssueClaimLink, MayIssue, NewLink
    <3> HIDE DEF version, key
    <3> QED
      BY <3>1, <3>2, <3>4, <3>5, IssueNew
  <2>4. RotatedStep
    <3> SUFFICES ASSUME NEW other \in Key, issuance[<<"rotate", other>>] = None,
                        issuance'[<<"rotate", other>>] # None
                 PROVE  other = command.key
      BY <1>1, <1>2, <2>3 DEF RotatedStep
    <3> QED
      BY <2>3 DEF IssuanceKey
  <2> QED
    BY <2>1, <2>2, <2>4
<1>6. CASE claimant' = replied /\ UNCHANGED <<stored, staff, viewer, now>>
  <2>1. /\ IInv' /\ claimant'[p].at = "replied"
        /\ \A r \in Claimant : r # p => claimant'[r] = claimant[r]
    BY <1>1, <1>2, <1>6, ReplacementFound
  <2> QED
    BY <1>4, <1>6, <2>1 DEF RefusedStep
<1>7. CASE /\ ~MayIssue(key, command.case, version) /\ ~IssuedBefore(key, command.case, version)
           /\ Refuse(p) /\ UNCHANGED <<stored, staff, viewer, now>>
  <2>1. /\ IInv' /\ claimant'[p].command = command
        /\ \A r \in Claimant : r # p => claimant'[r] = claimant[r]
    BY <1>1, <1>2, <1>7, ReplacementRefused
  <2>2. MayBeRefused(p)
    BY <1>1, <1>2, <1>7, Zenon DEF MayBeRefused
  <2>3. RefusedStep
    BY <1>2, <2>1, <2>2 DEF RefusedStep
  <2> QED
    BY <1>4, <1>7, <2>1, <2>3
<1> QED
  BY <1>3, <1>5, <1>6, <1>7

\* Every other step refuses nobody and issues no replacement.
LEMMA NothingIssued ==
  ASSUME UNCHANGED issuance
  PROVE  RotatedStep
  BY DEF RotatedStep

LEMMA OthersStay ==
  ASSUME NEW p \in Claimant, claimant'[p].at # "refused",
         \A r \in Claimant : r # p => claimant'[r] = claimant[r]
  PROVE  RefusedStep
  BY DEF RefusedStep

LEMMA NobodyRefused ==
  ASSUME UNCHANGED claimant
  PROVE  RefusedStep
  BY DEF RefusedStep

LEMMA ClaimantStepKeeps ==
  ASSUME IInv, NEW p \in Claimant, ClaimantStep(p) \/ Stop(p)
  PROVE  IInv' /\ Grows /\ RefusedStep /\ RotatedStep
<1>0. TypeOK
  BY DEF IInv
<1>1. CASE Repeat(p)
  <2>1. UNCHANGED stored /\ UNCHANGED issuance
    BY <1>1 DEF Repeat, stored
  <2> QED
    BY <1>0, <1>1, <2>1, RepeatKeeps, OthersStay, StoredStays, NothingIssued
<1>2. CASE CommitAnswer(p)
  <2>1. PICK q : claimant' = [claimant EXCEPT ![p] = [at |-> "answered", command |-> q]]
    BY <1>2 DEF CommitAnswer
  <2>2. /\ claimant'[p].at # "refused"
        /\ \A r \in Claimant : r # p => claimant'[r] = claimant[r]
    BY <1>0, <2>1 DEF TypeOK
  <2>3. IInv' /\ Grows
    BY <1>2, CommitKeeps
  <2>4. RotatedStep
    <3>1. link[claimant[p].command.case] # None
      BY <1>2 DEF CommitAnswer, Acceptable, Valid
    <3>2. claimant[p].command.case \in Case
      BY <1>2, CommitFinds
    <3>3. PICK c \in Case : c = claimant[p].command.case
      BY <3>2
    <3>4. issuance[link[c].key] # None
      BY <3>1, <3>3, LatestLink
    <3>5. issuance' = [issuance EXCEPT ![link[c].key] = Used(link[c])]
      BY <1>2, <3>3 DEF CommitAnswer, Consume
    <3>6. \A j \in IssuanceKey : issuance[j] = None => issuance'[j] = None
      BY <1>0, <3>4, <3>5 DEF TypeOK
    <3> QED
      BY <3>6 DEF RotatedStep, IssuanceKey
  <2> QED
    BY <2>2, <2>3, <2>4, OthersStay
<1>3. CASE ReplayAnswer(p)
  <2>1. UNCHANGED stored /\ UNCHANGED issuance
    BY <1>3 DEF ReplayAnswer, stored
  <2> QED
    BY <1>0, <1>3, <2>1, ReplayKeeps, OthersStay, StoredStays, NothingIssued
<1>4. CASE RefuseAnswer(p)
  <2>1. UNCHANGED stored /\ UNCHANGED issuance
    BY <1>4 DEF RefuseAnswer, stored
  <2> QED
    BY <1>0, <1>4, <2>1, RefuseAnswerKeeps, OthersStay, StoredStays, NothingIssued
<1>5. CASE Rotate(p)
  <2>1. UNCHANGED stored /\ UNCHANGED issuance
    BY <1>5 DEF Rotate, stored
  <2> QED
    BY <1>0, <1>5, <2>1, RotateKeeps, OthersStay, StoredStays, NothingIssued
<1>6. CASE IssueReplacement(p)
  BY <1>6, IssueReplacementKeeps
<1>7. CASE Stop(p)
  <2>1. UNCHANGED stored /\ UNCHANGED issuance
    BY <1>7 DEF Stop, stored
  <2> QED
    BY <1>0, <1>7, <2>1, StopKeeps, OthersStay, StoredStays, NothingIssued
<1> QED
  BY <1>1, <1>2, <1>3, <1>4, <1>5, <1>6, <1>7 DEF ClaimantStep

LEMMA Step ==
  ASSUME IInv, [Next]_vars
  PROVE  IInv' /\ Grows /\ RefusedStep /\ RotatedStep
<1>0. TypeOK
  BY DEF IInv
<1>1. ASSUME NEW c \in Case, AskPrivateQuestion(c)
      PROVE  IInv' /\ Grows /\ RefusedStep /\ RotatedStep
  <2>1. IInv'
    BY <1>1, AskKeeps
  <2>2. UNCHANGED claimant /\ UNCHANGED issuance /\ UNCHANGED receipt
    BY <1>1 DEF AskPrivateQuestion
  <2>3. \A d \in Case : case'[d] = case[d] \/ case'[d].version = case[d].version + 1
    BY <1>0, <1>1 DEF AskPrivateQuestion, TypeOK
  <2>4. \A d \in Case : case[d].version \in Nat
    BY <1>0, CaseTyped
  <2>5. Grows
    BY <2>2, <2>3, <2>4 DEF Grows
  <2> QED
    BY <2>1, <2>2, <2>5, NothingIssued, NobodyRefused
<1>2. ASSUME NEW s \in Staff, NEW c \in Case, NEW k \in StaffKey, StaffRequest(s, c, k)
      PROVE  IInv' /\ Grows /\ RefusedStep /\ RotatedStep
  <2>1. IInv'
    BY <1>2, StaffRequestKeeps
  <2>2. UNCHANGED claimant /\ UNCHANGED issuance /\ UNCHANGED stored
    BY <1>2 DEF StaffRequest, stored
  <2> QED
    BY <1>0, <2>1, <2>2, NothingIssued, NobodyRefused, StoredStays
<1>3. ASSUME NEW s \in Staff, StaffIssue(s)
      PROVE  IInv' /\ Grows /\ RefusedStep /\ RotatedStep
  <2>1. IInv' /\ Grows
    BY <1>3, StaffIssueKeeps
  <2>2. UNCHANGED claimant
    BY <1>3 DEF StaffIssue
  <2>3. RotatedStep
    <3>1. PICK k \in IssuanceKey : k = staff[s].key /\ k \in {"staff"} \X StaffKey
      BY <1>3, StaffHolds DEF StaffIssue
    <3>2. PICK c \in Case : c = staff[s].case
      BY <1>3, StaffHolds DEF StaffIssue
    <3>3. PICK time \in Nat : time = staff[s].time
      BY <1>3, StaffHolds DEF StaffIssue
    <3>4. PICK version : version = staff[s].version
      OBVIOUS
    <3>5. IssueClaimLink(k, c, version, time)
      BY <1>3, <3>1, <3>2, <3>3, <3>4 DEF StaffIssue, IssueClaimLink, MayIssue, NewLink
    <3>6. \A j \in IssuanceKey : issuance[j] = None /\ j # k => issuance'[j] = None
      BY <3>5, IssueNew
    <3>7. ASSUME NEW key \in Key
          PROVE  <<"rotate", key>> \in IssuanceKey /\ <<"rotate", key>> # k
      BY <3>1 DEF IssuanceKey
    <3> QED
      BY <3>6, <3>7 DEF RotatedStep
  <2> QED
    BY <2>1, <2>2, <2>3, NobodyRefused
<1>4. ASSUME NEW s \in Staff, StaffEnds(s)
      PROVE  IInv' /\ Grows /\ RefusedStep /\ RotatedStep
  <2>1. IInv'
    BY <1>4, StaffEndsKeeps
  <2>2. UNCHANGED claimant /\ UNCHANGED issuance /\ UNCHANGED stored
    BY <1>4 DEF StaffEnds, stored
  <2> QED
    BY <1>0, <2>1, <2>2, NothingIssued, NobodyRefused, StoredStays
<1>5. ASSUME NEW p \in Claimant, NEW c \in Case, NEW token \in IssuanceKey,
             NEW answer \in Answer, NEW key \in ClaimantKey[c],
             SubmitClaimEvidence(p, c, key, token, answer)
      PROVE  IInv' /\ Grows /\ RefusedStep /\ RotatedStep
  <2>1. /\ IInv' /\ claimant'[p].at = "answering"
        /\ \A r \in Claimant : r # p => claimant'[r] = claimant[r]
    BY <1>5, SubmitKeeps
  <2>2. UNCHANGED issuance /\ UNCHANGED stored
    BY <1>5 DEF SubmitClaimEvidence, stored
  <2> QED
    BY <1>0, <2>1, <2>2, NothingIssued, OthersStay, StoredStays
<1>6. ASSUME NEW w \in Viewer, NEW c \in Case, NEW token \in IssuanceKey,
             InspectClaimLink(w, c, token)
      PROVE  IInv' /\ Grows /\ RefusedStep /\ RotatedStep
  <2>1. IInv'
    BY <1>6, InspectKeeps
  <2>2. UNCHANGED claimant /\ UNCHANGED issuance /\ UNCHANGED stored
    BY <1>6 DEF InspectClaimLink, stored
  <2> QED
    BY <1>0, <2>1, <2>2, NothingIssued, NobodyRefused, StoredStays
<1>7. ASSUME NEW w \in Viewer, ReadLink(w)
      PROVE  IInv' /\ Grows /\ RefusedStep /\ RotatedStep
  <2>1. IInv'
    BY <1>7, ReadLinkKeeps
  <2>2. UNCHANGED claimant /\ UNCHANGED issuance /\ UNCHANGED stored
    BY <1>7 DEF ReadLink, stored
  <2> QED
    BY <1>0, <2>1, <2>2, NothingIssued, NobodyRefused, StoredStays
<1>8. CASE Tick
  <2>1. IInv'
    BY <1>8, TickKeeps
  <2>2. UNCHANGED claimant /\ UNCHANGED issuance /\ UNCHANGED stored
    BY <1>8 DEF Tick, stored
  <2> QED
    BY <1>0, <2>1, <2>2, NothingIssued, NobodyRefused, StoredStays
<1>9. CASE UNCHANGED vars
  <2>1. /\ UNCHANGED claimant /\ UNCHANGED issuance /\ UNCHANGED stored
        /\ UNCHANGED staff /\ UNCHANGED viewer /\ UNCHANGED now
    BY <1>9 DEF vars, stored
  <2>2. TypeOK'
    BY <1>0, <2>1, TypeParts, TypesNext DEF stored
  <2>3. IInv'
    BY <2>1, <2>2, NothingStored
  <2> QED
    BY <1>0, <2>1, <2>3, NothingIssued, NobodyRefused, StoredStays
<1> QED
  BY <1>1, <1>2, <1>3, <1>4, <1>5, <1>6, <1>7, <1>8, <1>9, ClaimantStepKeeps DEF Next

LEMMA Start ==
  ASSUME Init
  PROVE  IInv /\ RotationsFit /\ RefusedMovedOn
<1>1. \A c \in Case : case[c] = [state |-> "ANALYZING", version |-> 0, wrong |-> 0]
                     /\ link[c] = None
  BY DEF Init
<1>2. /\ \A k \in IssuanceKey : issuance[k] = None
      /\ \A c \in Case, key \in Key : receipt[<<c, key>>] = None
      /\ \A p \in Claimant : claimant[p].at = "idle"
      /\ \A w \in Viewer : viewer[w].at = "idle"
  BY DEF Init, Idle
<1>3. TypeOK
  <2>1. case \in [Case -> CaseRecord]
    BY DEF Init, CaseRecord
  <2> QED
    BY <2>1 DEF Init, TypeOK
<1>4. LinkInv
  BY <1>1, <1>2 DEF LinkInv, CopiesAgree, VersionsFit, ReceiptsFit
<1>5. \A c \in Case : Answers(c) = {} /\ WrongOnes(c) = {}
  BY <1>2 DEF Answers, WrongOnes
<1>6. FinitelyMany
  BY <1>5, FS_EmptySet DEF FinitelyMany
<1>7. AnswersUseLinks
  <2>1. \A c \in Case : case[c].wrong = Cardinality(WrongOnes(c))
    BY <1>1, <1>5, FS_EmptySet
  <2> QED
    BY <1>5, <2>1 DEF AnswersUseLinks, WrongOnes
<1>8. ClaimantsFit /\ ViewersFit /\ InspectionWasTrue
  BY <1>2 DEF ClaimantsFit, ClaimantFits, ViewersFit, ViewerFits, InspectionWasTrue
<1>9. RotationsFit /\ RefusedMovedOn
  BY <1>2, KeyOfCase DEF RotationsFit, RefusedMovedOn, IssuanceKey
<1> QED
  BY <1>3, <1>4, <1>6, <1>7, <1>8, <1>9 DEF IInv

-----------------------------------------------------------------------------
(* Rotations *)

LEMMA RotationStep ==
  ASSUME IInv, RotationsFit, Grows, RotatedStep
  PROVE  RotationsFit'
<1> SUFFICES ASSUME NEW key \in Key, issuance'[<<"rotate", key>>] # None
             PROVE  LET record == issuance'[<<"rotate", key>>]
                    IN /\ key \in ClaimantKey[record.case]
                       /\ receipt'[<<record.case, key>>] # None
                       /\ record.version = receipt'[<<record.case, key>>].outcome.version
  BY DEF RotationsFit
<1>1. <<"rotate", key>> \in IssuanceKey
  BY DEF IssuanceKey
<1>2. PICK k \in IssuanceKey : k = <<"rotate", key>>
  BY <1>1
<1>3. CASE issuance[k] # None
  <2>1. /\ key \in ClaimantKey[issuance[k].case]
        /\ receipt[<<issuance[k].case, key>>] # None
        /\ issuance[k].version = receipt[<<issuance[k].case, key>>].outcome.version
    BY <1>2, <1>3 DEF RotationsFit
  <2>2. issuance[k].case \in Case
    BY <1>3, IssuanceTyped, RecordTyped DEF IInv
  <2>3. /\ issuance'[k].case = issuance[k].case /\ issuance'[k].version = issuance[k].version
        /\ receipt'[<<issuance[k].case, key>>] = receipt[<<issuance[k].case, key>>]
    BY <1>3, <2>1, <2>2 DEF Grows
  <2> QED
    BY <1>2, <2>1, <2>3
<1>4. CASE issuance[k] = None
  <2>1. PICK p \in Claimant :
          /\ claimant[p].at = "issuing"
          /\ claimant[p].command.key = key
          /\ issuance'[k].case = claimant[p].command.case
          /\ issuance'[k].version = Earlier(claimant[p].command).outcome.version
    BY <1>2, <1>4 DEF RotatedStep
  <2>2. PICK c \in Case : c = claimant[p].command.case /\ key \in ClaimantKey[c]
    BY <2>1, ReplacementHolds
  <2>3. receipt[<<c, key>>] # None /\ issuance'[k].version = receipt[<<c, key>>].outcome.version
    BY <2>1, <2>2, ReplacementHolds DEF Committed, Earlier
  <2>4. receipt'[<<c, key>>] = receipt[<<c, key>>]
    BY <2>3 DEF Grows
  <2> QED
    BY <1>2, <2>1, <2>2, <2>3, <2>4
<1> QED
  BY <1>3, <1>4

\* A replacement that is not found under its key although the case is as the answer
\* left it would have been issued for another case.
LEMMA RefusedHasMovedOn ==
  ASSUME DisjointKeys, IInv, RotationsFit, NEW p \in Claimant, MayBeRefused(p)
  PROVE  Earlier(claimant[p].command).outcome.version < case[claimant[p].command.case].version
<1>1. claimant[p].at = "issuing"
  BY DEF MayBeRefused
<1>2. PICK command \in Command :
        /\ command = claimant[p].command
        /\ Committed(command) /\ StillAsks(command)
        /\ command.case \in Case
        /\ command.key \in ClaimantKey[command.case] /\ command.key \in Key
        /\ <<"rotate", command.key>> \in IssuanceKey
  BY <1>1, ReplacementHolds
<1> DEFINE c == command.case
           earlier == receipt[<<c, command.key>>]
           record == issuance[<<"rotate", command.key>>]
<1>3. /\ earlier # None /\ earlier.outcome.state = "CLARIFICATION_REQUIRED"
      /\ earlier.outcome.version \in Nat /\ case[c].version \in Nat
      /\ earlier.outcome.version <= case[c].version
      /\ earlier.outcome.version = case[c].version => case[c] = earlier.outcome
  <2>1. earlier # None /\ earlier.outcome.state = "CLARIFICATION_REQUIRED"
    BY <1>2 DEF Committed, StillAsks, Earlier
  <2>2. earlier.outcome.version \in Nat /\ case[c].version \in Nat
    BY <1>2, <2>1, ReceiptTyped, CaseTyped DEF IInv
  <2>3. /\ earlier.outcome.version <= case[c].version
        /\ earlier.outcome.version = case[c].version => case[c] = earlier.outcome
    BY <1>2, <2>1 DEF IInv, LinkInv, ReceiptsFit
  <2> QED
    BY <2>1, <2>2, <2>3
<1>4. /\ ~(record = None /\ case[c].state = "CLARIFICATION_REQUIRED"
           /\ case[c].version = earlier.outcome.version)
      /\ ~(record # None /\ record.case = c /\ record.version = earlier.outcome.version)
  BY <1>2 DEF MayBeRefused, MayIssue, IssuedBefore, Earlier
<1>5. SUFFICES ASSUME earlier.outcome.version = case[c].version
               PROVE  FALSE
  BY <1>2, <1>3 DEF Earlier
<1>6. record # None
  BY <1>3, <1>4, <1>5
<1>7. /\ command.key \in ClaimantKey[record.case]
      /\ record.version = receipt[<<record.case, command.key>>].outcome.version
  BY <1>2, <1>6 DEF RotationsFit
<1>8. record.case \in Case
  BY <1>2, <1>6, IssuanceTyped, RecordTyped DEF IInv
<1>9. record.case = c
  BY <1>2, <1>7, <1>8 DEF DisjointKeys
<1> QED
  BY <1>4, <1>6, <1>7, <1>9

LEMMA RefusedStays ==
  ASSUME DisjointKeys, IInv, IInv', RotationsFit, RefusedMovedOn, Grows, RefusedStep
  PROVE  RefusedMovedOn'
<1> SUFFICES ASSUME NEW p \in Claimant, claimant'[p].at = "refused"
             PROVE  Earlier(claimant[p].command)'.outcome.version
                      < case'[claimant'[p].command.case].version
  BY DEF RefusedMovedOn
<1>1. /\ claimant'[p].command = claimant[p].command
      /\ claimant[p].at \in {"issuing", "refused"}
      /\ Earlier(claimant[p].command).outcome.version < case[claimant[p].command.case].version
  <2>1. CASE claimant'[p] = claimant[p]
    BY <2>1 DEF RefusedMovedOn
  <2>2. CASE MayBeRefused(p) /\ claimant'[p].command = claimant[p].command
    BY <2>2, RefusedHasMovedOn DEF MayBeRefused
  <2> QED
    BY <2>1, <2>2 DEF RefusedStep
<1>2. PICK command \in Command : command = claimant[p].command /\ Committed(command)
  BY <1>1, OnTheWay
<1>3. command.case \in Case /\ command.key \in Key
  BY CommandTyped
<1> DEFINE earlier == receipt[<<command.case, command.key>>]
<1>4. earlier # None /\ earlier.outcome.version < case[command.case].version
  BY <1>1, <1>2 DEF Committed, Earlier
<1>5. receipt'[<<command.case, command.key>>] = earlier
  BY <1>3, <1>4 DEF Grows
<1>6. /\ case[command.case].version <= case'[command.case].version
      /\ case[command.case].version \in Nat /\ case'[command.case].version \in Nat
      /\ earlier.outcome.version \in Nat
  BY <1>3, <1>4, CaseTyped, ReceiptTyped DEF Grows, IInv, TypeOK, CaseRecord
<1> HIDE DEF earlier
<1>7. earlier.outcome.version < case'[command.case].version
  BY <1>4, <1>6
<1> QED
  BY <1>1, <1>2, <1>5, <1>7 DEF Earlier

-----------------------------------------------------------------------------
(* The theorems *)

LEMMA Invariant == Spec => []IInv
<1>1. Init => IInv
  BY Start
<1>2. IInv /\ [Next]_vars => IInv'
  BY Step
<1> QED
  BY <1>1, <1>2, PTL DEF Spec

\* Cases, links, issuances, receipts and requests are of their types: the version
\* and the clock may grow without limit.
THEOREM TypeCorrect == Spec => []TypeOK
<1>1. IInv => TypeOK
  BY DEF IInv
<1> QED
  BY <1>1, Invariant, PTL

\* The two copies of a link agree on whether it is good, and of all the links of a
\* case the latest alone can be.
THEOREM OneGoodLink == Spec => []ActiveMeansTaken
<1>1. ASSUME IInv
      PROVE  ActiveMeansTaken
  <2> SUFFICES ASSUME NEW k \in IssuanceKey, issuance[k] # None
               PROVE  /\ Active(issuance[k], now) <=> WouldBeTaken(k, issuance[k].case, now)
                      /\ ~issuance[k].used /\ ~issuance[k].superseded =>
                           link[issuance[k].case] = issuance[k]
    BY DEF ActiveMeansTaken
  <2>1. TypeOK /\ CopiesAgree /\ VersionsFit
    BY <1>1 DEF IInv, LinkInv
  <2>2. PICK record \in ClaimLinkRecord : record = issuance[k]
    BY <2>1, IssuanceTyped
  <2>3. PICK c \in Case : c = record.case
    BY RecordTyped
  <2>4. /\ record.key = k
        /\ ~record.used /\ ~record.superseded => link[c] = record
    BY <2>1, <2>2, <2>3 DEF CopiesAgree
  <2>5. link[c] # None => issuance[link[c].key] = link[c]
    BY <2>1 DEF CopiesAgree
  <2>6. link[c] # None /\ link[c].version = case[c].version =>
          case[c].state = "CLARIFICATION_REQUIRED"
    BY <2>1 DEF VersionsFit
  <2>7. Active(issuance[k], now) <=>
          /\ link[c] # None /\ link[c].key = k
          /\ ~link[c].used /\ ~link[c].superseded
          /\ ~record.used /\ ~record.superseded
          /\ record.version = case[c].version
          /\ now < record.expires
    BY <2>2, <2>3, <2>4 DEF Active
  <2>8. WouldBeTaken(k, c, now) <=>
          /\ case[c].state = "CLARIFICATION_REQUIRED"
          /\ link[c] # None /\ link[c].key = k
          /\ ~link[c].used /\ ~link[c].superseded
          /\ link[c].version = case[c].version
          /\ now < link[c].expires
    BY DEF WouldBeTaken, Valid
  <2>9. link[c] # None /\ link[c].key = k => link[c] = record
    BY <2>2, <2>5
  <2>10. Active(issuance[k], now) <=> WouldBeTaken(k, c, now)
    BY <2>6, <2>7, <2>8, <2>9
  <2> QED
    BY <2>2, <2>3, <2>4, <2>10
<1> QED
  BY <1>1, Invariant, PTL

\* Every answer that was taken has used up a link of its own, and the wrong ones
\* are those the case counts.
THEOREM OneAnswerPerLink == Spec => []AnswersUseLinks
<1>1. IInv => AnswersUseLinks
  BY DEF IInv
<1> QED
  BY <1>1, Invariant, PTL

\* An inspection in two reads, between which the case may move on, is right about
\* a moment between them.
THEOREM InspectionsAreTrue == Spec => []InspectionWasTrue
<1>1. IInv => InspectionWasTrue
  BY DEF IInv
<1> QED
  BY <1>1, Invariant, PTL

\* Where no two cases are answered under the same key, a claimant whose wrong answer
\* was taken is refused the replacement only after the case has moved on.
THEOREM ReplacementPromised == DisjointKeys => (Spec => []WrongAnswerReplaced)
<1> SUFFICES ASSUME DisjointKeys
             PROVE  Spec => []WrongAnswerReplaced
  OBVIOUS
<1>1. Init => RInv
  BY Start DEF RInv
<1>2. RInv /\ [Next]_vars => RInv'
  BY Step, RotationStep, RefusedStays DEF RInv
<1>3. ASSUME RInv
      PROVE  WrongAnswerReplaced
  <2> SUFFICES ASSUME NEW p \in Claimant, claimant[p].at = "refused"
               PROVE  LET command == claimant[p].command
                      IN StillAsks(command) /\ case[command.case] # Earlier(command).outcome
    BY DEF WrongAnswerReplaced
  <2>1. PICK command \in Command : command = claimant[p].command /\ StillAsks(command)
                                  /\ Committed(command)
    BY <1>3, OnTheWay DEF RInv
  <2>2. Earlier(command).outcome.version < case[command.case].version
    BY <1>3, <2>1 DEF RInv, RefusedMovedOn, Earlier
  <2>3. case[command.case].version \in Nat
    BY <1>3, CommandTyped, CaseTyped DEF RInv, IInv
  <2>4. case[command.case] # Earlier(command).outcome
    BY <2>2, <2>3
  <2> QED
    BY <2>1, <2>4 DEF Earlier
<1> QED
  BY <1>1, <1>2, <1>3, PTL DEF Spec
=============================================================================
