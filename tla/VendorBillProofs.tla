-------------------------- MODULE VendorBillProofs --------------------------
(***************************************************************************)
(* Proofs about VendorBill: types, the inductive invariant, that approval  *)
(* takes two persons and cannot be outlived by an edit, that a posted bill *)
(* is booked as it is shown, and that its posting is idempotent.           *)
(***************************************************************************)
EXTENDS VendorBill, TLAPS

\* The two parts of the invariant.
IInv == TypeOK /\ Consistent

-----------------------------------------------------------------------------
\* The events of the approval history have their type.
LEMMA EventType ==
  ASSUME TypeOK, approval # "none", History, NEW action \in Actions, NEW u \in Users
  PROVE  /\ Event(action, u) \in Events
         /\ [Event(action, u) EXCEPT !.version = version + 1]
              = [action |-> action, actor |-> u, version |-> version + 1, details |-> details]
         /\ [Event(action, u) EXCEPT !.version = version + 1] \in Events
  BY DEF TypeOK, Event, Events, History

\* A request is built from a bill that exists and from its accounts, or is on file; it
\* posts the bill's details.
LEMMA PayloadType ==
  ASSUME BillAssumption, BillNone, TypeOK, History, Postable, NEW b \in Payload
  PROVE  b \in Bodies /\ b # None /\ Covers(details, b)
  <1>1. details \in Details /\ account \in Accounts
    BY DEF TypeOK, History, Postable, Lockable
  <1>2. Current \in Bodies /\ Legacy(Current) \in Bodies
    BY <1>1, BillAssumption DEF Current, Legacy, Bodies, Details
  <1>3. Covers(details, Current) /\ Covers(details, Legacy(Current))
    BY <1>1, BillAssumption, BillNone DEF Covers, Current, Legacy, Details
  <1>4. b \in {Current, Legacy(Current)}
    BY DEF Payload
  <1> QED BY <1>2, <1>3, <1>4, BillNone

\* A bill of an earlier release has one request, which may be booked, and is if it is posted.
LEMMA LegacyBill ==
  ASSUME BillNone, NoRef \in Refs, LegacyInit
  PROVE  \E b \in Bodies :
           /\ b # None /\ Covers(details, b)
           /\ record \in Records /\ record # None /\ record.body = b
           /\ wire = {b} /\ ledger \subseteq {b}
           /\ Confirmed => ledger = {b}
           /\ approval \in {"legacy_unrecorded", "draft"}
           /\ status \in {"ready_to_sync", "posted"}
           /\ status = "posted" => Confirmed
  <1> USE DEF LegacyInit
  <1>1. PICK a \in Accounts, outcome \in {"failed", "succeeded"} :
          LET b == [core |-> details.core, ref |-> NoRef, account |-> a] IN
          /\ record = [status |-> outcome, body |-> b]
          /\ wire = {b} /\ ledger \in IF outcome = "succeeded" THEN {{b}} ELSE {{}, {b}}
          /\ approval = IF outcome = "succeeded" THEN "legacy_unrecorded" ELSE "draft"
          /\ status = IF outcome = "succeeded" THEN "posted" ELSE "ready_to_sync"
    OBVIOUS
  <1> DEFINE b == [core |-> details.core, ref |-> NoRef, account |-> a]
  <1>2. details \in Details /\ details # None
    BY BillNone
  <1>3. b \in Bodies /\ b # None /\ Covers(details, b)
    BY <1>2, BillNone DEF Bodies, Details, Covers
  <1> HIDE DEF b
  <1>4. /\ record = [status |-> outcome, body |-> b]
        /\ wire = {b} /\ ledger \in IF outcome = "succeeded" THEN {{b}} ELSE {{}, {b}}
        /\ approval = IF outcome = "succeeded" THEN "legacy_unrecorded" ELSE "draft"
        /\ status = IF outcome = "succeeded" THEN "posted" ELSE "ready_to_sync"
    BY <1>1 DEF b
  <1> HIDE DEF LegacyInit
  <1>5. record \in Records /\ record # None /\ record.body = b /\ record.status = outcome
    BY <1>3, <1>4, BillNone DEF Records
  <1>6. CASE outcome = "succeeded"
    BY <1>3, <1>4, <1>5, <1>6 DEF Confirmed
  <1>7. CASE outcome = "failed"
    <2>1. ledger \in {{}, {b}} /\ approval = "draft" /\ status = "ready_to_sync" /\ ~Confirmed
      BY <1>4, <1>5, <1>7 DEF Confirmed
    <2> QED BY <1>3, <1>4, <1>5, <2>1
  <1> QED BY <1>6, <1>7

\* The initial states are consistent.
LEMMA Initially ==
  ASSUME BillAssumption, BillNone, Init
  PROVE  IInv
  <1> USE BillAssumption, BillNone DEF Init
  <1>1. CASE NewInit
    BY <1>1 DEF NewInit, IInv, TypeOK, Consistent, History, OneDecision, OnFile, Confirmed, Covers, Actions
  <1>2. CASE LegacyInit
    <2>1. details \in Details /\ details # None
      BY <1>2 DEF LegacyInit
    <2>2. PICK b \in Bodies :
            /\ b # None /\ Covers(details, b)
            /\ record \in Records /\ record # None /\ record.body = b
            /\ wire = {b} /\ ledger \subseteq {b}
            /\ Confirmed => ledger = {b}
            /\ approval \in {"legacy_unrecorded", "draft"}
            /\ status \in {"ready_to_sync", "posted"}
            /\ status = "posted" => Confirmed
      BY <1>2, LegacyBill DEF BillAssumption
    <2>3. TypeOK
      BY <2>1, <2>2 DEF TypeOK
    <2>4. History /\ OneDecision
      BY <2>1, <2>2 DEF History, OneDecision, Actions
    <2>5. OnFile
      BY <2>2 DEF OnFile
    <2> QED BY <2>3, <2>4, <2>5 DEF IInv, Consistent
  <1> QED BY <1>1, <1>2

-----------------------------------------------------------------------------
\* A step of the system keeps the types.
LEMMA TypeStep ==
  ASSUME IInv, [Next]_vars
  PROVE  TypeOK'
  <1> USE BillAssumption, BillNone DEF IInv, Consistent, workflow, posting, context, pages
  <1>1. ASSUME NEW u \in Users, NEW d \in Details, Create(u, d) \/ Save(u, d)
        PROVE  TypeOK'
    <2>1. UNCHANGED <<posting, version, submitter, events, grants, account, opened, edits>>
      BY <1>1 DEF Create, Save
    <2>2. details' \in Details \cup {None}
      BY <1>1 DEF Create, Save
    <2>3. /\ approval' \in {"none", "draft", "legacy_unrecorded"} \cup Actions
          /\ fingerprint' \in Details \cup {None}
          /\ stale' \subseteq opened
      BY <1>1 DEF Create, Save, ApprovalAfter, TypeOK
    <2> QED BY <2>1, <2>2, <2>3 DEF TypeOK
  <1>2. ASSUME NEW u \in Users, Submit(u)
        PROVE  TypeOK'
    <2>1. events' \subseteq Events
      BY <1>2, EventType DEF Submit, Lockable, TypeOK, Actions
    <2>2. version' \in Nat
      BY <1>2 DEF Submit, TypeOK
    <2> QED BY <1>2, <2>1, <2>2 DEF Submit, TypeOK, Actions
  <1>3. ASSUME NEW u \in Users, Withdraw(u) \/ Approve(u) \/ Reject(u)
        PROVE  TypeOK'
    <2>1. approval # "none"
      BY <1>3 DEF Withdraw, Approve, Reject, Lockable
    <2>2. PICK action \in Actions : events' = events \cup {Event(action, u)}
      BY <1>3 DEF Withdraw, Approve, Reject, Actions
    <2>3. Event(action, u) \in Events
      BY <2>1, EventType
    <2>4. events' \subseteq Events
      BY <2>2, <2>3 DEF TypeOK
    <2> QED BY <1>3, <2>4 DEF Withdraw, Approve, Reject, TypeOK, Actions
  <1>4. ASSUME NEW u \in Users, Open(u)
        PROVE  TypeOK'
    BY <1>4 DEF Open, TypeOK
  <1>5. CASE Post
    <2>1. PICK b \in Payload : sending' = b /\ wire' = wire \cup {b}
      BY <1>5 DEF Post
    <2>2. b \in Bodies
      BY <1>5, PayloadType DEF Post
    <2> QED BY <1>5, <2>1, <2>2 DEF Post, TypeOK
  <1>6. CASE Book
    BY <1>6 DEF Book, TypeOK
  <1>7. CASE PostConfirmed \/ PostFailed
    <2>1. record' \in Records
      BY <1>7 DEF PostConfirmed, PostFailed, Answered, Locked, TypeOK, Records
    <2> QED BY <1>7, <2>1 DEF PostConfirmed, PostFailed, Answered, TypeOK
  <1>8. CASE Crash
    <2>1. lost' \in BOOLEAN /\ crashes' \in Nat
      BY <1>8 DEF Crash, TypeOK
    <2> QED BY <1>8, <2>1 DEF Crash, TypeOK
  <1>9. ASSUME NEW u \in Users, NEW granted \in BOOLEAN, SetGrant(u, granted)
        PROVE  TypeOK'
    BY <1>9 DEF SetGrant, TypeOK
  <1>10. ASSUME NEW a \in Accounts \cup {None}, ChangeAccount(a)
         PROVE  TypeOK'
    BY <1>10 DEF ChangeAccount, TypeOK
  <1>11. CASE UNCHANGED vars
    BY <1>11 DEF vars, TypeOK
  <1> QED BY <1>1, <1>2, <1>3, <1>4, <1>5, <1>6, <1>7, <1>8, <1>9, <1>10, <1>11 DEF Next

\* Steps that leave the workflow alone.
CalmStep == UNCHANGED workflow

\* Every step but a save, a submission and a decision is calm.
LEMMA CalmSteps ==
  ASSUME [Next]_vars
  PROVE  \/ \E u \in Users, d \in Details : Create(u, d) \/ Save(u, d)
         \/ \E u \in Users : Submit(u) \/ Withdraw(u) \/ Approve(u) \/ Reject(u)
         \/ CalmStep
  BY DEF Next, vars, CalmStep, Open, Post, Book, PostConfirmed, PostFailed, Answered, Crash,
         SetGrant, ChangeAccount

\* What a posting step does to the record, the status and the lock of the bill.
LEMMA PostingMoves ==
  ASSUME TypeOK, [Next]_vars
  PROVE  \/ UNCHANGED <<status, record, sending>>
         \/ Post \/ PostConfirmed \/ PostFailed \/ Crash
  BY DEF Next, vars, posting, workflow, Create, Save, Submit, Withdraw, Approve, Reject, Open, Book,
         SetGrant, ChangeAccount

-----------------------------------------------------------------------------
\* A save keeps the history: it changes the details only of a bill that no submission binds.
LEMMA SaveHistory ==
  ASSUME IInv, NEW u \in Users, NEW d \in Details, Create(u, d) \/ Save(u, d)
  PROVE  History'
  <1> USE BillAssumption, BillNone DEF IInv, Consistent, History
  <1>1. CASE Create(u, d)
    BY <1>1 DEF Create, TypeOK, Actions
  <1>2. CASE Save(u, d) /\ d # details
    <2>1. approval' \notin Actions \cup {"none"}
      BY <1>2 DEF Save, Savable, ApprovalAfter, Lockable, TypeOK, Actions
    <2> QED BY <1>2, <2>1 DEF Save, Actions
  <1>3. CASE Save(u, d) /\ d = details
    <2>1. UNCHANGED <<approval, details, version, submitter, events, posting>>
      BY <1>3 DEF Save, ApprovalAfter
    <2> QED BY <2>1 DEF posting, Confirmed
  <1> QED BY <1>1, <1>2, <1>3

\* A submission opens a new version, in which nothing else has happened.
LEMMA SubmitHistory ==
  ASSUME IInv, NEW u \in Users, Submit(u)
  PROVE  History' /\ OneDecision'
  <1> USE BillAssumption, BillNone DEF IInv, Consistent, Submit
  <1> DEFINE s == [action |-> "submitted", actor |-> u, version |-> version + 1, details |-> details]
  <1>1. approval # "none" /\ details # None
    BY DEF Lockable, History
  <1>2. events' = events \cup {s}
    BY <1>1, EventType DEF Actions
  <1>3. \A e \in events : e.version \in Nat /\ e.version <= version /\ e.version # version + 1
    <2> HIDE DEF Submit
    <2>1. TAKE e \in events
    <2>2. e.version \in Nat /\ version \in Nat
      BY DEF TypeOK, Events
    <2>3. e.version <= version
      BY DEF History
    <2> QED BY <2>2, <2>3
  <1>4. History'
    <2>1. /\ approval' = "submitted" /\ submitter' = u /\ version' = version + 1
          /\ details' = details /\ version \in Nat
      BY DEF TypeOK
    <2>2. s \in events' /\ s.version = version' /\ s.action = "submitted" /\ s.actor = u
            /\ s.details = details
      BY <1>2, <2>1
    <2>3. \A e \in events' : e = s \/ (e.version <= version' /\ e.version # version')
      BY <1>2, <1>3, <2>1
    <2>4. \A e \in events' : e.version <= version'
      BY <2>1, <2>2, <2>3
    <2> QED BY <1>1, <2>1, <2>2, <2>3, <2>4 DEF History, Actions
  <1>5. OneDecision'
    BY <1>2, <1>3 DEF OneDecision
  <1> QED BY <1>4, <1>5

\* A decision is the first of its version and on the details that were submitted.
LEMMA DecisionHistory ==
  ASSUME IInv, NEW u \in Users, Withdraw(u) \/ Approve(u) \/ Reject(u)
  PROVE  History' /\ OneDecision'
  <1> USE BillAssumption, BillNone DEF IInv, Consistent
  <1>1. PICK action \in {"withdrawn", "approved", "rejected"} :
          /\ approval' = action /\ events' = events \cup {Event(action, u)}
          /\ action = "approved" => u # submitter
    BY DEF Withdraw, Approve, Reject, MayDecide
  <1> DEFINE e == Event(action, u)
  <1>2. approval = "submitted" /\ UNCHANGED <<details, version, submitter, posting>>
    BY DEF Withdraw, Approve, Reject, MayDecide
  <1>3. e.action = action /\ e.actor = u /\ e.version = version /\ e.details = details
    BY DEF Event
  <1>4. \A f \in events : f.version = version => f.action = "submitted" /\ f.details = details
    BY <1>2 DEF History, Actions
  <1> HIDE DEF e
  <1>5. events' = events \cup {e}
    BY <1>1 DEF e
  <1>6. History'
    <2>1. \A f \in events' : f.version <= version'
      BY <1>2, <1>3, <1>5 DEF History, TypeOK
    <2>2. \A f \in events' : f.version = version' => f.details = details'
      BY <1>2, <1>3, <1>4, <1>5
    <2>3. \E s \in events' : /\ s.action = "submitted" /\ s.actor = submitter'
                             /\ s.version = version' /\ s.details = details'
      BY <1>2, <1>5 DEF History, Actions
    <2>4. approval' # "none" /\ approval' # "submitted" /\ details' # None
      BY <1>1, <1>2 DEF History
    <2>5. approval' = "approved" => \E f \in events' : /\ f.action = "approved" /\ f.version = version'
                                                       /\ f.details = details' /\ f.actor # submitter'
      BY <1>1, <1>2, <1>3, <1>5
    <2> QED BY <2>1, <2>2, <2>3, <2>4, <2>5 DEF History
  <1>7. OneDecision'
    <2>1. \A f \in events : f.version = e.version => f.details = e.details /\ f.action = "submitted"
      BY <1>3, <1>4
    <2> QED BY <1>5, <2>1 DEF OneDecision
  <1> QED BY <1>6, <1>7

\* Every step keeps the history of submissions and decisions.
LEMMA HistoryStep ==
  ASSUME IInv, [Next]_vars
  PROVE  History' /\ OneDecision'
  <1>1. ASSUME NEW u \in Users, NEW d \in Details, Create(u, d) \/ Save(u, d)
        PROVE  History' /\ OneDecision'
    <2>1. OneDecision'
      BY <1>1 DEF IInv, Consistent, Create, Save, OneDecision
    <2> QED BY <1>1, <2>1, SaveHistory
  <1>2. ASSUME CalmStep
        PROVE  History' /\ OneDecision'
    <2>1. OneDecision'
      BY <1>2 DEF IInv, Consistent, CalmStep, workflow, OneDecision
    <2>2. approval = "none" => UNCHANGED <<record, status, sending>>
      <3>1. approval = "none" => ~Post /\ ~PostConfirmed /\ ~PostFailed /\ ~Crash
        BY DEF IInv, Consistent, History, Post, Postable, Lockable, PostConfirmed, PostFailed, Crash, Locked
      <3> QED BY <3>1, PostingMoves DEF IInv
    <2>3. History'
      BY <1>2, <2>2 DEF IInv, Consistent, CalmStep, workflow, History
    <2> QED BY <2>1, <2>3
  <1> QED BY <1>1, <1>2, CalmSteps, SubmitHistory, DecisionHistory

-----------------------------------------------------------------------------
\* The requests on the wire grow only by what is being sent, and stay there.
LEMMA FileStep ==
  ASSUME IInv, [Next]_vars
  PROVE  OnFile'
  <1> USE BillAssumption, BillNone DEF IInv, Consistent
  <1>1. ASSUME NEW u \in Users, NEW d \in Details, Create(u, d) \/ Save(u, d)
        PROVE  OnFile'
    <2>1. sending = None /\ UNCHANGED posting
      BY <1>1 DEF Create, Save, Lockable, Locked, History
    <2>2. status = "posted" => details' = details
      BY <1>1 DEF Create, Save, Savable, History
    <2> QED BY <2>1, <2>2 DEF OnFile, posting, Confirmed, Covers
  <1>2. ASSUME UNCHANGED <<posting, details>>
        PROVE  OnFile'
    BY <1>2 DEF OnFile, posting, Confirmed, Covers
  <1>3. CASE Post
    <2>1. PICK b \in Payload : sending' = b /\ wire' = wire \cup {b}
      BY <1>3 DEF Post
    <2>2. b # None /\ Covers(details, b)
      BY <1>3, PayloadType DEF Post
    <2>3. record = None \/ record.body = b
      BY DEF Payload
    <2>4. sending = None
      BY <1>3 DEF Post, Postable, Lockable, Locked
    <2>5. UNCHANGED <<details, status, record, ledger, lost>>
      BY <1>3 DEF Post, workflow
    <2>6. ~Confirmed
      BY <1>3 DEF Post
    <2>7. \A c \in wire : lost \/ c = b \/ (record # None /\ record.body = c)
      <3>1. \A c \in wire : c # None
        BY DEF TypeOK
      <3> QED BY <2>4, <3>1 DEF OnFile
    <2>8. status # "posted" /\ (record # None => record.body \in wire)
      BY <2>6 DEF OnFile
    <2>9. ~Confirmed' /\ Covers(details', sending')
      BY <2>1, <2>2, <2>5, <2>6 DEF Confirmed, Covers
    <2> QED BY <2>1, <2>2, <2>3, <2>5, <2>7, <2>8, <2>9 DEF OnFile
  <1>4. CASE Book
    BY <1>4 DEF Book, OnFile, Confirmed, Covers, workflow
  <1>5. ASSUME NEW outcome \in {"failed", "succeeded"}, NEW posted \in {"ready_to_sync", "posted"},
               Locked, Answered(outcome, posted),
               outcome = "succeeded" => sending \in ledger, posted = "posted" => outcome = "succeeded"
        PROVE  OnFile'
    <2>1. /\ record' = [status |-> outcome, body |-> sending]
          /\ status' = posted /\ sending' = None
          /\ UNCHANGED <<details, wire, ledger, lost>>
      BY <1>5 DEF Answered, workflow
    <2>2. record' # None /\ record'.body = sending /\ record'.status = outcome
      <3>1. sending \in Bodies
        BY <1>5 DEF TypeOK, Locked
      <3>2. record' \in Records
        BY <2>1, <3>1 DEF Records
      <3> QED BY <2>1, <3>2
    <2>3. sending \in wire /\ Covers(details, sending)
      BY <1>5 DEF OnFile, Locked
    <2>4. \A b \in wire : lost \/ b = sending
      BY <1>5 DEF OnFile, Locked
    <2> QED BY <1>5, <2>1, <2>2, <2>3, <2>4 DEF OnFile, Confirmed, Covers
  <1>6. CASE PostConfirmed \/ PostFailed
    BY <1>5, <1>6 DEF PostConfirmed, PostFailed
  <1>7. CASE Crash
    BY <1>7 DEF Crash, Locked, OnFile, Confirmed, Covers, workflow
  <1>8. ASSUME NEW u \in Users, Submit(u) \/ Withdraw(u) \/ Approve(u) \/ Reject(u) \/ Open(u)
        PROVE  UNCHANGED <<posting, details>>
    BY <1>8 DEF Submit, Withdraw, Approve, Reject, Open, workflow
  <1>9. (\E u \in Users, granted \in BOOLEAN : SetGrant(u, granted))
          \/ (\E a \in Accounts \cup {None} : ChangeAccount(a)) \/ UNCHANGED vars
          => UNCHANGED <<posting, details>>
    BY DEF SetGrant, ChangeAccount, vars, workflow
  <1> QED BY <1>1, <1>2, <1>3, <1>4, <1>6, <1>7, <1>8, <1>9 DEF Next


-----------------------------------------------------------------------------
\* Every step keeps the invariant.
LEMMA Inductive == IInv /\ [Next]_vars => IInv'
  BY TypeStep, HistoryStep, FileStep DEF IInv, Consistent

\* The invariant holds: submissions, decisions and the attempt on file tell of the bill as it is.
THEOREM Invariance == Spec => [](TypeOK /\ Consistent)
  <1>1. Init => IInv
    BY Initially, BillAssumption, BillNone
  <1>2. IInv /\ [Next]_vars => IInv'
    BY Inductive
  <1> QED BY <1>1, <1>2, PTL DEF Spec, IInv

\* The variables have their types.
THEOREM TypeCorrect == Spec => []TypeOK
  BY Invariance, PTL

\* A submission is decided at most once, on the details that were submitted (approve, reject,
\* withdraw).
THEOREM DecidedOnce == Spec => []OneDecision
  <1>1. Consistent => OneDecision
    BY DEF Consistent
  <1> QED BY <1>1, Invariance, PTL

\* In a consistent state an approved bill has its approval on file, by somebody other than
\* the submitter.
LEMMA ApprovedHere ==
  ASSUME TypeOK, Consistent, approval = "approved"
  PROVE  \E e \in events : ApprovedIn(e)
  <1> USE DEF Consistent, History
  <1>1. PICK e \in events : /\ e.action = "approved" /\ e.version = version
                            /\ e.details = details /\ e.actor # submitter
    OBVIOUS
  <1>2. PICK s \in events : /\ s.action = "submitted" /\ s.actor = submitter
                            /\ s.version = version /\ s.details = details
    BY DEF Actions
  <1>3. s.actor # e.actor
    BY <1>1, <1>2
  <1>4. ApprovedIn(e)
    BY <1>1, <1>2, <1>3 DEF ApprovedIn
  <1> QED BY <1>4

\* No edit, withdrawal or resubmission leaves a bill approved that two persons did not agree
\* on as it is (save_draft, submit, approve).
THEOREM TwoPersons == Spec => []ApprovedByAnother
  <1>1. TypeOK /\ Consistent => ApprovedByAnother
    BY ApprovedHere DEF ApprovedByAnother
  <1> QED BY <1>1, Invariance, PTL

\* A posted bill is booked in LedgerOS as it shows (sync_bill, save_draft).
THEOREM Posted == Spec => []PostedIsBooked
  <1>1. TypeOK /\ Consistent => PostedIsBooked
    BY DEF Consistent, OnFile, PostedIsBooked, Confirmed
  <1> QED BY <1>1, Invariance, PTL

\* LedgerOS gets one request for a bill, whatever is edited between its attempts, unless a
\* worker died during the first (the payload hash of sync_bill).
THEOREM OneRequest == Spec => []SentOnceUnlessLost
  <1>1. TypeOK /\ Consistent => SentOnceUnlessLost
    <2> SUFFICES ASSUME TypeOK, Consistent, ~lost, NEW b \in wire, NEW c \in wire
                 PROVE  b = c
      BY DEF SentOnceUnlessLost
    <2>1. \A d \in wire : d # None
      BY BillNone DEF TypeOK
    <2>2. sending # None /\ record # None => record.body = sending
      BY DEF Consistent, OnFile
    <2> QED BY <2>1, <2>2 DEF Consistent, OnFile
  <1> QED BY <1>1, Invariance, PTL

\* Only what one user submitted and another approved leaves for LedgerOS (approval_blocker,
\* sync_bill).
THEOREM OnlyApproved == Spec => SentAsApproved
  <1>1. TypeOK /\ Consistent /\ [Next]_vars
          => [sending = None /\ sending' # None =>
                \E e \in events : ApprovedIn(e) /\ Covers(e.details, sending')]_vars
    <2> SUFFICES ASSUME TypeOK, Consistent, [Next]_vars, sending = None, sending' # None
                 PROVE  \E e \in events : ApprovedIn(e) /\ Covers(e.details, sending')
      OBVIOUS
    <2>1. Post
      BY PostingMoves DEF PostConfirmed, PostFailed, Crash, Locked
    <2>2. PICK b \in Payload : sending' = b
      BY <2>1 DEF Post
    <2>3. Covers(details, b)
      BY <2>1, PayloadType, BillAssumption, BillNone DEF Post, Consistent
    <2>4. approval = "approved"
      BY <2>1 DEF Post, Postable, Approved
    <2>5. PICK e \in events : ApprovedIn(e)
      BY <2>4, ApprovedHere
    <2>6. Covers(e.details, sending')
      BY <2>2, <2>3, <2>5 DEF ApprovedIn
    <2> QED BY <2>5, <2>6
  <1> QED BY <1>1, Invariance, PTL DEF Spec, SentAsApproved

-----------------------------------------------------------------------------
\* What the bill has settled on, as IdempotentPosting sees it.
Settled == [c \in {Bill} |-> IF record = None THEN None ELSE record.body]

\* The requests of the only component are the bodies on the wire.
LEMMA OnlyComponent ==
  ASSUME NEW W, NEW b
  PROVE  {Bill} \X (W \cup {b}) = ({Bill} \X W) \cup {<<Bill, b>>}
  OBVIOUS

\* A step of the bill is a step of IdempotentPosting, or none.
LEMMA PostingStep ==
  ASSUME IInv, [Next]_vars
  PROVE  [BillPosting!PostingNext]_(BillPosting!postingVars)
  <1> USE BillAssumption, BillNone DEF IInv, Consistent
  <1>1. CASE Post
    <2>1. PICK b \in Payload : sending' = b /\ wire' = wire \cup {b}
      BY <1>1 DEF Post
    <2>2. b \in Bodies
      BY <1>1, PayloadType DEF Post
    <2>3. record = None \/ record.body = b
      BY DEF Payload
    <2>4. UNCHANGED <<record, ledger>>
      BY <1>1 DEF Post
    <2>5. Settled[Bill] \in {None, b}
      BY <2>3 DEF Settled
    <2>6. {Bill} \X wire' = ({Bill} \X wire) \cup {<<Bill, b>>}
      BY <2>1, OnlyComponent
    <2>7. BillPosting!Send(Bill, b)
      BY <2>4, <2>5, <2>6 DEF BillPosting!Send, Settled, Confirmed
    <2> QED BY <2>2, <2>7 DEF BillPosting!PostingNext
  <1>2. CASE Book
    <2>1. PICK b \in wire : ledger' = ledger \cup {b}
      BY <1>2 DEF Book
    <2>2. UNCHANGED <<record, wire>>
      BY <1>2 DEF Book
    <2>3. {Bill} \X ledger' = ({Bill} \X ledger) \cup {<<Bill, b>>}
      BY <2>1, OnlyComponent
    <2>4. <<Bill, b>> \in {Bill} \X wire
      OBVIOUS
    <2>5. BillPosting!Book(<<Bill, b>>)
      BY <2>2, <2>3, <2>4 DEF BillPosting!Book, Confirmed
    <2> QED BY <2>4, <2>5 DEF BillPosting!PostingNext
  <1>3. CASE PostConfirmed \/ PostFailed
    <2>1. PICK outcome \in {"failed", "succeeded"} :
            /\ record' = [status |-> outcome, body |-> sending]
            /\ outcome = "succeeded" => sending \in ledger
            /\ sending # None /\ UNCHANGED <<wire, ledger>>
      BY <1>3 DEF PostConfirmed, PostFailed, Answered, Locked
    <2>2. sending \in Bodies /\ sending \in wire /\ (record = None \/ record.body = sending) /\ ~Confirmed
      BY <2>1 DEF TypeOK, OnFile
    <2>3. record' # None /\ record'.body = sending /\ record'.status = outcome
      <3>1. record' \in Records
        BY <2>1, <2>2 DEF Records
      <3> QED BY <2>1, <3>1
    <2> DEFINE choice == [c \in {Bill} |-> sending]
    <2>4. choice \in [{Bill} -> Bodies] /\ choice[Bill] = sending
      BY <2>2
    <2>5. Settled[Bill] \in {None, sending} /\ <<Bill, sending>> \in {Bill} \X wire
      BY <2>2 DEF Settled
    <2>6. Settled' = choice
      BY <2>3 DEF Settled
    <2>7. Confirmed' => <<Bill, sending>> \in {Bill} \X ledger
      BY <2>1, <2>3 DEF Confirmed
    <2>8. UNCHANGED <<{Bill} \X wire, {Bill} \X ledger>>
      BY <2>1
    <2>9. BillPosting!Settle({Bill})
      <3>1. \A c \in {Bill} : Settled[c] \in {None, choice[c]} /\ <<c, choice[c]>> \in {Bill} \X wire
        BY <2>4, <2>5
      <3>2. Settled' = [c \in {Bill} |-> IF c \in {Bill} THEN choice[c] ELSE Settled[c]]
        BY <2>6
      <3>3. (IF Confirmed' THEN {Bill} ELSE {})
              \subseteq (IF Confirmed THEN {Bill} ELSE {})
                          \cup {c \in {Bill} : <<c, Settled'[c]>> \in {Bill} \X ledger}
        BY <2>4, <2>6, <2>7
      <3>4. (IF Confirmed THEN {Bill} ELSE {}) \ {Bill} \subseteq (IF Confirmed' THEN {Bill} ELSE {})
        BY <2>2
      <3> HIDE DEF choice
      <3> QED BY <2>4, <2>8, <3>1, <3>2, <3>3, <3>4 DEF BillPosting!Settle, Settled
    <2> QED BY <2>9 DEF BillPosting!PostingNext
  <1>4. CASE UNCHANGED <<record, wire, ledger>>
    BY <1>4 DEF BillPosting!postingVars, Confirmed
  <1>5. Post \/ Book \/ PostConfirmed \/ PostFailed \/ UNCHANGED <<record, wire, ledger>>
    BY DEF Next, vars, posting, workflow, Create, Save, Submit, Withdraw, Approve, Reject, Open, Crash,
           SetGrant, ChangeAccount
  <1> QED BY <1>1, <1>2, <1>3, <1>4, <1>5

\* Initially the bill does not exist, or was posted by an earlier release.
LEMMA PostingInitially ==
  ASSUME Init
  PROVE  BillPosting!PostingInit
  <1> USE BillAssumption, BillNone DEF Init
  <1>1. IInv
    BY Initially
  <1>2. Settled \in [{Bill} -> Bodies \cup {None}]
    BY <1>1 DEF IInv, TypeOK, Records, Settled
  <1>3. CASE NewInit
    BY <1>2, <1>3 DEF NewInit, BillPosting!PostingInit, Confirmed, Settled
  <1>4. CASE LegacyInit
    <2>1. PICK b \in Bodies :
            /\ b # None /\ record # None /\ record.body = b
            /\ wire = {b} /\ ledger \subseteq {b}
            /\ Confirmed => ledger = {b}
      BY <1>4, LegacyBill DEF BillAssumption
    <2>2. Settled[Bill] = b
      BY <2>1 DEF Settled
    <2>3. {c \in {Bill} : Settled[c] # None} = {Bill}
      BY <2>1, <2>2
    <2>4. {Bill} \X wire = {<<c, Settled[c]>> : c \in {Bill}} /\ {Bill} \X ledger \subseteq {Bill} \X wire
      BY <2>1, <2>2
    <2>5. (IF Confirmed THEN {Bill} ELSE {})
            \subseteq {c \in {Bill} : <<c, Settled[c]>> \in {Bill} \X ledger}
      BY <2>1, <2>2
    <2> QED BY <1>2, <2>3, <2>4, <2>5 DEF BillPosting!PostingInit, Settled
  <1> QED BY <1>3, <1>4

\* The posting of bills implements what is promised of all postings.
THEOREM Implements == Spec => PostsIdempotently
  <1>1. Init => BillPosting!PostingInit
    BY PostingInitially
  <1>2. TypeOK /\ Consistent /\ [Next]_vars => [BillPosting!PostingNext]_(BillPosting!postingVars)
    BY PostingStep DEF IInv
  <1> QED BY <1>1, <1>2, Invariance, PTL DEF Spec, PostsIdempotently, BillPosting!PostingSpec
=============================================================================
