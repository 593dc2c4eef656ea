----------------------------- MODULE VendorBill -----------------------------
(***************************************************************************)
(* A vendor bill: editors save and submit it, a user with the approval     *)
(* grant who is not its submitter decides on it, and an editor posts the   *)
(* approved bill to LedgerOS.  Every handler locks the bill's row first    *)
(* and reads everything else after that, so a handler is one step; only a  *)
(* posting holds the lock for longer, while it waits for LedgerOS.  Bills  *)
(* share nothing, so the module has one.                                   *)
(***************************************************************************)
EXTENDS Integers

CONSTANTS
  Users, Editors, Admins,   \* who may save, submit and post; who may withdraw for others
  Cores,                    \* values of the financial fields that a request carries, but
  Refs, NoRef,              \* the supplier reference (vendor_invoice_number), blank or not
  Places,                   \* property and unit: approved like the others, in no request
  Accounts,                 \* what a posting reads beside the bill: accounts and names
  Bill,                     \* the bill as a component of IdempotentPosting
  None,
  MaxVersions,              \* bound on submissions
  MaxEdits,                 \* bound on changes of accounts and grants
  MaxCrashes                \* bound on postings whose worker dies

ASSUME BillAssumption ==
  /\ Editors \subseteq Users /\ Admins \subseteq Editors
  /\ NoRef \in Refs
  /\ MaxVersions \in Nat /\ MaxEdits \in Nat /\ MaxCrashes \in Nat

VARIABLES
  approval,     \* approval_status, "none" before the bill exists
  status,       \* the posting status
  details,      \* the financial fields
  version,      \* submission_version
  submitter,    \* submitted_by
  fingerprint,  \* approved_fingerprint: the details that were approved
  record,       \* the committed sync record: its outcome and the body it hashes
  events,       \* the approval history
  grants,       \* the users who may approve
  account,      \* what a posting would read now; None when it is blocked
  opened,       \* the users who have the form for the decision open
  stale,        \* those whose form is older than the last change of the bill
  sending,      \* the body LedgerOS has not answered yet; its sender holds the lock
  wire, ledger, lost,
  edits, crashes

workflow == <<approval, details, version, submitter, fingerprint, events>>
posting  == <<status, record, sending, wire, ledger, lost, crashes>>
pages    == <<opened, stale>>
context  == <<grants, account, pages, edits>>
vars     == <<workflow, posting, context>>
-----------------------------------------------------------------------------
Details == [core : Cores, ref : Refs, place : Places]
Bodies  == [core : Cores, ref : Refs, account : Accounts]
Records == [status : {"failed", "succeeded"}, body : Bodies]
Actions == {"submitted", "withdrawn", "approved", "rejected"}
Events  == [action : Actions, actor : Users, version : Nat, details : Details]

ASSUME BillNone == None \notin Details \cup Bodies \cup Records \cup Accounts \cup Users

\* The row of the bill exists and no posting holds it.
Locked   == sending # None
Lockable == approval # "none" /\ ~Locked

Event(action, u) == [action |-> action, actor |-> u, version |-> version, details |-> details]
-----------------------------------------------------------------------------
\* save_draft of a new bill.
Create(u, d) ==
  /\ u \in Editors /\ approval = "none"
  /\ approval' = "draft"
  /\ details' = d
  /\ UNCHANGED <<version, submitter, fingerprint, events, posting, context>>

\* Decisions that a change leaves standing.
KeptDecision(d) == approval
\* What a save leaves of the approval status: a change undoes a decision.
ApprovalAfter(d) ==
  IF approval \in {"approved", "rejected", "withdrawn"} /\ d # details THEN "draft" ELSE approval

\* A save that takes any change, and one that may also change what is submitted.
AnyChange(d)      == approval # "submitted"
UnderReview(d)    == status = "posted" => d = details
\* A submitted bill is not edited, a posted one not in its financial fields.
Savable(d)        == approval # "submitted" /\ (status = "posted" => d = details)

\* save_draft of the values in a form, however old the page they were typed into.
Save(u, d) ==
  /\ u \in Editors /\ Lockable /\ Savable(d)
  /\ details' = d
  /\ approval' = ApprovalAfter(d)
  /\ fingerprint' = IF approval' # approval THEN None ELSE fingerprint
  /\ stale' = IF d # details THEN opened ELSE stale
  /\ UNCHANGED <<version, submitter, events, posting, grants, account, opened, edits>>

Submit(u) ==
  /\ u \in Editors /\ Lockable /\ version < MaxVersions
  /\ approval \in {"draft", "rejected", "withdrawn", "legacy_unrecorded"}
  /\ approval' = "submitted"
  /\ submitter' = u
  /\ version' = version + 1
  /\ fingerprint' = None
  /\ events' = events \cup {[Event("submitted", u) EXCEPT !.version = version + 1]}
  /\ UNCHANGED <<details, posting, context>>

Withdraw(u) ==
  /\ u \in Editors /\ Lockable
  /\ approval = "submitted" /\ (submitter = u \/ u \in Admins)
  /\ approval' = "withdrawn"
  /\ events' = events \cup {Event("withdrawn", u)}
  /\ UNCHANGED <<details, version, submitter, fingerprint, posting, context>>

\* A decision on a bill that may be decided already.
SecondDecision(u) == u \in grants /\ approval \in {"submitted", "approved"} /\ submitter # u
\* An approver other than the submitter decides on a submitted bill.
MayDecide(u)      == u \in grants /\ approval = "submitted" /\ submitter # u

\* The form may be older than the submission it is used on.
Approve(u) ==
  /\ u \in opened /\ Lockable /\ MayDecide(u)
  /\ approval' = "approved"
  /\ fingerprint' = details
  /\ events' = events \cup {Event("approved", u)}
  /\ UNCHANGED <<details, version, submitter, posting, context>>

Reject(u) ==
  /\ u \in opened /\ Lockable /\ MayDecide(u)
  /\ approval' = "rejected"
  /\ fingerprint' = None
  /\ events' = events \cup {Event("rejected", u)}
  /\ UNCHANGED <<details, version, submitter, posting, context>>

\* A user who may decide opens the page of the bill, with the form for the decision.
Open(u) ==
  /\ MayDecide(u)
  /\ opened' = opened \cup {u}
  /\ stale' = stale \ {u}
  /\ UNCHANGED <<workflow, posting, grants, account, edits>>
-----------------------------------------------------------------------------
\* sync_bill.

\* approval_blocker finds nothing.
Approved == approval = "approved" /\ fingerprint = details

\* The request built now, and the form it had before supplier references.
Current   == [core |-> details.core, ref |-> details.ref, account |-> account]
Legacy(b) == [b EXCEPT !.ref = NoRef]

\* A payload that is not compared with the earlier attempt.
Fresh == {Current}
\* What may be sent: after an attempt only its request again; {} is a refusal.
Payload == IF record = None THEN {Current} ELSE {Current, Legacy(Current)} \cap {record.body}

\* A posting that needs no account.
Unblocked == Lockable /\ Approved
\* The vendor is synced, the accounts are mapped, and the bill is approved.
Postable == Lockable /\ Approved /\ account # None

Confirmed == record # None /\ record.status = "succeeded"

Post ==
  /\ Postable /\ ~Confirmed
  /\ \E b \in Payload :
       /\ sending' = b
       /\ wire' = wire \cup {b}
  /\ UNCHANGED <<workflow, context, status, record, ledger, lost, crashes>>

\* LedgerOS books a request it has received, even one its sender gave up on.
Book ==
  /\ \E b \in wire : ledger' = ledger \cup {b}
  /\ UNCHANGED <<workflow, context, status, record, sending, wire, lost, crashes>>

Answered(outcome, posted) ==
  /\ record' = [status |-> outcome, body |-> sending]
  /\ status' = posted
  /\ sending' = None
  /\ UNCHANGED <<workflow, context, wire, ledger, lost, crashes>>

\* The posting taken as confirmed whatever the answer.
AnyAnswer == Locked /\ Answered("succeeded", "posted")
\* LedgerOS answers 200 or 201 for a bill it has booked.
PostConfirmed == Locked /\ sending \in ledger /\ Answered("succeeded", "posted")

\* An error response or a timeout.
PostFailed == Locked /\ Answered("failed", "ready_to_sync")

\* The worker dies and its transaction is rolled back, the record of a first attempt with it.
Crash ==
  /\ Locked /\ crashes < MaxCrashes
  /\ crashes' = crashes + 1
  /\ sending' = None
  /\ lost' = (lost \/ record = None)
  /\ UNCHANGED <<workflow, context, status, record, wire, ledger>>
-----------------------------------------------------------------------------
\* set_grants, by an administrator.
SetGrant(u, granted) ==
  /\ edits < MaxEdits /\ edits' = edits + 1
  /\ grants' = IF granted THEN grants \cup {u} ELSE grants \ {u}
  /\ UNCHANGED <<workflow, posting, account, pages>>

\* Account mappings, names of categories and the vendor's sync record change.
ChangeAccount(a) ==
  /\ edits < MaxEdits /\ edits' = edits + 1
  /\ account' = a
  /\ UNCHANGED <<workflow, posting, grants, pages>>

\* No bill yet.
NewInit ==
  /\ approval = "none" /\ status = "draft"
  /\ details = None
  /\ record = None
  /\ wire = {} /\ ledger = {}

\* A bill whose posting was attempted before approvals were recorded: the migration tells
\* the posted ones from the others (mark_legacy_posted_bills), which may be booked as well.
LegacyInit ==
  /\ details \in {d \in Details : d.ref = NoRef}
  /\ \E a \in Accounts, outcome \in {"failed", "succeeded"} :
       LET b == [core |-> details.core, ref |-> NoRef, account |-> a] IN
       /\ record = [status |-> outcome, body |-> b]
       /\ wire = {b} /\ ledger \in IF outcome = "succeeded" THEN {{b}} ELSE {{}, {b}}
       /\ approval = IF outcome = "succeeded" THEN "legacy_unrecorded" ELSE "draft"
       /\ status = IF outcome = "succeeded" THEN "posted" ELSE "ready_to_sync"

Init ==
  /\ NewInit \/ LegacyInit
  /\ version = 0 /\ submitter = None /\ fingerprint = None /\ events = {}
  /\ grants \in SUBSET Users /\ account \in Accounts
  /\ opened = {} /\ stale = {}
  /\ sending = None /\ lost = FALSE
  /\ edits = 0 /\ crashes = 0

Next ==
  \/ \E u \in Users, d \in Details : Create(u, d) \/ Save(u, d)
  \/ \E u \in Users : Submit(u) \/ Withdraw(u) \/ Approve(u) \/ Reject(u) \/ Open(u)
  \/ Post \/ PostConfirmed \/ PostFailed \/ Crash \/ Book
  \/ \E u \in Users, granted \in BOOLEAN : SetGrant(u, granted)
  \/ \E a \in Accounts \cup {None} : ChangeAccount(a)

Spec == Init /\ [][Next]_vars
-----------------------------------------------------------------------------
\* The types of the variables.
TypeOK ==
  /\ approval \in {"none", "draft", "legacy_unrecorded"} \cup Actions
  /\ status \in {"draft", "ready_to_sync", "posted"}
  /\ details \in Details \cup {None}
  /\ version \in Nat
  /\ submitter \in Users \cup {None}
  /\ fingerprint \in Details \cup {None}
  /\ record \in Records \cup {None}
  /\ events \subseteq Events
  /\ grants \subseteq Users
  /\ account \in Accounts \cup {None}
  /\ stale \subseteq opened /\ opened \subseteq Users
  /\ sending \in Bodies \cup {None}
  /\ wire \subseteq Bodies /\ ledger \subseteq wire
  /\ lost \in BOOLEAN
  /\ edits \in Nat /\ crashes \in Nat

\* e is the approval of the bill's current details, submitted in the current version
\* by somebody other than the approver.
ApprovedIn(e) ==
  /\ e \in events /\ e.action = "approved" /\ e.version = version /\ e.details = details
  /\ \E s \in events :
       /\ s.action = "submitted" /\ s.version = version /\ s.details = details
       /\ s.actor # e.actor

\* A bill counts as approved only while its present details are those that one user
\* submitted and another approved, through any edits, withdrawals and resubmissions.
ApprovedByAnother == approval = "approved" => \E e \in events : ApprovedIn(e)

\* Every submission is decided at most once, and nothing but its own details.
OneDecision ==
  \A e \in events, f \in events :
    e.version = f.version =>
      e.details = f.details /\ (e.action # "submitted" /\ f.action # "submitted" => e = f)

\* b posts the details d, if not their supplier reference.
Covers(d, b) == d # None /\ b.core = d.core /\ b.ref \in {d.ref, NoRef}

\* A bill that shows as posted is booked in LedgerOS with the details it shows.
PostedIsBooked ==
  status = "posted" => /\ Confirmed /\ record.body \in ledger
                       /\ Covers(details, record.body)

\* Whatever leaves for LedgerOS, at the first attempt or a retry, was approved as it is
\* by a user other than its submitter.
SentAsApproved ==
  [][sending = None /\ sending' # None =>
       \E e \in events : ApprovedIn(e) /\ Covers(e.details, sending')]_vars

\* Unless a worker died during the first attempt, LedgerOS only ever gets one request.
SentOnceUnlessLost == lost \/ \A b \in wire, c \in wire : b = c

\* What the documentation says of bills, and the code does not keep.

\* workflow-implementation-plan.md:62: submitted versions cannot change underneath an
\* approver; so nobody approves with a form older than the last change.
ReviewedIsApproved ==
  [][\A e \in events' \ events : e.action = "approved" => e.actor \notin stale]_vars
-----------------------------------------------------------------------------
\* Why the safety properties hold.

\* Submissions are numbered; the events of the present one tell of the bill as it is.
History ==
  /\ approval = "none" => details = None /\ record = None /\ status = "draft" /\ sending = None
  /\ approval # "none" => details # None
  /\ \A e \in events : e.version <= version
  /\ approval \in Actions =>
       /\ \A e \in events : e.version = version => e.details = details
       /\ \E s \in events : /\ s.action = "submitted" /\ s.actor = submitter
                           /\ s.version = version /\ s.details = details
  /\ approval = "submitted" => \A e \in events : e.version = version => e.action = "submitted"
  /\ approval = "approved" => \E e \in events : /\ e.action = "approved" /\ e.version = version
                                               /\ e.details = details /\ e.actor # submitter

\* What is on file and what is unanswered was sent, is one request, and posts the bill.
OnFile ==
  /\ record # None => record.body \in wire
  /\ Confirmed => record.body \in ledger
  /\ status = "posted" => Confirmed /\ Covers(details, record.body)
  /\ sending # None =>
       /\ sending \in wire /\ Covers(details, sending) /\ ~Confirmed
       /\ record = None \/ record.body = sending
  /\ \A b \in wire : lost \/ sending = b \/ (record # None /\ record.body = b)

\* The bill's inductive invariant.
Consistent == History /\ OneDecision /\ OnFile
-----------------------------------------------------------------------------
\* The bill's posting is idempotent too, see IdempotentPosting.
BillPosting == INSTANCE IdempotentPosting WITH
  Component <- {Bill},
  sent <- {Bill} \X wire, booked <- {Bill} \X ledger,
  settled <- [c \in {Bill} |-> IF record = None THEN None ELSE record.body],
  confirmed <- IF Confirmed THEN {Bill} ELSE {}
PostsIdempotently == BillPosting!PostingSpec
=============================================================================
