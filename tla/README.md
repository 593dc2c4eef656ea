# PropertyLedger in TLA+

PropertyLedger is a Django application for small landlords.  It keeps leases,
invoices, receipts, vendor bills and maintenance requests in PostgreSQL and
posts everything that moves money to LedgerOS, the accounting system of record,
over HTTP.  This directory holds TLA+ modules for the parts of it in which
concurrent requests, unanswered calls and half-done work can go wrong, the TLC
configurations that check them on small instances, and proofs checked by TLAPS.

## How the system runs

* The web server handles requests in parallel threads or processes.  There is no
  worker queue: a request that posts to LedgerOS waits for the answer, at most
  `LEDGEROS_TIMEOUT_SECONDS` (5 s, `propertyledger/settings.py`).
* PostgreSQL runs at READ COMMITTED and `ATOMIC_REQUESTS` is off: every ORM call
  outside `transaction.atomic` commits by itself, so a request is a sequence of
  transactions with other requests in between.
* A `SELECT ... FOR UPDATE` that had to wait returns the *locked* row as it is
  now, and the rows *joined* to it (`select_related`) as they were when the
  statement began.
* LedgerOS posts a request once per idempotency key.  The key is a SHA-256 of
  the local object, the event and the request body
  (`ledgeros/idempotency.py:15-31`): a changed body is a new key, and is posted
  again.  A call that times out may still be posted.

## Inventory

| component | state | operations | what is hard | what makes it correct |
|---|---|---|---|---|
| **Tenant receipts** `payments/services.py:649-1323` | `TenantPayment` (status, date, amount, summary record), one `TenantPaymentApplication` per invoice and at most one `TenantPaymentDepositAllocation`, each with a frozen request and a sync record | create, edit, set the deposit, allocate and post, finalize, record for an invoice, void | locks held across HTTP calls, timeouts, rollback of requests already sent, stale joined rows and forms | no component posted under two keys; confirmed means posted; frozen amounts are final; finalized means complete |
| **Tenant charges** `ledgeros/services.py:583-775` | `TenantCharge` status and sync record | generate base rent (prorated), save, approve and post, archive, bulk approval | no lock before the call; approval un-voids; the key of the first attempt is kept while the body may change; base rent may be typed or edited, and is then not generated | one key per invoice; generated rent covers every day once |
| **Security deposit events** `payments/services.py:1203-1348` | `SecurityDepositEvent` with a frozen request, balance as a sum | record required / received / deducted / refunded, post | the page's row decides, the lock is taken later | one request per event, whatever is edited after it |
| **Vendor bills, approval** `payments/approval_services.py`, `services.py:1351-1514` | approval status, submission version, submitter, approved fingerprint, sync record | save draft, submit, withdraw, approve, reject, post | an edit between approval and posting; a retry after an edit | nothing is posted that was not approved as posted, by someone other than its submitter |
| **Vendor payments** `services.py:1517-1904` | `VendorPayment`, settlement rows, bill balance | pay, card charge, retry, reconcile | the payment identity is committed before the call, the attempt is not; the balance lives in LedgerOS, is read by one call and used in a later one, and does not know the journals of an earlier release; forms of any age | a bill is never paid beyond its amount, a payment sends one request, a journal is linked and never replaced |
| **Vendor sync** `services.py:573-646` | the vendor's sync record | save and post in one transaction | compared with the last request by its hash; an edit may find no valid mapping | a confirmed vendor is in LedgerOS as it is here |
| **Debt service** `services.py:1907-2051` | row and sync record | save and post, post again | no comparison with the earlier request | one posting per payment |
| **Owner activity** `reports/services.py:146-306` | row and sync record | save, post, archive | a confirmed record stays open to changes of its text and status | one posting per confirmed record |
| **Maintenance** `payments/maintenance_services.py` | request status, version, events; bill handoff identity | create, update, transition, hand off to a bill, link, unlink | optimistic versions; resubmitted forms; a bill is checked against its request, which is not locked, and saved later | the events tell every version; no update lost; one bill per submission; a bill that is placed, linked or submitted matches its request as it was looked at or since |
| **Reports** `reports/services.py:308-1126` | none: sums over the rows of the others | owner statement, tenant ledger, delinquency, income and expense, deposits, fees, maintenance, rent roll | periods and their bounds; seven selections of the same rows | no row is lost between two periods or counted twice; reports agree |
| **Setup, mappings, readiness** `ledgeros/services.py:53-272` | setup status, account mappings, connection health | save, test, complete, bootstrap | a mapping may become invalid after completion; readiness is checked before, not while posting | no posting with incomplete setup |
| **Roles, audit, banking, home, commands** | users' groups, log rows | tests on the caller, appends, reads | - | - |

They interact through rows only.  An application can be posted only when its
invoice's sync record has succeeded, a deposit only when two account mappings
are valid; a bill needs its vendor, a vendor payment its bill, and a handoff
creates the bill of a maintenance request.  Reports read all of them.  There are
no callbacks; the one
message channel is HTTP to LedgerOS.

## Modules

### `IdempotentPosting`: the promise

The abstract specification knows four variables: the requests `sent`, those
LedgerOS `booked`, the body each component has `settled` on, and the components
that are `confirmed`.  A component that has settled sends only that body again;
LedgerOS books what was sent, at any time; one local transaction settles any
number of components on bodies that were sent, never changes one that has
settled, and confirms only what is booked.  Components may come from an earlier
release with an attempt.  `TenantReceipt`, `VendorBill` and `VendorSettlement`
implement it.

### `TenantReceipt`: receipts

| variable | code |
|---|---|
| `receipt[r]`, `summary[r]` | the committed `TenantPayment` row; `linked` says it points to its summary record, `summary` is that record's status |
| `share[<<r,p>>]` | `amount_applied` of the application to invoice `p`, or the deposit's `amount` for `p = Deposit`; 0 is no row |
| `frozen`, `record` | `frozen_request_payload` and the component's sync record: its outcome and the body its key is a hash of |
| `ready`, `archived` | the invoice's sync record has succeeded (for `Deposit`: the mappings are valid); the invoice is void |
| `wire`, `ledger` | requests that left for LedgerOS; those posted there |
| `pc`, `on`, `pref`, `plan`, `todo`, `sync`, `sending`, `held`, `locks`, `form` | a web request's position and its local and uncommitted data |
| `lost` | history: components whose only attempt a rollback erased |

A body is the date, the amount and, for a deposit, the receipt's total: the
payload fields a user can change on an unattempted receipt and that two
requests can therefore disagree on.  Other payload fields behave as the date
does, so `Dates` stands for them.

Each action is one transaction, or the piece of one between two points at which
another request may run:

* `CreateReceipt`, `RecordPayment`: the row is committed, what follows is not.
* `FormLoad` reads the row and fixes what `FormSave` will write: the *whole*
  row.  `SetDeposit` is the transaction after it, with its own check.
* `AllocateBegin`, `PlanCharge`, `PlanCommit`: the first transaction of
  `allocate_payment`, under the receipt's lock, one invoice at a time, because
  the open amount of an invoice is read without locking it.
* `SyncStart` reads the component's row and what is joined to it, before the
  lock; `SyncRefused`, `SyncSkip` and `SyncSend` need the lock and act on the
  joined rows as read.  An allocation commits each outcome (`Settle`), a
  finalization keeps it in its open transaction (`held`) until `FinalizeCommit`.
* `LedgerBooks` posts any request on the wire, also one its sender gave up on;
  `SettlePosted` is an answer that shows the posting, `SettleFailed` a refusal
  or a timeout, possible at any time.
* `AllocateConclude`, `FinalizeBegin`, `FinalizeCommit`: the remaining
  transactions.  `Crash` ends a request anywhere and rolls its transaction back.
* `VoidReceipt`, `ApproveCharge`, `ArchiveCharge`, `ChangeMapping`: what other
  handlers do to rows that receipts read.

What is abstracted: amounts are positive integers; invoices are not edited
(`ChargeAmount` is constant); applications are synced in any order, where the
code goes by id, with the deposit last in a finalization as in the code; the
query that lists the applications to post belongs to `PlanCommit`; a deposit row
deleted and created again is the same component; a request the readiness gate
refuses does nothing and is not shown; a mapping changes between valid and
invalid.  The sync statuses pending and in progress exist only inside a
transaction and are never committed.  Leases, tenants, methods, notes and
messages are left out: no guard that matters here reads them.

### `VendorBill`: approval and posting of bills

| variable | code |
|---|---|
| `approval`, `status`, `details`, `version`, `submitter`, `fingerprint` | the `VendorBill` row: `approval_status`, `status`, the `FINANCIAL_FIELDS`, `submission_version`, `submitted_by`, `approved_fingerprint` (the details it is a hash of) |
| `events` | the `VendorBillApprovalEvent` rows |
| `record` | the sync record: its outcome and the body its `request_hash` is a hash of; `None` until an attempt is committed |
| `grants`, `account` | who may approve; what the request reads beside the bill (account codes, the vendor's code, the category's name), `None` while a posting is blocked |
| `opened`, `stale` | who has the page with the decision form open, and whose is older than the last change |
| `sending` | the unanswered request of the open posting transaction, which holds the row's lock |
| `wire`, `ledger`, `lost` | as in `TenantReceipt` |

Every handler of `approval_services.py` and `sync_bill` locks the bill's row and
only then reads what it decides on, so each is one action: `Create`, `Save`,
`Submit`, `Withdraw`, `Approve`, `Reject`.  A posting holds the lock until
LedgerOS answers: `Post` begins it, `PostConfirmed`, `PostFailed` or `Crash` end
it, and every action on the row waits meanwhile (`Lockable`).  `Save` writes any
values whatever, because a form may be of any age; a form that saves and submits
runs two transactions, which are two actions here.  `Payload` is the hash guard:
no request on file, the same request, or the same without its supplier
reference, else a refusal (no step).  `Init` is a bill that does not exist, or
one attempted or posted by a release without approvals, as migration 0006 leaves
it.

What is abstracted: details are a record of what requests carry (`core`), the
supplier reference, which alone may be missing from a replayed request, and
`place` (property and unit), which is approved but in no request.  Changes of
fields outside `FINANCIAL_FIELDS` do nothing that is modelled.  The caller's
role and grant are tested when a handler begins and merged with its locked step:
only a posting makes anybody wait long, and a bill being posted cannot be
decided.  A 200 or 201 answer is taken to mean that LedgerOS booked the request.
Voided bills do not occur, as no code sets that status.  Bills share nothing, so
there is one.

### `VendorSettlement`: payments of a bill

| variable | code |
|---|---|
| `row[p]` | the committed `VendorPayment`: `amount`, `method`, `status`, and the sync record it points to (`None`; the one of its way to pay; `Legacy`, the `sync_event` record of an earlier release) |
| `journal[p]` | whether the earlier release left a `vendor_payment.credit_card` record, and whether its journal id is readable |
| `record[<<p, m>>]` | the sync record of the payment for the way to pay `m`: its outcome and the body its `request_hash` is a hash of |
| `forms[p]` | the rows update forms will write, and whether the sync record was a confirmed payment when the form read it |
| `paying` | the transaction of `pay_bill`, which holds the bill's lock, between the balance it was given and the row it saves |
| `checking[p]` | a transaction of `sync_payment` that holds the row's lock and has sent no payment yet: the row it read, how far it has come, and what LedgerOS had booked when it was asked for the balance (`seen`) |
| `sending[p]` | the same transaction after that: the row it will commit, and the request LedgerOS has not answered |
| `approved` | the bill's approval stands; `mapped`, `account`: which ways to pay have valid account mappings, and the account a card's request names |
| `wire`, `ledger`, `lost` | as in `TenantReceipt` |

`AskToPay`, `Pay` and `DropPay` are the first transaction of `pay_bill`, under the
bill's lock: it asks LedgerOS for the balance, later saves the row, or is refused.
The `sync_payment` that follows it, the retry button and
`reconcile_bill_card_payments` are `Sync`: they lock the row and go on to post it.
`LoadForm` is the update view's read, `SaveForm` and `SaveAndSync` are
`save_and_sync_payment` where it has nothing to send and where it goes on to
`sync_payment`, in one transaction.

`sync_payment` makes two calls, and the model keeps them apart, as a payment of
another row, under a lock of its own, may be booked between them.  `Begin` locks
the row, makes the early return and looks at the blockers and, unless the row
shows an attempt (`Asked`), at the approval and the balance LedgerOS gives (the
GET, `payments/services.py:1808`); `Review` looks for journals that are not
linked; `Send` has the unclear journal and the hash guard (`Sendable`), and the
request leaves (the POST, `1856`); `Drop` is a refusal or the end of the process
anywhere before that.  `SyncConfirmed`, `SyncFailed` and `Crash` end it.
`Book` is LedgerOS, as the code relies on it: it refuses a payment beyond the
bill's balance and attaches a journal once (`docs/technical-manual.md:262-270`); the
race for the balance is its to decide (`313-314`).
`Init` has rows of earlier releases, with or without a journal.

What is abstracted: one bill, posted; its approval may still be missing, as after
the migration.  The amount stands for all details of a payment.  The form sent
again under its submission finds the row, which is `Sync`.  Refusals are no
step: a payer without grant, LedgerOS not ready or its balance unavailable,
other details under a used submission.  No code sets a payment's status to
voided.  Card payoffs, which have an endpoint and no bill balance of their own,
and the form's move of an unattempted payment to another bill, are left out.

### `DirectPosting`: records posted by the request that saves them

One record of any of five `kind`s (a debt service payment, owner activity, an
invoice, a deposit event, a vendor), whose handlers share one outline: read the
row, perhaps wait for its lock, write what was read or typed, call LedgerOS and
commit the row with its sync record.  They differ in the guard that keeps a
record from being posted twice, and the module states them side by side.

| variable | code |
|---|---|
| `row` | the committed row: the fields of the transaction (`core`), the text (`note`), the status, whether it points to its sync record, a deposit's `frozen_request_payload` |
| `record` | the committed sync record: outcome and the body its key is a hash of |
| `worker[w]` | a request: the row and sync record it read, or the ones it will commit |
| `sent`, `booked` | requests with their keys; the keys LedgerOS has booked |
| `account` | what the account mappings name, `None` when one is not valid |
| `lost`, `stale`, `skipped` | history: a worker died in a call; a row was written by a request that had read it before its last change; a vendor was saved without a valid mapping |

`SaveActivity`, `SaveInvoice` and `SaveDeposit` are forms with a transaction of
their own (`SaveForm`); `SaveDebt` and `SaveVendor` are forms whose transaction
is also the posting's (`save_and_sync_payment`, `save_and_sync_vendor`).
`PressDebt`, `SyncOwner`, `ApproveSaved`, `ApproveSelected` and `PressDeposit`
post what is saved.  `Typed` is what each form leaves open, `Editable` when;
`Done`, `Goes`, `ChargeKey` and `DepositBody` are the guards.  A posting holds the
row's lock from `Begin` to `Answer` or `Die`.

What is abstracted: the invoice statuses approved and sync_pending are one, as
the code treats them alike; the readiness gate is `Refuse`; the request of one
kind has no part that another kind's form could change, so one record stands for
all.  Left out: a record that changes its kind of transaction (owner
contribution to distribution, receipt to refund), which would have a second sync
record; deposit events that are required or deducted, which are never posted;
bulk archiving of invoices, which is `Archive` for each.

None of the five kinds implements `IdempotentPosting`: an invoice without a mapped
account settles on a key before it sends anything, a form saved over an attempt it
had not seen lets a deposit send another body, and debt payments, owner activity
and vendors build their key again.  What each promises instead is `InvoiceOneKey`,
`DepositSentOnce`, `ConfirmedNotResent` and `VendorCurrent`.

### `MaintenanceRequest`: requests and the bills handed off

| variable | code |
|---|---|
| `rows[r]` | all the versions the `MaintenanceRequest` row ever had, the present one last: pages show any of them |
| `events[r]` | the `MaintenanceRequestEvent` rows |
| `bill[b]` | what of a `VendorBill` concerns requests: property and unit, linked request, submission identity, whether it awaits a decision |
| `saving[b]` | the transaction that holds the bill's lock and has checked the row it is about to save, and how many versions the request had then |
| `token[s]`, `answer[s]` | the form a bill was created by, and what the last press of the form was told: the bill, a refusal by `create_bill`, or that it was turned away |
| `pending` | bills created by a press that asked to submit them too, and not yet submitted |

Every writer of a request locks its row and compares versions
(`_require_version`, here `Fresh`), so each is one action: `Create`, `Update`,
`Advance` (triage, start, verify, cancel), `Assign`, `Close`, `Reopen`, `Hold`,
`Resume`, `LinkBill`, `UnlinkBill`, `Handoff`.  `Record` saves the row with the
next version and appends one event.  `Repeat` is a bill form pressed
again that comes to `create_bill`; `TurnAway` is one that does not, because the
signed form is older than a day (`maintenance_views.py:217-220`) or a vendor,
property or category in it is no longer offered.  `FinishSubmit` is the second
transaction of a press that also submits, which may be refused or lost with its
worker.  `CreateBill`, `SaveBill`, `SubmitBill` and `DecideBill` are the bill's own
pages, which do not lock the request: `SaveBill`, `SubmitBill` and `FinishSubmit`
lock the bill and check it against the request as it is (`Check`,
`approval_services.py:167`, `183`), and the save is a later step (`Write`, `168`,
`192`), or never comes (`Drop`); the request may be edited in between.  Every other
step on the bill waits for its lock (`Unlocked`).

What is abstracted: of the fields of a request those that bills (`place`), events
(`vendor`, `outcome`, `reopened`) or later steps (`hold`) look at; a form retypes
one field; the texts that a transition requires are given.  Approval is the part
of `VendorBill` that decides whether a bill may be edited.  A bill that is
attempted or posted is closed to edits like a submitted one.

### `Reports`: the sums

`book` holds rows of any kind, entered, edited, confirmed (a receipt in parts) and
voided one after another, with the dates and amounts that reports select and add;
`leases` holds the leases of a unit as they stand.  `MonthBounds`, `PeriodBounds`
and `Prorated` are the calendar and the proration as functions of dates.

Base rent comes into the book in two ways.  `Typing` has the invoices that
`TenantChargeForm` may save, base rent among them, of any lease, amount and period,
but for the constraint on lease and period (`Billed`); `Enter` saves a new one and
`EditCharge` an old one that LedgerOS has not confirmed, or a voided one.
`GenerateRent` is `generate_base_rent_for_month`, of which only tests make use so
far: of the active leases (`Active`, `Due`), each that has no charge for the month
(`get_or_create`).  A charge remembers the lease it was generated from as it stood
(`made`), or that it was typed.  `SaveLease` is the lease form, which may change
dates, rent and status at any time.

`Statement`, `TenantLedger`, `Delinquency`,
`IncomeExpense`, `DepositLedger`, `ManagementFees`, `BillsByCategory` and
`RentRoll` are the reports, each translated with its own selection of rows and
none defined by another, so that a property can compare two of them.

What is abstracted: one property, owner, unit and tenant (every report filters
by them first); amounts in cents; a receipt has one application and the deposit
that is left; entries of a ledger are their sums; the pending items of a
statement and its CSV are left out, as are the reports read from
LedgerOS; a row of another kind that is edited before it is posted is one entered
so.  Amounts of receipts and of owner activity are not negative, as
`set_deposit_allocation` and `OwnerContributionDistribution.clean` see to; those
of invoices, bills and deposit events may be, and a lease may end before it
starts, because no form rejects it.

### The others

`MC...` modules have the constants of TLC's instances, `...Proofs` modules the
theorems.  `SumTheorems` has the laws of `SumFunctionOnSet`, the sum over a finite
set that the models add amounts with.

## What TLC checks

| run | instance | shows |
|---|---|---|
| `receipt_safety` | 1 receipt, 1 invoice and a deposit, 2 requests, 2 dates, amounts to 2, 1 edit | `ConfirmedIsBooked`, `SentOnceUnlessLost`, `FrozenMatchesShare`, the inductive invariant `Consistent`, and that receipts implement `IdempotentPosting` (`PostsIdempotently`) |
| `receipt_allocation` | 1 receipt, 2 invoices (1 and 2) and a deposit, 2 requests, amounts to 2, 1 dying request | `AllocationWithinReceipt`, `FinalizedIsComplete` |
| `receipt_liveness` | 1 receipt, 1 invoice and a deposit, 2 requests, 1 dying request | `RequestsFinish` |
| `receipt_rollback` | as `receipt_safety`, 1 request, 2 edits | violates `ChangedRetryRejected` |
| `bill_workflow` | 2 users (both editors, one an administrator, any grants), 2 supplier references, 2 places, 2 accounts, 2 submissions, 1 change of grants or accounts, 1 dying worker | `ApprovedByAnother`, `OneDecision`, `SentAsApproved`, `PostedIsBooked`, `SentOnceUnlessLost`, the inductive invariant `Consistent`, and that bills implement `IdempotentPosting` |
| `bill_review` | the same, with 2 values of the other fields | violates `ReviewedIsApproved` |
| `settlement` | 2 payments of a bill of 2, amounts to 2, 2 accounts, 2 upsets (form loads, mapping changes, dying requests) | `PostedIsBooked`, `BillNotPaidTwice`, `JournalNotReplaced`, `SentOnceUnlessLost`, `NewRequestChecked`, the inductive invariant `Consistent`, and that payments implement `IdempotentPosting` |
| `postings` | a record of each kind, 2 values of each part of a request, 4 requests, 2 at a time, 1 change of the mappings, 1 dying worker | `InvoiceOneKey`, `DepositSentOnce`, `ConfirmedNotResent`, `VendorCurrent`, `StatusTellsRecord` |
| `posting_second_key` | the same | violates `DebtBookedOnce` |
| `maintenance` | 1 request with up to 7 versions and 1 with 2, 1 bill, 1 bill form, a property with a unit, 1 vendor, 2 detours (edits, holds, reopenings, link changes, edits and submissions of the bill, presses turned away) | `HistoryReplays`, `NoLostUpdate`, `LinksMatchHistory`, `RepeatReusesBill`, `BillChangesMatch` |
| `reports` | 2 rows of any kind, a payment of 2 or a credit of 1, on the first day of a year and the last of a leap February; a unit let to two tenants in turn, one of whose leases may be cancelled and be active again | `PeriodsAddUp`, `ReportsAgree`, `RentAddsUp` |
| `statement_double` | the same | violates `StatementCountsBillsOnce` |

*Bounds.*  Locks, attempts and frozen payloads belong to one component, and the
code never looks at another receipt except to sum an invoice's applications, so
one receipt with two requests shows every pairwise race on a component; the
receipts' independence beyond that is what the proofs add.  Two dates are two
different bodies.  Amounts to 2 let a receipt be split over two parts and be
changed.  One edit after a load, and one administrative change before or during
a posting, are what each race needs.  `MaxEdits`, `MaxCrashes` and
`MaxAmount`, for bills `MaxVersions` and for payments `MaxUpsets`, are the bounds
of these runs, all in guards or types.  Two users are the submitter and the
approver, in either role; the second submission is the one that an old page, an old approval or an old attempt can be
mistaken for.  In `bill_workflow` a request changes through its supplier
reference and account, which reaches every outcome of the hash guard.
Two payments are what competes for a bill's balance, and a bill of 2 is paid in
full by either or by both; one is booked while the other is between its two calls.
A form loaded before an attempt is what it takes to write a row that is older than
its record, a change of the mappings gives a retry another account, and a request
that dies loses the attempt: `MaxUpsets` lets any two of them meet.

A record posted directly shares nothing with another, so `postings` has one; four
requests are a first attempt, an edit, a retry and one that read the row before
them.  The guards of the five kinds compare bodies for equality only, so two
values of each part are enough, and one change of the mappings gives a retry
another account, none, or one it lacked.  A maintenance request of 7 versions
goes through its plain course, and with two detours it is held, edited, reopened
or linked at any point of it; the second request is the other one that a bill may
be linked to.  `MaxVersion` and `MaxDetours` are bounds in guards.  Every law of
`Reports` is a sum over rows, and a row enters or leaves a sum by itself, so the
smallest counterexample to one has one row, or two when one is applied to the
other (a receipt to its invoice) or two leases share a month; the dates are
at a boundary of a year and in a leap day, rows of generated rent have others, and
that no other date behaves differently is what the proofs add.  The lease form's two
statuses are one that is charged and one that is on no rent roll.

Deadlock checking is
off because a system whose users ask for nothing has stopped rightfully; that
requests do not block each other for ever is `RequestsFinish`.

*Fairness.*  `FairSpec` asks strong fairness of each request's own steps: a
thread keeps running until it answers, calls end after the timeout
(`SettleFailed`), and PostgreSQL hands a row lock to its waiters in order, so a
request that could proceed again and again does.  Users, administrators,
LedgerOS and crashes are not fair.

### What the code does not keep

Four sentences of the documentation are refuted by short runs (PROJECT.json,
`findings`):

1. `receipt_rollback`: `sync_payment` is one transaction around all posts.  If the
   deposit is refused after an application was sent, the rollback erases the
   attempt, the receipt can be edited, and the next finalization sends the
   application with another body and key.  `allocate_payment` carries a comment
   explaining why it must not do this.  `lost` marks these components, and
   `SentOnceUnlessLost` shows that this, with a worker that dies while posting, is
   the *only* way to two requests.
2. `bill_review`: a decision form names no submission version: an approver whose
   page was open while the bill was withdrawn, changed and submitted again approves
   details that were never shown.  `ApprovedByAnother` and `OneDecision` hold all
   the same: what is approved was submitted by another person, but was not seen.
3. `posting_second_key`: a debt payment is posted again without a comparison with
   the request sent before, so one that LedgerOS booked without answering in time
   is booked again after its memo is edited or the mapping changed.  Invoices
   (`InvoiceOneKey`) and deposits (`DepositSentOnce`) have a guard against it.
4. `statement_double`: a bill with a maintenance category is counted as a
   maintenance expense and as one of its own expense category; the statement
   subtracts both, where the report of income and expenses has it once.

The models show more that no run is about, because no sentence says otherwise or
because a property beside it says what is kept:

* A receipt's form loaded before the first attempt overwrites an attempted or
  posted receipt (`FormSave`); two receipts allocated at once over-apply an
  invoice; an allocation that ends after a void brings the receipt back.
* An edit after an unanswered posting makes a bill a draft, although LedgerOS may
  have booked it; the hash guard then refuses the new details.
* A payment's form saved over an attempt may change the way to pay, which has a
  key of its own: `SentOnceUnlessLost` is stated for each way, and
  `BillNotPaidTwice` holds as LedgerOS guards the balance.  If the request dies,
  the retry of a booked payment asks for a balance that it has used up itself.
* A maintenance request that is moved to another unit leaves its bills behind:
  they cannot be saved until they are unlinked.  `BillChangesMatch` is therefore
  about the steps that touch a bill.  A bill is also saved or submitted against the
  request it was checked with, though an edit of the request was committed in
  between: the property allows any version that was current since the check.
* The balance a payment was found good for may be used up when it leaves:
  `NewRequestChecked` speaks of the balance as read, and `BillNotPaidTwice` is
  LedgerOS's own guard at booking together with the order in which journals are
  linked.
* Base rent that a user typed, or a charge generated before its lease was saved
  again, stays as it is: the month's charges then differ from the rent roll, which
  counts leases of every status but cancelled where only active ones are charged.
  `RentAddsUp` is about months whose charges were all generated from leases as they
  still stand.
* A vendor edited while its mapping is not valid keeps a confirmed record of
  what it was (`skipped`).

## What is proved

### Receipts

`TenantReceiptProofs` proves, for any sets of receipts, invoices and requests and
any bounds, under the two assumptions on the constants (`ReceiptAssumption`:
`Deposit` is not an invoice, there are finitely many receipts and invoices, as in
any database, bounds and amounts are naturals, ranks integers; `NoneAssumption`:
`None` is none of the values it stands beside):

| theorem | statement |
|---|---|
| `Invariance` | `Spec => [](TypeOK /\ Aligned)` |
| `TypeCorrect`, `Confirmation`, `FrozenAmounts`, `OneRequest` | the type invariant, `ConfirmedIsBooked`, `FrozenMatchesShare`, `SentOnceUnlessLost` |
| `Consistency` | `Spec => []Consistent` |
| `AllocationKeepsWithin`, `Finalization` | `Spec => AllocationWithinReceipt`, `Spec => FinalizedIsComplete` |
| `Implements` | `Spec => PostsIdempotently` |

None of the safety properties is inductive.  `SentOnceUnlessLost` compares two
requests on the wire; that a request about to be sent agrees with them follows
only if every one of them is on file, or is an *open attempt* of some request
(`Accounted`), and if whoever is about to send holds the component's lock, so
that the open attempt can only be its own (`Locking`).  That a component's
amount cannot change under an open attempt needs the amounts of both
(`InFlight`, `OnFile`) and that allocation and forms touch only components
without an attempt (`JobShape`, through the receipt's lock and
`is_editable_after_sync`).  `Aligned` is the conjunction of these five, and
each is preserved by a lemma of its own (`ShapeStep`, `LockStep`, `FileStep`,
`FlightStep`, `AccountStep`, after `TypeStep`), one step per action.  Helper
lemmas say how each group of actions moves a variable (`ShareMoves`,
`FileMoves`, `WireMoves`), what an attempt implies (`AttemptLocked`,
`AttemptAlone`, `AttemptShare`), and what a commit does (`SettleCommits`,
`FinalizeCommits`).  `Implements` uses the invariant for `Send` and `Settle`: the
body sent is the one settled on, and what is settled was sent.

`Consistent` adds three conjuncts to `Aligned`, each proved inductive on top of it
(TLC checks all of it in `receipt_safety`).  `PlanCovered` bounds what a request has
planned by what its locked receipt has left: a plan grows by at most the rest of
the receipt (`PlanOwn`, `PlannedGrows`), and no other request moves that rest while
the lock is held (`LockedStays`).  A commit then gives out no more than the receipt
has, by `PlanAdds`, where the new shares and the old ones have different keys
(`AppliedType`, `SumUnion`).  `SnapshotsTrue` says that a row read before the lock
is still true of the ledger, because frozen requests are never replaced
(`FrozenStays`).  `FinalizesAll` says that a finalization has every component of its
receipt still to take, in its hands, or found it posted: so an early return for a
confirmed component is as good as a posting (`SkippedIsPosted`, `CoversStep`), and
when nothing is left to take, LedgerOS has them all (`FinalizePosts`).

### Bills

`VendorBillProofs` proves, for any users, roles, details, accounts and bounds,
under `BillAssumption` (administrators are editors, the blank reference is a
reference, bounds are naturals) and `BillNone` (`None` is no other value):

| theorem | statement |
|---|---|
| `Invariance` | `Spec => [](TypeOK /\ Consistent)` |
| `TypeCorrect`, `TwoPersons`, `DecidedOnce`, `Posted`, `OneRequest` | the type invariant, `ApprovedByAnother`, `OneDecision`, `PostedIsBooked`, `SentOnceUnlessLost` |
| `OnlyApproved` | `Spec => SentAsApproved` |
| `Implements` | `Spec => PostsIdempotently` |

That approval takes two persons is not inductive: the row forgets who approved,
and a submission replaces the submitter.  `History` ties the row to the events:
no event is of a later version than the row's, those of the present version are
about the present details, one of them is the submission by `submitter`, and
while the bill is submitted there is no other.  So a decision is the first of its
version (`DecisionHistory`), a submission starts a version without events
(`SubmitHistory`), and a save that changes anything leaves no decision standing
(`SaveHistory`).  `OnFile` says of the posting what `Accounted` and `InFlight` say
of receipts: every request on the wire is on file, in flight, or lost, and these
are one and cover the bill's details.  `PayloadType` is the fact about the hash
guard that both use.

### Payments

`VendorSettlementProofs` proves, for any payments, amounts, accounts and bounds,
under `SettlementAssumption` (the two ways to pay differ and `Legacy` is
neither, payments are finitely many and their amounts positive, bounds are
naturals) and `SettlementNone` (`None` is no other value):

| theorem | statement |
|---|---|
| `Invariance` | `Spec => [](TypeOK /\ Aligned)` |
| `Consistency`, `NotPaidTwice` | `Spec => []Consistent`, `Spec => []BillNotPaidTwice` |
| `TypeCorrect`, `Posted`, `JournalsLinked`, `OneRequest` | the type invariant, `PostedIsBooked`, `JournalNotReplaced`, `SentOnceUnlessLost` |
| `CheckedFirst` | `Spec => NewRequestChecked` |
| `Implements` | `Spec => PostsIdempotently` |

Nothing orders the writes of a row: a form writes one that may be older than any
attempt.  What saves the properties is that *every* row, also in a form or an
open transaction, is true of the records as they are now (`RowConsistent`): a
row that points to a record has the amount of that record's request, and one
that is shown as posted was booked.  Records are only ever replaced by records
of the same body (the hash guard), so old rows stay true (`RowKept`, `NextRow`).
`OnFile` accounts for each request on the wire, as for bills.  `SendSafe` and
`AnswerSafe` say that a request and its answer keep both: that is `Aligned`.

That the bill is not paid twice is a statement about two sums over different
sets, the payments LedgerOS counts and the journals it may not know yet.  It
follows because it is never both: `LinkedFirst`, a payment without a journal goes
past `Review`, and is sent, only after LedgerOS has linked every journal of the bill, because the
bill's balance is withheld until then (`BillPaymentStatusService.statuses`,
`payments/services.py:345-361`), so from then on its own guard on the balance,
`WithinBill`, counts the journals too; before, nothing but the journals is on
the wire.  `JournalAmounts` keeps the amount of a journal from being edited on
its way, so that the link is for the journal's amount (`AmountsKept`,
`JournalledKept`).  `AskedFirst` carries what a transaction was told from its first
call to its second: what was booked then is booked still, and the row it holds has
an amount within that balance; `CheckedFirst` follows from it.  `AppliedWithin` compares the sums by the payments they are
over.

### Records posted directly

`DirectPostingProofs` proves, for any number of workers and requests, any values
of the parts of a request and any bounds, under `PostingAssumption` (0 is no note
or account, bounds are naturals) and `PostingNone` (`None` is no other value):

| theorem | statement |
|---|---|
| `Invariance` | `Spec => []IInv` |
| `TypeCorrect`, `StatusTold`, `VendorUpToDate`, `OneKey`, `OneDeposit` | the type invariant, `StatusTellsRecord`, `VendorCurrent`, `InvoiceOneKey`, `DepositSentOnce` |
| `NotResent` | `Spec => ConfirmedNotResent` |

`IInv` says that at most one request is sending (`OneSender`); that rows, in
forms and requests too, point to a sync record only if there is one
(`RecordKept`); that a deposit's or invoice's requests, the one on file and the
one in flight agree (`DepositFrozen`, `InvoiceKeys`); and that a vendor's request
in flight is the row it will commit (`VendorSent`); and that a form that goes on
to post saw no confirmation (`OpenWhenSaved`).  The handlers of the five kinds
have little in common; the proof first classifies every step as one that sends,
saves, fails or is calm (`SaveFormCase`, `SaveAndSyncCase`, `SyncCase`,
`ApproveCase`, `DepositCase`, `NextCases`), and keeps each part under those four.

### Maintenance requests

`MaintenanceRequestProofs` proves, for any users, requests, bills, forms, vendors
and places, under `RequestAssumption` (bill editors are users, places are pairs
of a property and a unit or none, bounds are naturals) and `RequestNone`:

| theorem | statement |
|---|---|
| `Invariance` | `Spec => [](TypeOK /\ HistoryReplays /\ NoLostUpdate)` |
| `TypeCorrect`, `HistoryTold`, `NothingLost`, `LinksTold` | the type invariant, `HistoryReplays`, `NoLostUpdate`, `LinksMatchHistory` |
| `FitInvariance` | `Spec => []BillsFit` |
| `Reused`, `BillsMatch` | `Spec => RepeatReusesBill`, `Spec => BillChangesMatch` |

The key is that every writer is a `Writes(r, row, event)`: the event says what
became of the row (`UpdateWrites`, `TransitionWrites`, `LinkWrites`), so what a
write does to the two sequences is proved once (`WriteEffect`, `WriteStep`).
`NoLostUpdate` needs that versions count the rows: only then does an equal version
mean that the page shows the present row (`CurrentRow`).  `LinksMatchHistory`
counts events: a write adds one to the events of its bill and none to others
(`EventsAfter`, by the cardinality of finite sets), and the link moves with the
same step (`BalanceKept`).  `BillsMatch` is about two steps with others in between, and
needs `BillsFit`: while a bill's row is locked nobody changes its link, and the row
about to be saved matches the version of the request that was looked at, which
stays among its versions (`FitKept`, `RowsGrow`).

### Reports

`ReportsProofs` proves, for any finite book of rows, any dates of the calendar
from year 1 to `MaxYear` (9999, as in `datetime.date`), any integer amounts and
any finite set of leases, with ends before their starts too (`BookAssumption`,
and `BookNone`: `None` is no slot, lease or row):

| theorem | statement |
|---|---|
| `Invariance` | `Spec => [](TypeOK /\ RentCharged)` |
| `Periods` | `Spec => []PeriodsAddUp` |
| `Agreement` | `Spec => []ReportsAgree` |
| `RentCoversMonth` | `Spec => []RentAddsUp` |

The reports are functions of the book, so most of this is about sums over what
the book may hold.  `Periods` rests on the calendar: `MonthIs`, `QuarterIs` and
`YearIs` compute the bounds, `Contains` says which days they contain,
`PartsCover` that the days of a year or quarter are each in one of its parts, and
`Partition` that a sum over the rows of the whole is then the sum of the sums
over the parts, also where a line adds two sums, as deposits received do;
`NextMonth` says that what is before the next month is what is before this one
and what is in it (`LedgerCarries`). `Agreement` needs what `TypeOK` says of the
rows beside their fields: deposit events that are confirmed were posted, so none
is a deduction, and bills and events are never voided, which some reports look at
and others do not (`NeverVoided`, `DepositsAgree`, `BillsAgree`).
`OwedIsDelinquent` compares a tenant's ledger with the delinquent invoices by
invoice: it takes the receipts by the invoice they are applied to (`SumByGroup`).
`RentCoversMonth` needs `RentCharged`, the invariant of base rent: no lease has
two charges for a billing period, typed or generated, and what was generated is
the prorated rent of the active lease it remembers (`TypingType`, `PutRent` for
the forms, `GenerateRentKeeps`, and `SaveLeaseKeeps`, as a charge remembers the
lease as it stood).  It exchanges two sums: the roll of each day of the month
summed over the days is each lease's rent summed over the days it runs
(`LeaseDays`, `ShareOfMonth`, `RollOfCharged`), and rounding to cents errs by
half a cent in each (`CentsClose`, `HalfCents`).  `TypeOK` and `RentCharged` are
proved and not listed in a run.

### Sums

The library has no theorem about sums over sets, and its induction theorems take an
operator as a parameter, which the provers cannot instantiate.  `SumTheorems` states
an induction over the subsets of a finite set with a *set* of subsets instead
(`BuildUp`, from `MinimalSubset` and the well-founded ordering of finite subsets),
and first shows that the function by which the community modules define a fold
exists (`SumsExist`, `SumAt`).  Every law after that is independent of the order in
which the fold takes the elements: `SumInsert`, `SumRemove`, `SumUnion`, `SumSame`,
`SumAtMost`, `SumOfPart`, `SumRenamed`, `SumScaled`, `SumConstant`, `SumSwap` (rows
and columns), `SumByGroup`.

### What is left to TLC

Only model-checked: `RequestsFinish`, as liveness and `ENABLED` are beyond the
prover.  Every safety invariant and action property of a passing run has a theorem.
The four sentences of the documentation that the code does not keep are refuted by
TLC's counterexamples.

## Not modelled

Card payoffs, payments moved to another bill and payer grants; the completion of
the setup and its smoke test; the HMAC signature and layout of requests; reports
read from LedgerOS, pending items and CSV files; the forms of owners, properties,
units, tenants and leases, which edit one row each; audit log, banking review,
workflow home, which only append or read; management commands other than
`reconcile_bill_card_payments`, admin, settings, templates, migrations.

## Plan

In this order, the most important behaviour first:

1. done: `IdempotentPosting`, `TenantReceipt`, `TenantReceiptProofs`.
2. done: `VendorBill`, `VendorBillProofs`.
3. done: `VendorSettlement`, `VendorSettlementProofs`.
4. done: `MaintenanceRequest`, `MaintenanceRequestProofs`.
5. done: `DirectPosting`, `DirectPostingProofs`.
6. done: `Reports`, `SumTheorems`, `ReportsProofs`.
7. `CardPayoff`, with the endpoint of LedgerOS that has no bill balance.
8. Setup: its checklist, the bootstrap of the mappings, completion and what
   undoes it.
9. Proofs for 7 and 8.

Each new run keeps the bounds above (two actors per shared row, two values per
changeable field), and every property has a mutation of the model that breaks it.
