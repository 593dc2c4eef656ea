---------------------------- MODULE TenantReceipt ----------------------------
(***************************************************************************)
(* Tenant receipts: a payment is recorded, split over the tenant's open    *)
(* invoices (charges) and a security deposit, and every part is posted to  *)
(* LedgerOS as an accounting component of its own.  The web server runs    *)
(* any number of requests at once against one READ COMMITTED database;     *)
(* a request holds row locks while it waits for LedgerOS, may be answered  *)
(* by a timeout although LedgerOS books the component later, and may die   *)
(* at any point, which rolls its open transaction back.                    *)
(*                                                                         *)
(* One row of receipt is a TenantPayment; <<r, c>> for a charge c is the   *)
(* TenantPaymentApplication of r to c, and <<r, Deposit>> its              *)
(* TenantPaymentDepositAllocation.  summary is the sync record of the      *)
(* receipt as a whole, record the sync record of one component.            *)
(***************************************************************************)
EXTENDS Integers, FiniteSets, Functions

CONSTANTS
  Receipts, Charges, Requests,
  Deposit,        \* the part of a receipt held as a security deposit
  Dates,          \* values of the details a component's payload carries
  ChargeAmount,   \* [Charges -> Nat]: the invoiced amounts
  Rank,           \* [Charges -> Int]: priority, due date, charge date, id
  None,
  MaxAmount,      \* bound on a receipt's amount
  MaxEdits,       \* bound on form loads, voids, invoice and mapping changes
  MaxCrashes      \* bound on requests that die

Parts      == Charges \cup {Deposit}
Component  == Receipts \X Parts
Amounts    == 1..MaxAmount

ASSUME ReceiptAssumption ==
  /\ Deposit \notin Charges
  /\ IsFiniteSet(Receipts) /\ IsFiniteSet(Charges)
  /\ MaxAmount \in Nat
  /\ MaxEdits \in Nat /\ MaxCrashes \in Nat
  /\ ChargeAmount \in [Charges -> Nat]
  /\ Rank \in [Charges -> Int]

VARIABLES
  receipt,    \* the committed row of each receipt, or None
  summary,    \* the receipt's own sync record: none, failed or succeeded
  share,      \* the amount of each component, 0 when there is no such row
  frozen,     \* frozen_request_payload of each component, or None
  record,     \* the component's committed sync record, or None
  ready,      \* per charge: its invoice is synced; Deposit: the mappings are valid
  archived,   \* the voided charges
  wire,       \* requests that left for LedgerOS: <<component, body>>
  ledger,     \* requests LedgerOS has posted
  lost,       \* components whose only attempts were rolled back (history)
  edits, crashes,
  \* What each request of the web server is doing.
  pc,         \* where it stands
  on,         \* the receipt it works on, or None
  pref,       \* the charge to be allocated first, or None
  plan,       \* the amounts given to charges, not committed yet
  todo,       \* the parts still to be planned or synced
  sync,       \* the rows read for the component it waits to lock, or None
  sending,    \* the component and body LedgerOS has not answered yet, or None
  held,       \* the attempts in the open transaction of a finalization
  locks,      \* the parts whose rows it has locked
  form        \* the row and deposit a form will write, or None

planVars  == <<pref, plan>>
syncVars  == <<sync, sending, held, locks>>
job       == <<pc, on, planVars, todo, syncVars, form>>
records   == <<summary, frozen, record>>
outside   == <<wire, ledger, lost>>
counters  == <<edits, crashes>>
vars == <<receipt, share, records, ready, archived, outside, counters, job>>
-----------------------------------------------------------------------------
\* The shapes of rows, payloads and jobs.

Rows      == [status : {"draft", "allocated", "ready_to_sync", "posted", "voided"},
              date : Dates, amount : Amounts, linked : BOOLEAN]
Bodies    == [date : Dates, amount : Amounts, total : 0..MaxAmount]
Records   == [status : {"failed", "succeeded"}, body : Bodies]
Snapshots == [part : Parts, row : Rows, ready : BOOLEAN, record : Records \cup {None}]
Requested == [part : Parts, body : Bodies]
Attempts  == [part : Parts, record : Records]

Forms     == [row : Rows \cup {None}, deposit : 0..MaxAmount]
NoPlan    == [c \in Charges |-> 0]

ASSUME NoneAssumption ==
  None \notin Receipts \cup Parts \cup Rows \cup Bodies \cup Records \cup Snapshots \cup Requested \cup Forms

\* The payload of part p of a receipt whose row reads row: an application carries
\* the date and its amount, a deposit the receipt's total as well.
Body(row, p, amount) ==
  [date |-> row.date, amount |-> amount, total |-> IF p = Deposit THEN row.amount ELSE 0]

PartsOf(r)     == {p \in Parts : share[<<r, p>>] > 0}
Allocated(r)   == SumFunctionOnSet(share, {<<r, p>> : p \in Parts})
Remaining(r)   == receipt[r].amount - Allocated(r)
Applied(c)     == SumFunctionOnSet(share, {<<r, c>> : r \in Receipts})
Planned(q)     == SumFunctionOnSet(plan[q], Charges)
Succeeded(c)   == record[c] # None /\ record[c].status = "succeeded"
Least(a, b)    == IF a < b THEN a ELSE b

\* is_editable_after_sync: not posted, and no component's attempt is on file.
Finalized(r) == \/ receipt[r].status = "posted"
                \/ receipt[r].linked /\ summary[r] = "succeeded"
Editable(r)  == ~Finalized(r) /\ \A p \in Parts : record[<<r, p>>] = None
-----------------------------------------------------------------------------
\* Row locks.  The lock on a receipt is held from the SELECT ... FOR UPDATE of
\* allocation and finalization to their commit, the lock on a component while
\* it is being synced and, inside a finalization, until that commits.

\* Locks that leave out the allocation, the receipt, and the component.
UnlockedAllocation(r) == \E q \in Requests : on[q] = r /\ pc[q] = "finalize"
NoReceiptLock(r)      == FALSE

\* The receipt's row is locked.
ReceiptLocked(r)      == \E q \in Requests : on[q] = r /\ pc[q] \in {"plan", "finalize"}

NoPartLock(r, p)      == FALSE

\* The row of component <<r, p>> is locked.
PartLocked(r, p)      == \E q \in Requests : on[q] = r /\ p \in locks[q]

Goto(q, s) == pc' = [pc EXCEPT ![q] = s]
Begin(q, s, r) == Goto(q, s) /\ on' = [on EXCEPT ![q] = r]

\* The request is answered; a transaction it has not committed is gone.
Finish(q) ==
  /\ Begin(q, "idle", None)
  /\ pref' = [pref EXCEPT ![q] = None]
  /\ plan' = [plan EXCEPT ![q] = NoPlan]
  /\ todo' = [todo EXCEPT ![q] = {}]
  /\ sync' = [sync EXCEPT ![q] = None]
  /\ sending' = [sending EXCEPT ![q] = None]
  /\ held' = [held EXCEPT ![q] = {}]
  /\ locks' = [locks EXCEPT ![q] = {}]
  /\ form' = [form EXCEPT ![q] = None]

Edit == edits < MaxEdits /\ edits' = edits + 1
-----------------------------------------------------------------------------
\* Recording a receipt.

NewRow(d, a) == [status |-> "draft", date |-> d, amount |-> a, linked |-> FALSE]

\* A form that takes a deposit above the receipt's amount.
LooseDepositChoices(a) == 0..(a + 1)
\* The deposits the form accepts with amount a.
DepositChoices(a) == 0..a

\* TenantPaymentCreateView: the row is committed first, the deposit follows.
CreateReceipt(q, r, d, a) ==
  /\ pc[q] = "idle" /\ receipt[r] = None
  /\ receipt' = [receipt EXCEPT ![r] = NewRow(d, a)]
  /\ Begin(q, "deposit", r)
  /\ \E dep \in DepositChoices(a) : form' = [form EXCEPT ![q] = [row |-> None, deposit |-> dep]]
  /\ UNCHANGED <<share, records, ready, archived, outside, counters, planVars, todo, syncVars>>

\* record_payment_for_charge: the row is committed, then allocated to c first.
RecordPayment(q, r, c, d, a) ==
  /\ pc[q] = "idle" /\ receipt[r] = None
  /\ receipt' = [receipt EXCEPT ![r] = NewRow(d, a)]
  /\ Begin(q, "recorded", r)
  /\ pref' = [pref EXCEPT ![q] = c]
  /\ UNCHANGED <<share, records, ready, archived, outside, counters, plan, todo, syncVars, form>>

\* TenantPaymentUpdateView.post: the instance is read, and the form fixes what
\* will be written back: other accounting values only when it was editable.
FormLoad(q, r) ==
  /\ pc[q] = "idle" /\ receipt[r] # None
  /\ Edit
  /\ Begin(q, "form", r)
  /\ \/ /\ Editable(r)
        /\ \E d \in Dates, a \in Amounts : \E dep \in DepositChoices(a) :
             form' = [form EXCEPT ![q] =
                        [row |-> [receipt[r] EXCEPT !.date = d, !.amount = a], deposit |-> dep]]
     \/ /\ ~Editable(r)
        /\ form' = [form EXCEPT ![q] = [row |-> receipt[r], deposit |-> share[<<r, Deposit>>]]]
  /\ UNCHANGED <<receipt, share, records, ready, archived, outside, crashes, planVars, todo, syncVars>>

\* form.save() writes every column of the row that was loaded.
FormSave(q) ==
  /\ pc[q] = "form" /\ ~ReceiptLocked(on[q])
  /\ receipt' = [receipt EXCEPT ![on[q]] = form[q].row]
  /\ Goto(q, "deposit")
  /\ form' = [form EXCEPT ![q].row = None]
  /\ UNCHANGED <<share, records, ready, archived, outside, counters, on, planVars, todo, syncVars>>

\* set_deposit_allocation: a refused amount leaves everything as it was.
SetDeposit(q) ==
  LET r == on[q]  dep == form[q].deposit IN
  /\ pc[q] = "deposit" /\ ~ReceiptLocked(r)
  /\ share' = IF Editable(r) /\ dep <= receipt[r].amount
              THEN [share EXCEPT ![<<r, Deposit>>] = dep]
              ELSE share
  /\ Finish(q)
  /\ UNCHANGED <<receipt, records, ready, archived, outside, counters>>
-----------------------------------------------------------------------------
\* allocate_payment, first transaction: the plan is made under the receipt's lock.

AllocateBegin(q, r) ==
  /\ pc[q] = "idle" \/ (pc[q] = "recorded" /\ on[q] = r)
  /\ receipt[r] # None /\ ~ReceiptLocked(r)
  /\ ~Finalized(r) /\ receipt[r].status # "voided"
  /\ Begin(q, "plan", r)
  /\ todo' = [todo EXCEPT ![q] = {c \in Charges \ archived : share[<<r, c>>] = 0}]
  /\ UNCHANGED <<receipt, share, records, ready, archived, outside, counters, planVars, syncVars, form>>

\* A receipt voided or finalized before its allocation started is refused.
AllocateRefused(q) ==
  /\ pc[q] = "recorded" /\ ~ReceiptLocked(on[q])
  /\ Finalized(on[q]) \/ receipt[on[q]].status = "voided"
  /\ Finish(q)
  /\ UNCHANGED <<receipt, share, records, ready, archived, outside, counters>>

Precedes(q, c, d) == c = pref[q] \/ (d # pref[q] /\ Rank[c] <= Rank[d])

\* What charge c gets: what is left of the receipt, at most what is open on c.
\* Applications of other receipts count once they are committed.
Offer(q, c) == Least(Remaining(on[q]) - Planned(q), ChargeAmount[c] - Applied(c))

PlanCharge(q) ==
  /\ pc[q] = "plan"
  /\ \E c \in todo[q] :
       /\ \A d \in todo[q] : Precedes(q, c, d)
       /\ todo' = [todo EXCEPT ![q] = @ \ {c}]
       /\ \/ \E a \in Amounts : a = Offer(q, c) /\ plan' = [plan EXCEPT ![q][c] = a]
          \/ Offer(q, c) <= 0 /\ UNCHANGED plan
  /\ UNCHANGED <<receipt, share, records, ready, archived, outside, counters, pc, on, pref, syncVars, form>>

PlanCommit(q) ==
  LET r == on[q] IN
  /\ pc[q] = "plan" /\ todo[q] = {}
  /\ share' = [k \in Component |-> IF k[1] = r /\ k[2] \in Charges /\ plan[q][k[2]] > 0
                                   THEN plan[q][k[2]] ELSE share[k]]
  /\ Goto(q, "post")
  /\ todo' = [todo EXCEPT ![q] = {c \in Charges : share'[<<r, c>>] > 0}]
  /\ pref' = [pref EXCEPT ![q] = None]
  /\ plan' = [plan EXCEPT ![q] = NoPlan]
  /\ UNCHANGED <<receipt, records, ready, archived, outside, counters, on, syncVars, form>>

\* allocate_payment, last transaction.
ReceiptStatus(r) ==
  IF PartsOf(r) = {} THEN "draft"
  ELSE IF Remaining(r) = 0 /\ \A p \in PartsOf(r) : Succeeded(<<r, p>>) THEN "ready_to_sync"
  ELSE "allocated"

\* All parts of todo have been synced and answered.
Drained(q) == todo[q] = {} /\ sync[q] = None /\ sending[q] = None

AllocateConclude(q) ==
  LET r == on[q] IN
  /\ pc[q] = "post" /\ Drained(q) /\ ~ReceiptLocked(r)
  /\ receipt' = IF receipt[r].status = "posted" THEN receipt
                ELSE [receipt EXCEPT ![r].status = ReceiptStatus(r)]
  /\ Finish(q)
  /\ UNCHANGED <<share, records, ready, archived, outside, counters>>
-----------------------------------------------------------------------------
\* sync_payment_application and sync_deposit_allocation.  The row of the
\* component is locked by the statement that reads it; the receipt, the invoice
\* and the sync record it joins are those of the statement's snapshot, taken
\* before the wait for the lock.  Applications are synced in any order (the code
\* takes them by id), the deposit after them.

SyncStart(q, p) ==
  LET r == on[q] IN
  /\ pc[q] \in {"post", "finalize"} /\ sync[q] = None /\ sending[q] = None
  /\ p \in todo[q] /\ (p = Deposit => todo[q] = {Deposit})
  /\ todo' = [todo EXCEPT ![q] = @ \ {p}]
  /\ sync' = [sync EXCEPT ![q] = [part |-> p, row |-> receipt[r], ready |-> ready[p],
                                  record |-> record[<<r, p>>]]]
  /\ UNCHANGED <<receipt, share, records, ready, archived, outside, counters, pc, on, planVars,
                 sending, held, locks, form>>

\* The request of the component being synced, as it would be built now.
Current(q) == LET s == sync[q] IN Body(s.row, s.part, share[<<on[q], s.part>>])

\* A check that misses every change.
NeverChanged(q) == FALSE

\* The frozen payload or the hash on file disagrees with the request built now.
Changed(q) ==
  LET s == sync[q]  c == <<on[q], s.part>> IN
  \/ frozen[c] \notin {None, Current(q)}
  \/ s.record # None /\ s.record.body # Current(q)

\* An application needs its invoice's sync record, as joined; a deposit reads the
\* account mappings when it builds its entries.
Postable(q) ==
  LET s == sync[q] IN IF s.part = Deposit THEN ready[Deposit] ELSE s.ready

Refused(q)   == sync[q].row.status = "voided" \/ ~Postable(q) \/ Changed(q)
Confirmed(q) == sync[q].record # None /\ sync[q].record.status = "succeeded"
HasLock(q)   == sync[q] # None /\ ~PartLocked(on[q], sync[q].part)

\* The components whose first attempt a rollback of q's transaction erases.
Open(q) == {a.part : a \in held[q]} \cup (IF sending[q] = None THEN {} ELSE {sending[q].part})
Forgotten(q) == {k \in Component : k[1] = on[q] /\ k[2] \in Open(q) /\ frozen[k] = None}

\* A ValidationError ends the allocation loop, or rolls the finalization back.
SyncRefused(q) ==
  /\ HasLock(q) /\ Refused(q)
  /\ lost' = lost \cup Forgotten(q)
  /\ Finish(q)
  /\ UNCHANGED <<receipt, share, records, ready, archived, wire, ledger, counters>>

SyncSkip(q) ==
  /\ HasLock(q) /\ ~Refused(q) /\ Confirmed(q)
  /\ sync' = [sync EXCEPT ![q] = None]
  /\ locks' = IF pc[q] = "finalize" THEN [locks EXCEPT ![q] = @ \cup {sync[q].part}] ELSE locks
  /\ UNCHANGED <<receipt, share, records, ready, archived, outside, counters, pc, on, planVars, todo,
                 sending, held, form>>

SyncSend(q) ==
  LET p == sync[q].part IN
  /\ HasLock(q) /\ ~Refused(q) /\ ~Confirmed(q)
  /\ wire' = wire \cup {<<<<on[q], p>>, Current(q)>>}
  /\ sync' = [sync EXCEPT ![q] = None]
  /\ locks' = [locks EXCEPT ![q] = @ \cup {p}]
  /\ sending' = [sending EXCEPT ![q] = [part |-> p, body |-> Current(q)]]
  /\ UNCHANGED <<receipt, share, records, ready, archived, ledger, lost, counters, pc, on, planVars, todo,
                 held, form>>

\* LedgerOS posts a request it has received, even one its sender gave up on.
LedgerBooks ==
  /\ \E j \in wire : ledger' = ledger \cup {j}
  /\ UNCHANGED <<receipt, share, records, ready, archived, wire, lost, counters, job>>

\* The outcome is committed at once by an allocation, kept in the open
\* transaction by a finalization.
Settle(q, status) ==
  LET c   == <<on[q], sending[q].part>>
      rec == [status |-> status, body |-> sending[q].body]
  IN
  /\ sending' = [sending EXCEPT ![q] = None]
  /\ \/ /\ pc[q] = "post"
        /\ frozen' = [frozen EXCEPT ![c] = rec.body]
        /\ record' = [record EXCEPT ![c] = rec]
        /\ locks' = [locks EXCEPT ![q] = {}]
        /\ UNCHANGED held
     \/ /\ pc[q] = "finalize"
        /\ held' = [held EXCEPT ![q] = @ \cup {[part |-> c[2], record |-> rec]}]
        /\ UNCHANGED <<frozen, record, locks>>
  /\ UNCHANGED <<receipt, share, summary, ready, archived, outside, counters, pc, on, planVars, todo,
                 sync, form>>

\* Any answer taken for a posted one.
AnyResponse(q) == sending[q] # None /\ Settle(q, "succeeded")
\* The answer shows a posted journal entry.
SettlePosted(q) ==
  /\ sending[q] # None
  /\ <<<<on[q], sending[q].part>>, sending[q].body>> \in ledger
  /\ Settle(q, "succeeded")

\* A call without a timeout.
NoTimeout(q) == FALSE

\* An error response, a response without a posted journal entry, or a timeout.
SettleFailed(q) == sending[q] # None /\ Settle(q, "failed")
-----------------------------------------------------------------------------
\* sync_payment: one transaction around all components of the receipt.

FinalizeBegin(q, r) ==
  /\ pc[q] = "idle" /\ receipt[r] # None /\ ~ReceiptLocked(r)
  /\ receipt[r].status # "voided" /\ PartsOf(r) # {} /\ Remaining(r) = 0
  /\ Begin(q, "finalize", r)
  /\ todo' = [todo EXCEPT ![q] = PartsOf(r)]
  /\ UNCHANGED <<receipt, share, records, ready, archived, outside, counters, planVars, syncVars, form>>

\* Errors that leave out the deposit.
InvoiceErrors(q) == \E a \in held[q] : a.part # Deposit /\ a.record.status = "failed"
\* A component of the finalization did not post.
Errors(q) == \E a \in held[q] : a.record.status = "failed"

\* The attempts on component k that q's transaction holds.
Held(q, k)    == {a \in held[q] : k = <<on[q], a.part>>}
Outcome(q, k) == (CHOOSE a \in Held(q, k) : TRUE).record

FinalizeCommit(q) ==
  LET r == on[q]  ok == ~Errors(q) IN
  /\ pc[q] = "finalize" /\ Drained(q)
  /\ record' = [k \in Component |-> IF Held(q, k) = {} THEN record[k] ELSE Outcome(q, k)]
  /\ frozen' = [k \in Component |-> IF Held(q, k) = {} THEN frozen[k] ELSE Outcome(q, k).body]
  /\ summary' = [summary EXCEPT ![r] = IF ok THEN "succeeded" ELSE "failed"]
  /\ receipt' = [receipt EXCEPT ![r].status = IF ok THEN "posted" ELSE "ready_to_sync",
                                ![r].linked = TRUE]
  /\ Finish(q)
  /\ UNCHANGED <<share, ready, archived, outside, counters>>
-----------------------------------------------------------------------------
\* A worker dies: its open transaction, if any, is rolled back.
Crash(q) ==
  /\ pc[q] # "idle" /\ crashes < MaxCrashes
  /\ crashes' = crashes + 1
  /\ lost' = lost \cup Forgotten(q)
  /\ Finish(q)
  /\ UNCHANGED <<receipt, share, records, ready, archived, wire, ledger, edits>>

\* TenantPaymentArchiveView: one UPDATE of the status, whatever it was.
VoidReceipt(r) ==
  /\ receipt[r] # None /\ ~ReceiptLocked(r) /\ Edit
  /\ receipt' = [receipt EXCEPT ![r].status = "voided"]
  /\ UNCHANGED <<share, records, ready, archived, outside, crashes, job>>

\* approve_charge, with the outcome of its own call to LedgerOS; it un-voids.
ApproveCharge(c, ok) ==
  /\ Edit
  /\ ready' = [ready EXCEPT ![c] = ok]
  /\ archived' = archived \ {c}
  /\ UNCHANGED <<receipt, share, records, outside, crashes, job>>

ArchiveCharge(c) ==
  /\ Edit
  /\ archived' = archived \cup {c}
  /\ UNCHANGED <<receipt, share, records, ready, outside, crashes, job>>

\* The account mappings a deposit needs become valid or invalid.
ChangeMapping ==
  /\ Edit
  /\ ready' = [ready EXCEPT ![Deposit] = ~@]
  /\ UNCHANGED <<receipt, share, records, archived, outside, crashes, job>>
-----------------------------------------------------------------------------
Init ==
  /\ receipt = [r \in Receipts |-> None]
  /\ summary = [r \in Receipts |-> "none"]
  /\ share = [k \in Component |-> 0]
  /\ frozen = [k \in Component |-> None]
  /\ record = [k \in Component |-> None]
  /\ ready \in [Parts -> BOOLEAN]
  /\ archived = {}
  /\ wire = {} /\ ledger = {} /\ lost = {}
  /\ edits = 0 /\ crashes = 0
  /\ pc = [q \in Requests |-> "idle"]
  /\ on = [q \in Requests |-> None]
  /\ pref = [q \in Requests |-> None]
  /\ plan = [q \in Requests |-> NoPlan]
  /\ todo = [q \in Requests |-> {}]
  /\ sync = [q \in Requests |-> None]
  /\ sending = [q \in Requests |-> None]
  /\ held = [q \in Requests |-> {}]
  /\ locks = [q \in Requests |-> {}]
  /\ form = [q \in Requests |-> None]

\* What a user asks a request to do.
Ask(q) ==
  \/ \E r \in Receipts, d \in Dates, a \in Amounts :
       \/ CreateReceipt(q, r, d, a)
       \/ \E c \in Charges : RecordPayment(q, r, c, d, a)
  \/ \E r \in Receipts : FormLoad(q, r) \/ FinalizeBegin(q, r)
  \/ \E r \in Receipts : pc[q] = "idle" /\ AllocateBegin(q, r)

\* What a request then does by itself.
Work(q) ==
  \/ FormSave(q) \/ SetDeposit(q)
  \/ AllocateRefused(q) \/ PlanCharge(q) \/ PlanCommit(q) \/ AllocateConclude(q)
  \/ pc[q] = "recorded" /\ AllocateBegin(q, on[q])
  \/ \E p \in Parts : SyncStart(q, p)
  \/ SyncRefused(q) \/ SyncSkip(q) \/ SyncSend(q)
  \/ SettlePosted(q) \/ SettleFailed(q)
  \/ FinalizeCommit(q)

Administer ==
  \/ \E r \in Receipts : VoidReceipt(r)
  \/ \E c \in Charges, ok \in BOOLEAN : ApproveCharge(c, ok)
  \/ \E c \in Charges : ArchiveCharge(c)
  \/ ChangeMapping

Next ==
  \/ \E q \in Requests : Ask(q) \/ Work(q) \/ Crash(q)
  \/ LedgerBooks
  \/ Administer

Spec == Init /\ [][Next]_vars

\* A request keeps running until it answers, HTTP calls time out, and PostgreSQL
\* grants row locks in the order they were asked for.
FairSpec == Spec /\ \A q \in Requests : SF_vars(Work(q))
-----------------------------------------------------------------------------
\* The types of the variables, and that LedgerOS posts nothing it was not sent.
TypeOK ==
  /\ receipt \in [Receipts -> Rows \cup {None}]
  /\ summary \in [Receipts -> {"none", "failed", "succeeded"}]
  /\ share \in [Component -> 0..MaxAmount]
  /\ frozen \in [Component -> Bodies \cup {None}]
  /\ record \in [Component -> Records \cup {None}]
  /\ ready \in [Parts -> BOOLEAN]
  /\ archived \subseteq Charges
  /\ wire \subseteq Component \X Bodies
  /\ ledger \subseteq wire
  /\ lost \subseteq Component
  /\ edits \in Nat /\ crashes \in Nat
  /\ pc \in [Requests -> {"idle", "recorded", "plan", "post", "finalize", "form", "deposit"}]
  /\ on \in [Requests -> Receipts \cup {None}]
  /\ pref \in [Requests -> Charges \cup {None}]
  /\ plan \in [Requests -> [Charges -> 0..MaxAmount]]
  /\ todo \in [Requests -> SUBSET Parts]
  /\ sync \in [Requests -> Snapshots \cup {None}]
  /\ sending \in [Requests -> Requested \cup {None}]
  /\ held \in [Requests -> SUBSET Attempts]
  /\ locks \in [Requests -> SUBSET Parts]
  /\ form \in [Requests -> Forms \cup {None}]

\* A component is recorded as succeeded only if LedgerOS has posted exactly the
\* request on file, whatever was timed out, retried or rolled back in between.
ConfirmedIsBooked ==
  \A k \in Component : Succeeded(k) => <<k, record[k].body>> \in ledger

\* As long as no rollback has erased a component's attempt, all requests sent for
\* it carry one body, hence one idempotency key: concurrent and repeated requests,
\* edits and timeouts cannot make LedgerOS post it twice.
SentOnceUnlessLost ==
  \A j \in wire, i \in wire : j[1] = i[1] /\ j[1] \notin lost => j = i

\* The request frozen for a component is for the amount the receipt allocates to
\* it, so an attempted allocation or deposit can no longer be changed or deleted.
FrozenMatchesShare ==
  \A k \in Component : frozen[k] # None => frozen[k].amount = share[k]

\* A receipt is finalized only when its amount is fully allocated and LedgerOS has
\* posted every one of its components as frozen.
FinalizedIsComplete ==
  [][\A r \in Receipts :
       receipt'[r] # None /\ receipt'[r].status = "posted" /\ summary[r] # summary'[r]
         => /\ Remaining(r) = 0
            /\ \A p \in PartsOf(r) : <<<<r, p>>, frozen'[<<r, p>>]>> \in ledger]_vars

\* Allocation never gives invoices more than the receipt has left, and never
\* changes what an invoice was given before.
AllocationWithinReceipt ==
  [][\A r \in Receipts :
       (\E c \in Charges : share'[<<r, c>>] # share[<<r, c>>])
         => /\ Allocated(r)' <= receipt[r].amount
            /\ \A p \in PartsOf(r) : share'[<<r, p>>] = share[<<r, p>>]]_vars

\* What the documentation says of receipts, and the code does not keep.

\* technical-manual.md:178-179: a changed retry payload is rejected rather than sent
\* with a new idempotency key; so a component has only ever one request.
ChangedRetryRejected ==
  \A j \in wire, i \in wire : j[1] = i[1] => j = i

\* Every request is answered: no lock order deadlocks, no wait is endless.
RequestsFinish == \A q \in Requests : pc[q] # "idle" ~> pc[q] = "idle"

-----------------------------------------------------------------------------
\* Why the safety properties hold.  An attempt of q is a request that q has sent
\* and whose outcome is not committed yet.
Attempt(q, k, b) ==
  /\ on[q] = k[1]
  /\ \/ sending[q] = [part |-> k[2], body |-> b]
     \/ \E a \in held[q] : a.part = k[2] /\ a.record.body = b

\* What the variables of a request hold at each pc.
Shape(q) ==
  /\ pc[q] = "idle" <=> on[q] = None
  /\ on[q] # None => receipt[on[q]] # None
  /\ pc[q] \in {"form", "deposit"} <=> form[q] # None
  /\ pc[q] = "form" => form[q].row # None
  /\ pc[q] \notin {"post", "finalize"} =>
       sync[q] = None /\ sending[q] = None /\ held[q] = {} /\ locks[q] = {}
  /\ pc[q] \in {"plan", "post"} => Deposit \notin todo[q]
  /\ pc[q] = "post" =>
       /\ held[q] = {}
       /\ sync[q] # None => sync[q].part # Deposit
       /\ sending[q] # None => sending[q].part # Deposit
       /\ sending[q] = None => locks[q] = {}
       /\ sending[q] # None => locks[q] = {sending[q].part}
  /\ sending[q] # None => sync[q] = None
  /\ pc[q] # "plan" => plan[q] = NoPlan
  /\ pc[q] = "plan" =>
       \A c \in Charges : c \in todo[q] \/ plan[q][c] > 0 => share[<<on[q], c>>] = 0
  /\ pc[q] \in {"post", "finalize"} =>
       /\ \A p \in todo[q] : share[<<on[q], p>>] > 0
       /\ sync[q] # None => share[<<on[q], sync[q].part>>] > 0

JobShape == \A q \in Requests : Shape(q)

\* Every attempt is made under the lock of its component, once per transaction.
OwnLocks(q) ==
  /\ sending[q] # None => sending[q].part \in locks[q]
  /\ \A a \in held[q] :
       /\ a.part \in locks[q]
       /\ sending[q] # None => a.part # sending[q].part
       /\ \A b \in held[q] : a.part = b.part => a = b

\* The row locks of two requests exclude one another.
Exclusive(q, o) ==
  on[q] # None /\ on[o] = on[q] =>
    /\ locks[o] \cap locks[q] = {}
    /\ pc[q] \in {"plan", "finalize"} => pc[o] \notin {"plan", "finalize"}

Locking == \A q \in Requests : OwnLocks(q) /\ \A o \in Requests \ {q} : Exclusive(q, o)

\* What is on file for a component was sent, and posted if it says so.
OnFile ==
  \A k \in Component :
    /\ record[k] = None <=> frozen[k] = None
    /\ record[k] # None =>
         /\ record[k].body = frozen[k] /\ frozen[k].amount = share[k]
         /\ <<k, frozen[k]>> \in wire
         /\ record[k].status = "succeeded" => <<k, frozen[k]>> \in ledger

\* An attempt was sent, agrees with what is on file, and is posted if q saw it so.
InFlight ==
  \A q \in Requests :
    /\ \A k \in Component, b \in Bodies : Attempt(q, k, b) =>
         <<k, b>> \in wire /\ frozen[k] \in {None, b} /\ b.amount = share[k]
    /\ \A a \in held[q] : a.record.status = "succeeded" =>
         <<<<on[q], a.part>>, a.record.body>> \in ledger

\* Every request sent is on file, an open attempt, or of a component that lost one.
Accounted ==
  \A k \in Component, b \in Bodies : <<k, b>> \in wire =>
    k \in lost \/ frozen[k] = b \/ \E q \in Requests : Attempt(q, k, b)

\* Requests in flight, locks, frozen payloads and sync records agree, so each component
\* has one request unless an attempt was lost.
Aligned == JobShape /\ Locking /\ OnFile /\ InFlight /\ Accounted

\* Nothing is given to charges that the locked receipt does not have.
PlanCovered ==
  \A q \in Requests : pc[q] = "plan" => Planned(q) = 0 \/ Planned(q) <= Remaining(on[q])

\* The row that a request read for a component says what LedgerOS posted.
SnapshotsTrue ==
  \A q \in Requests : sync[q] # None /\ sync[q].record # None =>
    LET k == <<on[q], sync[q].part>> IN
    /\ frozen[k] # None
    /\ sync[q].record.status = "succeeded" => <<k, sync[q].record.body>> \in ledger

\* A finalization has still to take, is taking, or has taken each part of its receipt, or
\* found it posted.
Covers(q, p) ==
  \/ p \in todo[q]
  \/ sync[q] # None /\ sync[q].part = p
  \/ sending[q] # None /\ sending[q].part = p
  \/ \E a \in held[q] : a.part = p
  \/ frozen[<<on[q], p>>] # None /\ <<<<on[q], p>>, frozen[<<on[q], p>>]>> \in ledger

FinalizesAll ==
  \A q \in Requests : pc[q] = "finalize" =>
    Remaining(on[q]) = 0 /\ \A p \in PartsOf(on[q]) : Covers(q, p)

\* The receipts' inductive invariant.
Consistent == Aligned /\ PlanCovered /\ SnapshotsTrue /\ FinalizesAll
-----------------------------------------------------------------------------
\* What the retries of a receipt promise to LedgerOS, see IdempotentPosting.
Posting == INSTANCE IdempotentPosting WITH
  sent <- wire, booked <- ledger, settled <- frozen,
  confirmed <- {k \in Component : Succeeded(k)}
PostsIdempotently == Posting!PostingSpec
=============================================================================
