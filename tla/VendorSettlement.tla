-------------------------- MODULE VendorSettlement --------------------------
(***************************************************************************)
(* The payments of one posted vendor bill.  A payment is saved under its   *)
(* submission before anything is sent, then settled in LedgerOS from a     *)
(* bank account or a card; a second transaction holds the row's lock while *)
(* it asks LedgerOS for the balance, and later while it waits for the      *)
(* answer to the payment.  Payments of the bill hold locks of their own,   *)
(* so that one may be booked after another has read the balance.  Each of  *)
(* the two ways has a sync record, and so an idempotency key, of its own.  *)
(* Card payments of an earlier release posted a journal that LedgerOS does *)
(* not know to pay the bill: it has to be linked before anybody may pay    *)
(* the bill again.  The update form reads the row without a lock and later *)
(* writes all of it.                                                       *)
(***************************************************************************)
EXTENDS Integers, FiniteSets, Functions

CONSTANTS
  Payments,       \* submissions of the payment form: a row each, once saved
  Amounts, BillAmount,
  Bank, Card,     \* the ways to pay, payment_method
  Legacy,         \* the sync record of a card journal of the earlier release
  Accounts,       \* values of the account that a card is charged to
  None,
  MaxUpsets       \* bound on what upsets the plain course of payments: loads of the update
                  \* form, changes of the account mappings, requests that die

Methods   == {Bank, Card}
Component == Payments \X Methods

ASSUME SettlementAssumption ==
  /\ Bank # Card /\ Legacy \notin Methods
  /\ Amounts \subseteq Nat \ {0} /\ BillAmount \in Nat
  /\ IsFiniteSet(Payments)
  /\ MaxUpsets \in Nat

VARIABLES
  row,        \* the row of each payment; its record is the sync record it points to
  journal,    \* what the earlier release left of a payment: no journal, one with a
              \* known id, or one that is unclear
  record,     \* the committed sync record of each component: outcome and body
  forms,      \* the rows that update forms hold, and if they were settled when read
  paying,     \* the payment pay_bill is about to save, under the bill's lock
  checking,   \* per payment: the row that is locked and not sent yet, and what
              \* LedgerOS had booked when it was asked for the balance
  sending,    \* per payment: the row to commit and the body LedgerOS has not answered
  wire, ledger, lost,
  approved,   \* the bill's approval stands
  mapped,     \* the ways to pay whose accounts are mapped
  account,    \* the account a card's request names
  upsets      \* what has been counted so far

posting == <<record, sending, wire, ledger, lost>>
local   == <<row, forms>>
context == <<journal, approved, mapped, account>>
vars    == <<posting, paying, checking, local, context, upsets>>
-----------------------------------------------------------------------------
Rows    == [amount : Amounts, method : Methods,
            status : {"draft", "ready_to_sync", "posted"}, record : Methods \cup {Legacy, None}]
\* existing: the request names the journal to link.
Bodies  == [amount : Amounts, account : Accounts \cup {None}, existing : BOOLEAN]
Records == [status : {"failed", "succeeded"}, body : Bodies]
\* A card's request names the account; only a card's request links a journal.
Requests == {j \in Component \X Bodies :
               /\ j[1][2] = Card <=> j[2].account # None
               /\ j[2].existing => j[1][2] = Card}
Forms   == [row : Rows, settled : BOOLEAN]
Sends   == [row : Rows, body : Bodies]
\* seen: what was booked when LedgerOS was asked, which it is unless the row was attempted.
Checks  == [row : Rows, stage : {"attempted", "asked", "reviewed"}, seen : SUBSET Requests]
Orders  == [payment : Payments, amount : Amounts, method : Methods]

ASSUME SettlementNone ==
  None \notin Rows \cup Records \cup Sends \cup Checks \cup Orders
               \cup Bodies \cup Accounts \cup Methods \cup {Legacy}

\* A request of the payment is out.
Waiting(p) == sending[p] # None
\* A transaction holds the row's lock.
Locked(p)  == checking[p] # None \/ Waiting(p)

\* The accounts of the way to pay are not mapped.
Blocked(r) == r.method \notin mapped

\* The row's own sync record is a payment LedgerOS confirmed.
Confirmed(c)  == record[c] # None /\ record[c].status = "succeeded"
Settled(p, r) == r.record \in Methods /\ Confirmed(<<p, r.record>>)

\* A legacy journal as linked once its payment was attempted.
AttemptedIsLinked(p) == row[p].record = Card
\* statuses: a legacy card payment is unlinked until its settlement is confirmed.
Linked(p)   == row[p].record = Card /\ Confirmed(<<p, Card>>)
NeedsReview == \E p \in Payments : journal[p] # "none" /\ ~Linked(p)

\* What is still to be paid when LedgerOS has booked js.
Applied(js) == SumFunctionOnSet([j \in js |-> j[2].amount], js)
Unpaid(js)  == BillAmount - Applied(js)
Balance     == Unpaid(ledger)

Upset == upsets < MaxUpsets /\ upsets' = upsets + 1
-----------------------------------------------------------------------------
\* pay_bill locks the approved bill and asks LedgerOS for the balance, which covers the amount.
AskToPay(p, amount, method) ==
  /\ paying = None /\ row[p] = None
  /\ approved /\ amount <= Balance
  /\ paying' = [payment |-> p, amount |-> amount, method |-> method]
  /\ UNCHANGED <<posting, checking, local, context, upsets>>

\* It saves the payment under its submission, whatever was booked since it asked; the same
\* form again finds the row.
Pay ==
  /\ paying # None /\ ~NeedsReview /\ paying.method \in mapped
  /\ row' = [row EXCEPT ![paying.payment] =
       [amount |-> paying.amount, method |-> paying.method, status |-> "draft", record |-> None]]
  /\ paying' = None
  /\ UNCHANGED <<posting, checking, forms, context, upsets>>

\* It refuses the payment, or dies; nothing is saved.
DropPay ==
  /\ paying # None /\ paying' = None
  /\ UNCHANGED <<posting, checking, local, context, upsets>>

\* A request that always names the account.
AnyMethod(r)    == TRUE
\* Only a card's request names the account it is charged to.
NamesAccount(r) == r.method = Card

\* The request built from the row.
Body(p, r) ==
  [amount   |-> r.amount,
   account  |-> IF NamesAccount(r) THEN account ELSE None,
   existing |-> r.method = Card /\ journal[p] = "known"]

\* pay_bill has asked before.
NeverAsked(r) == FALSE
\* sync_payment asks LedgerOS again unless the row says that it was attempted.
Asked(r) == r.record = None

\* sync_payment locks the row r, reads the approval, and asks for the balance, which covers
\* the amount.
Begin(p, r) ==
  /\ ~Locked(p) /\ ~Settled(p, r) /\ ~Blocked(r)
  /\ Asked(r) => approved /\ r.amount <= Balance
  /\ checking' = [checking EXCEPT ![p] =
       [row |-> r, stage |-> IF Asked(r) THEN "asked" ELSE "attempted",
        seen |-> IF Asked(r) THEN ledger ELSE {}]]
  /\ UNCHANGED <<posting, paying, context, upsets>>

\* Right after pay_bill, from the retry button, or by reconcile_bill_card_payments.
Sync(p) == row[p] # None /\ Begin(p, row[p]) /\ UNCHANGED local

\* Then it looks for journals that have to be linked first.
Review(p) ==
  /\ checking[p] # None /\ checking[p].stage = "asked" /\ ~NeedsReview
  /\ checking' = [checking EXCEPT ![p].stage = "reviewed"]
  /\ UNCHANGED <<posting, paying, local, context, upsets>>

\* Any request for any row.
AnyRequest(p, r) == r.method = Card => journal[p] # "unclear"
\* An attempted component is only sent as it was; an unclear journal is not replaced.
Sendable(p, r) ==
  /\ r.method = Card => journal[p] # "unclear"
  /\ record[<<p, r.method>>] # None => record[<<p, r.method>>].body = Body(p, r)

\* The request is built from the row, and leaves.
Send(p) ==
  LET r == checking[p].row IN
  /\ checking[p] # None /\ checking[p].stage # "asked" /\ Sendable(p, r)
  /\ checking' = [checking EXCEPT ![p] = None]
  /\ sending' = [sending EXCEPT ![p] = [row |-> r, body |-> Body(p, r)]]
  /\ wire' = wire \cup {<<<<p, r.method>>, Body(p, r)>>}
  /\ UNCHANGED <<record, ledger, lost, paying, local, context, upsets>>

\* A check refuses the payment, or the process dies before the request leaves; the
\* transaction is rolled back, with what a form had saved.
Drop(p) ==
  /\ checking[p] # None
  /\ checking' = [checking EXCEPT ![p] = None]
  /\ UNCHANGED <<posting, paying, local, context, upsets>>

\* LedgerOS takes a payment up to the bill's balance, and links a journal once.
Book ==
  /\ \E j \in wire \ ledger :
       /\ j[2].amount <= Balance
       /\ j[2].existing => \A i \in ledger : i[1] # j[1]
       /\ ledger' = ledger \cup {j}
  /\ UNCHANGED <<record, sending, wire, lost, paying, checking, local, context, upsets>>

Answered(p, outcome, status) ==
  LET r == sending[p].row IN
  /\ record' = [record EXCEPT ![<<p, r.method>>] = [status |-> outcome, body |-> sending[p].body]]
  /\ row' = [row EXCEPT ![p] = [r EXCEPT !.status = status, !.record = r.method]]
  /\ sending' = [sending EXCEPT ![p] = None]
  /\ UNCHANGED <<wire, ledger, lost, paying, checking, forms, context, upsets>>

\* Any answer taken as a confirmation.
AnyAnswer(p) == Waiting(p) /\ Answered(p, "succeeded", "posted")
\* LedgerOS answers with the posted journal entry of a payment it has booked.
SyncConfirmed(p) ==
  /\ Waiting(p) /\ <<<<p, sending[p].row.method>>, sending[p].body>> \in ledger
  /\ Answered(p, "succeeded", "posted")

\* A refusal, an error response or a timeout.
SyncFailed(p) == Waiting(p) /\ Answered(p, "failed", "ready_to_sync")

\* The request dies and its transaction is rolled back, with what a form had saved.
Crash(p) ==
  /\ Waiting(p) /\ Upset
  /\ lost' = IF record[<<p, sending[p].row.method>>] = None
               THEN lost \cup {<<p, sending[p].row.method>>} ELSE lost
  /\ sending' = [sending EXCEPT ![p] = None]
  /\ UNCHANGED <<record, wire, ledger, paying, checking, local, context>>
-----------------------------------------------------------------------------
\* The form of VendorPaymentUpdateView.

\* A lock on the fields of payments in LedgerOS only.
EditableUntilSettled(r) == r.record \in {None, Legacy}
\* is_editable_after_sync of the row as read.
Editable(r) == r.record = None

LoadForm(p, amount, method) ==
  /\ row[p] # None
  /\ Upset
  /\ Editable(row[p]) \/ (amount = row[p].amount /\ method = row[p].method)
  /\ forms' = [forms EXCEPT ![p] = @ \cup
       {[row |-> [row[p] EXCEPT !.amount = amount, !.method = method],
         settled |-> Settled(p, row[p])]}]
  /\ UNCHANGED <<row, posting, paying, checking, context>>

\* A payment that cannot be settled is a draft again, unless it was posted.
Unsent(r) == IF Blocked(r) /\ r.status # "posted" THEN [r EXCEPT !.status = "draft"] ELSE r

\* save_and_sync_payment writes the form's row; it has nothing to send.
SaveForm(p, f) ==
  /\ ~Locked(p) /\ approved
  /\ f.settled \/ Blocked(f.row) \/ Settled(p, f.row)
  /\ row' = [row EXCEPT ![p] = IF f.settled THEN f.row ELSE Unsent(f.row)]
  /\ forms' = [forms EXCEPT ![p] = @ \ {f}]
  /\ UNCHANGED <<posting, paying, checking, context, upsets>>

\* It writes the form's row and goes on to send it, in one transaction.
SaveAndSync(p, f) ==
  /\ approved /\ ~f.settled /\ Begin(p, f.row)
  /\ forms' = [forms EXCEPT ![p] = @ \ {f}]
  /\ UNCHANGED row
-----------------------------------------------------------------------------
\* The bill of an earlier release is approved; a posted bill's details, and so its
\* approval, do not change any more.
ApproveBill ==
  /\ ~approved /\ approved' = TRUE
  /\ UNCHANGED <<posting, paying, checking, local, journal, mapped, account, upsets>>

\* An administrator changes the account mappings.
ChangeAccounts(methods, a) ==
  /\ Upset
  /\ mapped' = methods /\ account' = a
  /\ UNCHANGED <<posting, paying, checking, local, journal, approved>>

\* What an earlier release left of a payment: nothing, a row it never sent, or a card
\* payment with a journal.
LegacyRow(p) ==
  IF journal[p] = "none"
    THEN row[p] \in [amount : Amounts, method : Methods, status : {"draft"}, record : {None}] \cup {None}
    ELSE row[p] \in [amount : Amounts, method : {Card}, record : {Legacy},
                     status : {IF journal[p] = "known" THEN "posted" ELSE "ready_to_sync"}]

\* The journals of the earlier release, and what they come to.
Journals   == {p \in Payments : journal[p] # "none"}
Journalled == SumFunctionOnSet([p \in Journals |-> row[p].amount], Journals)

Init ==
  /\ journal \in [Payments -> {"none", "known", "unclear"}]
  /\ row \in [Payments -> Rows \cup {None}] /\ \A p \in Payments : LegacyRow(p)
  /\ Journalled <= BillAmount
  /\ record = [c \in Component |-> None]
  /\ forms = [p \in Payments |-> {}]
  /\ paying = None
  /\ checking = [p \in Payments |-> None]
  /\ sending = [p \in Payments |-> None]
  /\ wire = {} /\ ledger = {} /\ lost = {}
  /\ approved \in BOOLEAN /\ mapped = Methods /\ account \in Accounts
  /\ upsets = 0

Next ==
  \/ \E p \in Payments, amount \in Amounts, method \in Methods :
       AskToPay(p, amount, method) \/ LoadForm(p, amount, method)
  \/ Pay \/ DropPay
  \/ \E p \in Payments : Sync(p) \/ Review(p) \/ Send(p) \/ Drop(p)
  \/ \E p \in Payments : SyncConfirmed(p) \/ SyncFailed(p) \/ Crash(p)
  \/ \E p \in Payments : \E f \in forms[p] : SaveForm(p, f) \/ SaveAndSync(p, f)
  \/ Book \/ ApproveBill
  \/ \E methods \in SUBSET Methods, a \in Accounts : ChangeAccounts(methods, a)

Spec == Init /\ [][Next]_vars
-----------------------------------------------------------------------------
\* The types of the variables.
TypeOK ==
  /\ row \in [Payments -> Rows \cup {None}]
  /\ journal \in [Payments -> {"none", "known", "unclear"}]
  /\ record \in [Component -> Records \cup {None}]
  /\ forms \in [Payments -> SUBSET Forms]
  /\ paying \in Orders \cup {None}
  /\ checking \in [Payments -> Checks \cup {None}]
  /\ sending \in [Payments -> Sends \cup {None}]
  /\ wire \subseteq Requests /\ ledger \subseteq wire
  /\ lost \subseteq Component
  /\ approved \in BOOLEAN
  /\ mapped \subseteq Methods /\ account \in Accounts
  /\ upsets \in Nat

\* A payment that shows as posted was booked in LedgerOS with the amount and from the
\* account it shows, whatever forms were saved over it.
PostedIsBooked ==
  \A p \in Payments :
    row[p] # None /\ row[p].status = "posted" /\ row[p].record # Legacy =>
      \E j \in ledger : j[1] = <<p, row[p].method>> /\ j[2].amount = row[p].amount

\* The journals of the earlier release and the payments booked since never come to more
\* than the bill, though LedgerOS does not count a journal before it is linked.
BillNotPaidTwice ==
  Applied({j \in ledger : journal[j[1][1]] = "none"}) + Journalled <= BillAmount

\* A card payment of the earlier release is linked, never paid once more.
JournalNotReplaced ==
  \A j \in wire : journal[j[1][1]] # "none" => j[2].existing

\* However long ago the payment was saved, a request under a new key leaves only for an
\* approved bill, and within the balance LedgerOS gave under this row's lock; if it is short
\* of that by now, other payments were booked since.  The link of a journal needs neither.
NewRequestChecked ==
  [][\A j \in wire' \ wire :
       \/ j[2].existing
       \/ LET check == checking[j[1][1]] IN
          /\ approved /\ check.stage = "reviewed"
          /\ check.seen \subseteq ledger /\ j[2].amount <= Unpaid(check.seen)]_vars

\* A payment is sent with one body for each way to pay, unless a request died.
SentOnceUnlessLost ==
  \A i \in wire, j \in wire : i[1] = j[1] => i = j \/ i[1] \in lost
-----------------------------------------------------------------------------
\* Why the safety properties hold.

\* A row, being checked, on its way or in a form too, points to the record of its attempt,
\* which has its amount; rows that point to no record are drafts.
RowConsistent(p, r) ==
  /\ journal[p] # "none" => r.method = Card /\ r.record # None
  /\ r.record = Legacy => journal[p] # "none"
  /\ r.record = None => r.status = "draft"
  /\ r.record \in Methods =>
       /\ r.method = r.record /\ record[<<p, r.record>>] # None
       /\ record[<<p, r.record>>].body.amount = r.amount
  /\ r.record \in Methods /\ r.status = "posted" =>
       <<<<p, r.record>>, record[<<p, r.record>>].body>> \in ledger

\* One transaction at a time holds the row's lock.
RowsConsistent ==
  \A p \in Payments :
    /\ row[p] # None => RowConsistent(p, row[p])
    /\ journal[p] # "none" => row[p] # None
    /\ \A f \in forms[p] : row[p] # None /\ RowConsistent(p, f.row)
    /\ paying # None /\ paying.payment = p => row[p] = None
    /\ checking[p] # None =>
         sending[p] = None /\ row[p] # None /\ RowConsistent(p, checking[p].row)
    /\ sending[p] # None => row[p] # None /\ RowConsistent(p, sending[p].row)

\* What is on file and what is unanswered was sent, and is one request.
OnFile ==
  /\ \A c \in Component :
       /\ record[c] # None => <<c, record[c].body>> \in wire
       /\ Confirmed(c) => <<c, record[c].body>> \in ledger
  /\ \A p \in Payments : sending[p] # None =>
       LET c == <<p, sending[p].row.method>> IN
       /\ <<c, sending[p].body>> \in wire
       /\ sending[p].body.amount = sending[p].row.amount
       /\ record[c] # None => record[c].body = sending[p].body
  /\ \A j \in wire :
       \/ j[1] \in lost
       \/ record[j[1]] # None /\ record[j[1]].body = j[2]
       \/ /\ sending[j[1][1]] # None
          /\ j = <<<<j[1][1], sending[j[1][1]].row.method>>, sending[j[1][1]].body>>

\* Rows, forms, requests and sync records agree.
Aligned == RowsConsistent /\ OnFile

\* The amount of a journal is not edited, in the row, a form, or on its way.
JournalAmounts ==
  \A p \in Journals :
    /\ \A f \in forms[p] : f.row.amount = row[p].amount
    /\ checking[p] # None => checking[p].row.amount = row[p].amount
    /\ sending[p] # None => sending[p].row.amount = row[p].amount

\* LedgerOS has linked all the journals.
AllLinked ==
  \A p \in Journals : \E j \in ledger : j[1] = <<p, Card>> /\ j[2].amount = row[p].amount
\* It has before a payment without a journal is found good to be sent.
LinkedFirst ==
  \/ \E j \in wire : journal[j[1][1]] = "none"
  \/ \E p \in Payments : checking[p] # None /\ checking[p].stage = "reviewed"
  => AllLinked

\* A row that was never attempted goes on only with what LedgerOS said, which was true then.
AskedFirst ==
  \A p \in Payments : checking[p] # None =>
    \/ checking[p].stage = "attempted" /\ checking[p].row.record # None
    \/ /\ checking[p].stage # "attempted" /\ approved /\ checking[p].seen \subseteq ledger
       /\ checking[p].row.amount <= Unpaid(checking[p].seen)

\* Neither what LedgerOS counts nor the journals come to more than the bill.
WithinBill == IsFiniteSet(ledger) /\ Applied(ledger) <= BillAmount /\ Journalled <= BillAmount

\* The inductive invariant of the payments.
Consistent == Aligned /\ JournalAmounts /\ LinkedFirst /\ AskedFirst /\ WithinBill
-----------------------------------------------------------------------------
\* The payments are posted idempotently, see IdempotentPosting, for each way to pay.
PaymentPosting == INSTANCE IdempotentPosting WITH
  sent <- wire, booked <- ledger,
  settled <- [c \in Component |-> IF record[c] = None THEN None ELSE record[c].body],
  confirmed <- {c \in Component : Confirmed(c)}
PostsIdempotently == PaymentPosting!PostingSpec
=============================================================================
