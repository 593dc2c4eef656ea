--------------------------- MODULE DirectPosting ---------------------------
(***************************************************************************)
(* The records that are posted to LedgerOS by the request that saves them, *)
(* without an approval: a debt service payment, an owner's contribution or *)
(* distribution, a tenant's invoice, a security deposit event, a vendor.   *)
(* One record, of any kind, and the requests that edit and post it.  A     *)
(* request reads the row, may wait for its lock, and then writes columns   *)
(* that it read or that the user typed.  The posting holds the row's lock  *)
(* while LedgerOS is called, and commits the row and its sync record when  *)
(* the call is answered.                                                   *)
(***************************************************************************)
EXTENDS Integers, FiniteSets

CONSTANTS
  Workers,        \* requests that are handled at the same time
  Cores, Notes,   \* values of the fields that describe the transaction, and of its text
  Accounts,       \* values of the account mappings
  None,
  MaxRequests,    \* bound on requests
  MaxRemaps,      \* bound on changes of the mappings
  MaxCrashes      \* bound on requests that die in a call

ASSUME PostingAssumption ==
  /\ 0 \notin Notes \cup Accounts
  /\ MaxRequests \in Nat /\ MaxRemaps \in Nat /\ MaxCrashes \in Nat

VARIABLES
  kind,       \* what the record is; never changes
  row,        \* the committed row; frozen is a deposit's frozen_request_payload
  record,     \* its committed sync record (of its event type, where the kind has types), to
              \* which the row may have lost the pointer
  worker,     \* by worker: its phase, the row and the sync record it holds
  sent,       \* every request sent, with its key
  booked,     \* the keys under which LedgerOS has booked a request
  account,    \* the mapped accounts; None when a mapping is not valid
  lost,       \* a request died in a call, and what it was about to commit with it
  stale,      \* a row was written by a request that read it before it last changed
  skipped,    \* a vendor was saved while its mapping was not valid
  requests, remaps, crashes

data   == <<row, record>>
outer  == <<sent, booked>>
ghosts == <<lost, stale, skipped>>
bounds == <<requests, remaps, crashes>>
vars   == <<kind, data, worker, outer, account, ghosts, bounds>>
-----------------------------------------------------------------------------
Kinds    == {"debt", "owner", "charge", "deposit", "vendor"}
\* An invoice's approved and sync_pending are "ready" and its synced is "posted"; "failed" is
\* sync_failed.  A vendor has no status.
Statuses == {"draft", "ready", "posted", "failed", "voided"}
\* Request bodies; 0 for what the request of this kind does not contain.
Bodies   == Cores \X (Notes \cup {0}) \X (Accounts \cup {0})
Rows     == [core : Cores, note : Notes, status : Statuses, linked : BOOLEAN,
             frozen : Bodies \cup {None}]
Records  == [status : {"failed", "succeeded"}, key : Bodies]

ASSUME PostingNone == None \notin Accounts \cup Bodies \cup Rows \cup Records

Succeeded(rec) == rec # None /\ rec.status = "succeeded"

\* The sync record that the row points to.
Seen == IF row.linked THEN record ELSE None

\* An attempt holds the row's lock.
Locked == \E w \in Workers : worker[w].phase = "sending"

Idle              == [phase |-> "idle", row |-> None, record |-> None]
Enter(w, p, r, s) == worker' = [worker EXCEPT ![w] = [phase |-> p, row |-> r, record |-> s]]
Leave(w)          == worker' = [worker EXCEPT ![w] = Idle]

\* What the request writes it read before the row or its record changed.
Mark(w) == stale' = (stale \/ worker[w].row # row \/ worker[w].record # Seen)
-----------------------------------------------------------------------------
\* The request built from a row now (the five payload builders).
Body(r) == <<r.core, IF kind = "vendor" THEN 0 ELSE r.note, account>>

\* Built from the same payload, but for an invoice, whose account is not hashed.
KeyOf(r) == IF kind = "charge" THEN <<r.core, r.note, 0>> ELSE Body(r)

\* A row that keeps its earlier status unless the answer is a success.
StagedLink(r) == [r EXCEPT !.linked = TRUE]
\* What is to be committed beside the answer.
Staged(r)     ==
  [r EXCEPT !.linked = TRUE, !.status = IF kind = "vendor" THEN @ ELSE "ready"]

\* The request leaves, under a key, with r to be committed when it is answered.
Begin(w, r, key, body) ==
  /\ ~Locked
  /\ Enter(w, "sending", Staged(r), [status |-> "failed", key |-> key])
  /\ sent' = sent \cup {[key |-> key, body |-> body]}
  /\ Mark(w)
  /\ UNCHANGED <<data, booked, lost, skipped>>

\* The row is committed, and nothing is sent.
Commit(w, r) ==
  /\ ~Locked
  /\ row' = r
  /\ Mark(w)
  /\ UNCHANGED <<record, outer, lost>>
-----------------------------------------------------------------------------
\* The forms leave the fields of the transaction open: until LedgerOS confirmed it, until
\* the first attempt of a deposit, while an invoice is not synced, of a vendor always.
Editable(page) ==
  CASE kind \in {"debt", "owner"} -> ~Succeeded(page.record)
    [] kind = "charge"            -> page.row.status # "posted"
    [] kind = "deposit"           -> page.record = None
    [] kind = "vendor"            -> TRUE

\* The row as a form fills it in; only two of the forms have the status.  An invoice saved
\* as sync_pending or sync_failed goes on like a draft.
Typed(page) ==
  LET open == Editable(page) IN
  [core : IF open THEN Cores ELSE {page.row.core}, note : Notes,
   status : IF open /\ kind \in {"owner", "charge"}
            THEN {"draft", "ready", "posted", "voided"} ELSE {page.row.status},
   linked : {page.row.linked}, frozen : {page.row.frozen}]

\* A test of the typed status alone.
GoesByStatus(page, r) == kind # "deposit" /\ r.status \in {"ready", "posted"}
\* The view goes on to post what the form saved.
Goes(page, r) ==
  \/ kind = "owner"  /\ r.status \in {"ready", "posted"} /\ ~Succeeded(page.record)
  \/ kind = "charge" /\ r.status = "ready"

\* form.save in its own transaction: every column is written, from the form or as it was read.
SaveForm(w) ==
  /\ worker[w].phase = "loaded"
  /\ \E r \in Typed(worker[w]) :
       /\ Commit(w, r)
       /\ IF Goes(worker[w], r) THEN Enter(w, "syncing", r, worker[w].record) ELSE Leave(w)
  /\ UNCHANGED <<skipped, account, bounds>>

SaveActivity(w) == kind = "owner" /\ SaveForm(w)
SaveInvoice(w)  == kind = "charge" /\ SaveForm(w)
SaveDeposit(w)  == kind = "deposit" /\ SaveForm(w)

\* A vendor that is not compared with what was sent.
DoneOnce(page, r) == Succeeded(page.record)
\* Confirmed already: a debt payment for good, as its form read it (no page voids one); a
\* vendor as it is now, with the record read under the lock.
Done(page, r) ==
  \/ kind = "debt" /\ Succeeded(page.record)
  \/ kind = "vendor" /\ r.linked /\ Succeeded(record) /\ record.key = KeyOf(r)

\* A debt payment that cannot be sent becomes a draft.
Undone(r) ==
  IF kind = "debt" /\ r.status # "posted" THEN [r EXCEPT !.status = "draft"] ELSE r

\* save_and_sync_payment, save_and_sync_vendor: the save and the posting are one transaction.
SaveAndSync(w) ==
  /\ worker[w].phase = "loaded"
  /\ \E r \in Typed(worker[w]) :
       \/ Done(worker[w], r) /\ Commit(w, r) /\ Leave(w) /\ UNCHANGED skipped
       \/ /\ ~Done(worker[w], r) /\ account = None
          /\ Commit(w, Undone(r)) /\ Leave(w)
          /\ skipped' = (kind = "vendor" \/ skipped)
       \/ ~Done(worker[w], r) /\ account # None /\ Begin(w, r, KeyOf(r), Body(r))
  /\ UNCHANGED <<account, bounds>>

SaveDebt(w)   == kind = "debt" /\ SaveAndSync(w)
SaveVendor(w) == kind = "vendor" /\ SaveAndSync(w)
-----------------------------------------------------------------------------
\* sync_payment of a debt payment, whatever its status: the request is built again.
SyncDebt(w) ==
  /\ account # None
  /\ Begin(w, row, KeyOf(worker[w].row), Body(worker[w].row))
  /\ UNCHANGED <<account, bounds>>

\* The sync button of the payment's page.
PressDebt(w) == kind = "debt" /\ worker[w].phase = "loaded" /\ SyncDebt(w)

\* sync_activity, of the row as the form saved it.
SyncOwner(w) ==
  /\ worker[w].phase = "syncing" /\ kind = "owner" /\ account # None
  /\ Begin(w, row, KeyOf(worker[w].row), Body(worker[w].row))
  /\ UNCHANGED <<account, bounds>>

\* The key that a rebuilt record would have.
RebuiltKey(r) == {KeyOf(r)}
\* The key of an invoice is set when its record is created; a second record is refused.
ChargeKey(r) ==
  IF r.linked THEN {record.key} ELSE IF record = None THEN {KeyOf(r)} ELSE {}

\* approve_charge: the whole row is written again.  Without the account there is no request,
\* and the attempt has failed.
ApproveCharge(w) ==
  /\ \E key \in ChargeKey(worker[w].row) :
       \/ account # None /\ Begin(w, worker[w].row, key, Body(worker[w].row))
       \/ /\ account = None /\ ~Locked
          /\ row' = [Staged(worker[w].row) EXCEPT !.status = "failed"]
          /\ record' = [status |-> "failed", key |-> key]
          /\ Mark(w) /\ Leave(w)
          /\ UNCHANGED <<outer, lost, skipped>>
  /\ UNCHANGED <<account, bounds>>

\* After the form was saved as approved, or from the list of invoices.
ApproveSaved(w)    == kind = "charge" /\ worker[w].phase = "syncing" /\ ApproveCharge(w)
ApproveSelected(w) ==
  /\ kind = "charge" /\ worker[w].phase = "loaded"
  /\ worker[w].row.status \notin {"posted", "voided"}
  /\ ApproveCharge(w)

\* Whatever the row says now.
AnyBody(page)    == {Body(page.row)}
\* A deposit is only sent as it was frozen.
DepositBody(page) ==
  {b \in {Body(page.row)} : /\ page.row.frozen \in {None, b}
                            /\ page.record # None => page.record.key = b}

\* sync_security_deposit_event, of the row as the page read it.
SyncDeposit(w) ==
  /\ account # None
  /\ ~Succeeded(worker[w].record)
  /\ \E b \in DepositBody(worker[w]) :
       Begin(w, [row EXCEPT !.frozen = IF worker[w].row.frozen = None THEN b ELSE @],
             IF worker[w].record = None THEN b ELSE worker[w].record.key, b)
  /\ UNCHANGED <<account, bounds>>

\* The sync button of the event's page.
PressDeposit(w) == kind = "deposit" /\ worker[w].phase = "loaded" /\ SyncDeposit(w)
-----------------------------------------------------------------------------
\* LedgerOS books a request once under its key, at any time after it was sent.
Book(s) ==
  /\ s.key \notin booked
  /\ booked' = booked \cup {s.key}
  /\ UNCHANGED <<kind, data, worker, sent, account, ghosts, bounds>>

\* The statuses of an invoice, written into a record of any kind.
AnsweredAlike(r, ok) == [r EXCEPT !.status = IF ok THEN "synced" ELSE "sync_failed"]
\* After a failure only an invoice gets a status; the others keep the one they were sent with.
Answered(r, ok) ==
  [r EXCEPT !.status = CASE kind = "vendor"       -> @
                         [] ok /\ kind # "vendor"  -> "posted"
                         [] ~ok /\ kind = "charge" -> "failed"
                         [] OTHER -> @]

\* The call succeeds, also for a key that was booked before; or it is refused or not answered
\* in time, whether LedgerOS books it or not.
Answer(w, ok) ==
  /\ worker[w].phase = "sending"
  /\ ok => worker[w].record.key \in booked
  /\ row' = Answered(worker[w].row, ok)
  /\ record' = [worker[w].record EXCEPT !.status = IF ok THEN "succeeded" ELSE "failed"]
  /\ Leave(w)
  /\ UNCHANGED <<kind, outer, account, ghosts, bounds>>

\* The worker dies in the call: its transaction is rolled back.
Die(w) ==
  /\ worker[w].phase = "sending" /\ crashes < MaxCrashes
  /\ Leave(w) /\ lost' = TRUE /\ crashes' = crashes + 1
  /\ UNCHANGED <<kind, data, outer, account, stale, skipped, requests, remaps>>

\* A request reads the row.
Load(w) ==
  /\ worker[w].phase = "idle" /\ requests < MaxRequests
  /\ Enter(w, "loaded", row, Seen) /\ requests' = requests + 1
  /\ UNCHANGED <<data, outer, account, ghosts, remaps, crashes>>

\* The form is not valid, LedgerOS is not ready, the record exists, or a deadlock is broken.
Refuse(w) ==
  /\ worker[w].phase \in {"loaded", "syncing"}
  /\ Leave(w)
  /\ UNCHANGED <<data, outer, account, ghosts, bounds>>

\* An invoice or an owner's record is archived: the status column alone is written.
Archive ==
  /\ ~Locked /\ requests < MaxRequests
  /\ row' = [row EXCEPT !.status = "voided"] /\ requests' = requests + 1
  /\ UNCHANGED <<kind, record, worker, outer, account, ghosts, remaps, crashes>>
ArchiveInvoice  == kind = "charge" /\ Archive
ArchiveActivity == kind = "owner" /\ Archive

\* An account mapping is edited, cleared or restored in the setup.
Remap(a) ==
  /\ remaps < MaxRemaps /\ a # account
  /\ account' = a /\ remaps' = remaps + 1
  /\ UNCHANGED <<kind, data, worker, outer, ghosts, requests, crashes>>
-----------------------------------------------------------------------------
\* A new record is saved as a draft, or by its own form, before anybody can load it.
Init ==
  /\ kind \in Kinds
  /\ row \in [core : Cores, note : Notes, status : {"draft"}, linked : {FALSE}, frozen : {None}]
  /\ record = None
  /\ worker = [w \in Workers |-> Idle]
  /\ sent = {} /\ booked = {}
  /\ account \in Accounts \cup {None}
  /\ lost = FALSE /\ stale = FALSE /\ skipped = FALSE
  /\ requests = 0 /\ remaps = 0 /\ crashes = 0

Step(w) ==
  /\ \/ Load(w) \/ Refuse(w)
     \/ SaveActivity(w) \/ SaveInvoice(w) \/ SaveDeposit(w) \/ SaveDebt(w) \/ SaveVendor(w)
     \/ PressDebt(w) \/ PressDeposit(w) \/ SyncOwner(w)
     \/ ApproveSaved(w) \/ ApproveSelected(w)
  /\ UNCHANGED kind

Next ==
  \/ \E w \in Workers : Step(w) \/ Die(w) \/ (\E ok \in BOOLEAN : Answer(w, ok))
  \/ \E s \in sent : Book(s)
  \/ ArchiveInvoice \/ ArchiveActivity
  \/ \E a \in Accounts \cup {None} : Remap(a)

Spec == Init /\ [][Next]_vars
-----------------------------------------------------------------------------
\* The row, the sync record, the requests in progress and what was sent are of their types.
TypeOK ==
  /\ kind \in Kinds /\ row \in Rows /\ record \in Records \cup {None}
  /\ worker \in [Workers -> [phase : {"idle", "loaded", "syncing", "sending"},
                             row : Rows \cup {None}, record : Records \cup {None}]]
  /\ \A w \in Workers : worker[w].phase = "idle" <=> worker[w].row = None
  /\ sent \subseteq [key : Bodies, body : Bodies] /\ booked \subseteq {s.key : s \in sent}
  /\ account \in Accounts \cup {None}
  /\ lost \in BOOLEAN /\ stale \in BOOLEAN /\ skipped \in BOOLEAN
  /\ requests \in 0..MaxRequests /\ remaps \in 0..MaxRemaps /\ crashes \in 0..MaxCrashes

Keys == {s.key : s \in sent}

\* An invoice is sent under one key, whatever is edited, archived or approved meanwhile and by
\* requests of any age, unless a worker died in the attempt that created its sync record
\* (approve_charge: the key is never built again, and a second record is refused).
InvoiceOneKey == (kind = "charge" /\ ~lost) => Cardinality(Keys) <= 1

\* A deposit event is sent in one request under one key, through edits and changes of the
\* accounts, unless a worker died or a form was saved over an attempt it had not seen
\* (sync_security_deposit_event, frozen_request_payload).
DepositSentOnce == (kind = "deposit" /\ ~lost /\ ~stale) => Cardinality(sent) <= 1

\* Owner activity and deposits that LedgerOS confirmed are not sent again by an edit, an
\* archived record or a retry that saw the confirmation (is_editable_after_sync).
ConfirmedNotResent ==
  [][\A w \in Workers :
       (/\ kind \in {"owner", "deposit"} /\ Succeeded(record)
        /\ worker[w].phase # "sending" /\ worker[w].phase' = "sending") => stale']_vars

\* A vendor whose sync record is confirmed was confirmed with the fields it has now, unless it
\* was edited while its mapping was not valid (save_and_sync_vendor).
VendorCurrent ==
  (kind = "vendor" /\ ~skipped /\ Succeeded(Seen)) => Seen.key[1] = row.core

\* The status of a debt payment or deposit says posted exactly while its sync record says
\* that LedgerOS confirmed it, also after a retry that failed.
StatusTellsRecord ==
  (kind \in {"debt", "deposit"} /\ ~stale) => (row.status = "posted" <=> Succeeded(Seen))

\* A debt payment is booked under one key, when no worker died and no request was late:
\* "retries must reuse the same idempotency key" (docs/technical-manual.md:71).
DebtBookedOnce == (kind = "debt" /\ ~lost /\ ~stale) => Cardinality(booked) <= 1
============================================================================
