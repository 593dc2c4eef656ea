------------------------ MODULE DirectPostingProofs ------------------------
(***************************************************************************)
(* Proofs about DirectPosting: types, the inductive invariant, and what    *)
(* each kind of record keeps of it: an invoice its key, a deposit event    *)
(* its request, a vendor its fields, a payment its status, and owner       *)
(* activity that was confirmed is not sent again.                          *)
(***************************************************************************)
EXTENDS DirectPosting, FiniteSetTheorems, TLAPS

Sending(w) == worker[w].phase = "sending"
Acting(w)  == worker[w].phase \in {"loaded", "syncing"}

\* The row's lock has one holder.
OneSender == \A v, w \in Workers : Sending(v) /\ Sending(w) => v = w

\* A row, committed, read or about to be committed, points to a sync record only if there is
\* one, and loses the pointer only to a request that was late.
RecordKept ==
  /\ row.linked => record # None
  /\ (record # None /\ ~stale) => row.linked
  /\ \A w \in Workers : (Acting(w) /\ worker[w].row.linked) => record # None
  /\ \A w \in Workers :
       Sending(w) => /\ worker[w].record # None /\ worker[w].row.linked
                     /\ kind # "vendor" => worker[w].row.status = "ready"

\* What was sent of an invoice has the key of its sync record, or of the first attempt.
InvoiceKeys ==
  kind = "charge" =>
    /\ \A w \in Workers :
         (Sending(w) /\ record # None) => worker[w].record.key = record.key
    /\ \A s \in sent :
         ~lost => \/ record # None /\ s.key = record.key
                  \/ \E w \in Workers : Sending(w) /\ s.key = worker[w].record.key

\* What was sent of a deposit event is frozen in its row, or is about to be.
DepositFrozen ==
  (kind = "deposit" /\ ~lost /\ ~stale) =>
    /\ \A s \in sent :
         /\ s.key = s.body
         /\ \/ row.frozen = s.key
            \/ \E w \in Workers : Sending(w) /\ worker[w].row.frozen = s.key
    /\ \A w \in Workers :
         Sending(w) => row.frozen \in {None, worker[w].row.frozen}

\* A form that goes on to post saw no confirmation.
OpenWhenSaved ==
  \A w \in Workers :
    worker[w].phase = "syncing" =>
      /\ kind \in {"owner", "charge"}
      /\ kind = "owner" => ~Succeeded(worker[w].record)

\* A vendor is sent with the fields that will be committed.
VendorSent ==
  kind = "vendor" =>
    \A w \in Workers : Sending(w) => worker[w].record.key[1] = worker[w].row.core

Consistent ==
  /\ OneSender /\ RecordKept /\ InvoiceKeys /\ DepositFrozen /\ OpenWhenSaved
  /\ VendorSent /\ VendorCurrent /\ StatusTellsRecord

IInv == TypeOK /\ Consistent
-----------------------------------------------------------------------------
\* The three ways in which a request that read the row acts on it.

\* The request leaves for LedgerOS.
Sends(w) ==
  \E r \in Rows, key \in Bodies, body \in Bodies :
    /\ Acting(w) /\ ~Locked
    /\ worker' = [worker EXCEPT ![w] = [phase |-> "sending", row |-> Staged(r),
                                        record |-> [status |-> "failed", key |-> key]]]
    /\ sent' = sent \cup {[key |-> key, body |-> body]}
    /\ Mark(w)
    /\ UNCHANGED <<kind, data, booked, lost, skipped, account, bounds>>
    /\ kind = "charge" => key \in ChargeKey(worker[w].row)
    /\ kind = "deposit" =>
         /\ key = body /\ worker[w].row.frozen \in {None, body}
         /\ worker[w].row = row => r.frozen = body
         /\ ~Succeeded(worker[w].record)
    /\ kind = "owner" => worker[w].phase = "syncing"
    /\ kind = "vendor" => key[1] = r.core

\* The row is saved, and the request ends or goes on to post it.
Saves(w) ==
  \E r \in Rows, next \in {"idle", "syncing"} :
    /\ Acting(w) /\ ~Locked
    /\ row' = r
    /\ worker' = [worker EXCEPT ![w] =
         IF next = "idle" THEN Idle
         ELSE [phase |-> "syncing", row |-> r, record |-> worker[w].record]]
    /\ Mark(w)
    /\ UNCHANGED <<kind, record, outer, lost, account, bounds>>
    /\ skipped' \in BOOLEAN /\ (skipped => skipped')
    /\ r.linked = worker[w].row.linked /\ r.frozen = worker[w].row.frozen
    /\ next = "syncing" => /\ kind \in {"owner", "charge"}
                           /\ kind = "owner" => ~Succeeded(worker[w].record)
    /\ (kind = "vendor" /\ ~skipped') =>
         r.linked /\ Succeeded(record) /\ record.key[1] = r.core
    /\ kind \in {"debt", "deposit"} =>
         (r.status = "posted" <=> worker[w].row.status = "posted")

\* An invoice cannot be sent, and the attempt has failed.
Fails(w) ==
  \E key \in Bodies :
    /\ kind = "charge" /\ Acting(w) /\ ~Locked
    /\ key \in ChargeKey(worker[w].row)
    /\ row' = [Staged(worker[w].row) EXCEPT !.status = "failed"]
    /\ record' = [status |-> "failed", key |-> key]
    /\ worker' = [worker EXCEPT ![w] = Idle]
    /\ Mark(w)
    /\ UNCHANGED <<kind, outer, lost, skipped, account, bounds>>
-----------------------------------------------------------------------------
\* A request that acts holds a row and perhaps a record.
LEMMA Holds ==
  ASSUME PostingNone, TypeOK, NEW w \in Workers, Acting(w)
  PROVE  worker[w].row \in Rows /\ worker[w].record \in Records \cup {None}
  BY DEF TypeOK, Acting

\* The request built from a row is a body, and its key one too.
LEMMA Built ==
  ASSUME TypeOK, NEW r \in Rows
  PROVE  /\ account # None => Body(r) \in Bodies
         /\ (account # None \/ kind = "charge") => KeyOf(r) \in Bodies
         /\ kind = "vendor" => KeyOf(r)[1] = r.core
  BY DEF TypeOK, Rows, Bodies, Body, KeyOf

\* A row staged for an attempt is a row.
LEMMA StagedRow ==
  ASSUME NEW r \in Rows
  PROVE  /\ Staged(r) \in Rows /\ Staged(r).linked
         /\ Staged(r).core = r.core /\ Staged(r).frozen = r.frozen
         /\ kind # "vendor" => Staged(r).status = "ready"
  BY DEF Rows, Staged, Statuses

\* What the forms leave of a row.
LEMMA TypedRow ==
  ASSUME NEW page, page.row \in Rows, NEW r \in Typed(page)
  PROVE  /\ r \in Rows /\ r.linked = page.row.linked /\ r.frozen = page.row.frozen
         /\ kind \notin {"owner", "charge"} => r.status = page.row.status
  BY DEF Typed, Rows, Statuses


\* Every step of a request reads the row, gives up, or acts in one of the three ways.
LEMMA SaveFormCase ==
  ASSUME PostingNone, TypeOK, NEW w \in Workers, SaveForm(w), UNCHANGED kind,
         kind \in {"owner", "charge", "deposit"}
  PROVE  Saves(w)
  <1>1. Acting(w) /\ worker[w].row \in Rows
    BY Holds DEF SaveForm, Acting
  <1>2. PICK r \in Typed(worker[w]) :
          /\ Commit(w, r)
          /\ IF Goes(worker[w], r) THEN Enter(w, "syncing", r, worker[w].record) ELSE Leave(w)
    BY DEF SaveForm
  <1>3. /\ r \in Rows /\ r.linked = worker[w].row.linked /\ r.frozen = worker[w].row.frozen
        /\ kind = "deposit" => r.status = worker[w].row.status
    BY <1>1, TypedRow
  <1>4. Goes(worker[w], r) =>
          kind \in {"owner", "charge"} /\ (kind = "owner" => ~Succeeded(worker[w].record))
    BY DEF Goes
  <1>5. skipped' \in BOOLEAN /\ (skipped => skipped')
    BY DEF SaveForm, TypeOK
  <1>6. CASE Goes(worker[w], r)
    BY <1>1, <1>2, <1>3, <1>4, <1>5, <1>6 DEF Commit, Enter, Saves, SaveForm
  <1>7. CASE ~Goes(worker[w], r)
    BY <1>1, <1>2, <1>3, <1>5, <1>7 DEF Commit, Leave, Saves, SaveForm
  <1> QED BY <1>6, <1>7

LEMMA SaveAndSyncCase ==
  ASSUME PostingNone, TypeOK, NEW w \in Workers, SaveAndSync(w), UNCHANGED kind,
         kind \in {"debt", "vendor"}
  PROVE  Saves(w) \/ Sends(w)
  <1>1. Acting(w) /\ worker[w].row \in Rows
    BY Holds DEF SaveAndSync, Acting
  <1>2. PICK r \in Typed(worker[w]) :
          \/ Done(worker[w], r) /\ Commit(w, r) /\ Leave(w) /\ UNCHANGED skipped
          \/ /\ ~Done(worker[w], r) /\ account = None
             /\ Commit(w, Undone(r)) /\ Leave(w)
             /\ skipped' = (kind = "vendor" \/ skipped)
          \/ ~Done(worker[w], r) /\ account # None /\ Begin(w, r, KeyOf(r), Body(r))
    BY DEF SaveAndSync
  <1>3. /\ r \in Rows /\ r.linked = worker[w].row.linked /\ r.frozen = worker[w].row.frozen
        /\ r.status = worker[w].row.status
    BY <1>1, TypedRow
  <1>4. UNCHANGED <<account, bounds>> /\ skipped \in BOOLEAN
    BY DEF SaveAndSync, TypeOK
  <1>5. CASE Done(worker[w], r) /\ Commit(w, r) /\ Leave(w) /\ UNCHANGED skipped
    <2>1. kind = "vendor" => r.linked /\ Succeeded(record) /\ record.key[1] = r.core
      BY <1>3, <1>5, Built DEF Done
    <2> QED BY <1>1, <1>3, <1>4, <1>5, <2>1 DEF Commit, Leave, Saves
  <1>6. CASE /\ ~Done(worker[w], r) /\ account = None
             /\ Commit(w, Undone(r)) /\ Leave(w)
             /\ skipped' = (kind = "vendor" \/ skipped)
    <2>1. /\ Undone(r) \in Rows /\ Undone(r).linked = r.linked /\ Undone(r).frozen = r.frozen
          /\ Undone(r).status = "posted" <=> r.status = "posted"
      BY <1>3 DEF Undone, Rows, Statuses
    <2> QED BY <1>1, <1>3, <1>4, <1>6, <2>1 DEF Commit, Leave, Saves
  <1>7. CASE account # None /\ Begin(w, r, KeyOf(r), Body(r))
    <2>1. KeyOf(r) \in Bodies /\ Body(r) \in Bodies /\ (kind = "vendor" => KeyOf(r)[1] = r.core)
      BY <1>3, <1>7, Built
    <2> QED BY <1>1, <1>3, <1>4, <1>7, <2>1 DEF Begin, Enter, Sends
  <1> QED BY <1>2, <1>5, <1>6, <1>7

LEMMA SyncCase ==
  ASSUME PostingNone, TypeOK, NEW w \in Workers, UNCHANGED kind,
         PressDebt(w) \/ SyncOwner(w)
  PROVE  Sends(w)
  <1>1. Acting(w) /\ worker[w].row \in Rows /\ row \in Rows
    BY Holds DEF PressDebt, SyncOwner, Acting, TypeOK
  <1>2. /\ account # None /\ UNCHANGED <<account, bounds>>
        /\ Begin(w, row, KeyOf(worker[w].row), Body(worker[w].row))
    BY DEF PressDebt, SyncDebt, SyncOwner
  <1>3. KeyOf(worker[w].row) \in Bodies /\ Body(worker[w].row) \in Bodies
    BY <1>1, <1>2, Built
  <1>4. kind = "debt" \/ (kind = "owner" /\ worker[w].phase = "syncing")
    BY DEF PressDebt, SyncOwner
  <1> QED BY <1>1, <1>2, <1>3, <1>4 DEF Begin, Enter, Sends

LEMMA ApproveCase ==
  ASSUME PostingNone, TypeOK, RecordKept, NEW w \in Workers, UNCHANGED kind,
         ApproveSaved(w) \/ ApproveSelected(w)
  PROVE  Sends(w) \/ Fails(w)
  <1>1. /\ kind = "charge" /\ Acting(w) /\ worker[w].row \in Rows /\ ApproveCharge(w)
    BY Holds DEF ApproveSaved, ApproveSelected, Acting
  <1>2. PICK key \in ChargeKey(worker[w].row) :
          \/ account # None /\ Begin(w, worker[w].row, key, Body(worker[w].row))
          \/ /\ account = None /\ ~Locked
             /\ row' = [Staged(worker[w].row) EXCEPT !.status = "failed"]
             /\ record' = [status |-> "failed", key |-> key]
             /\ Mark(w) /\ Leave(w)
             /\ UNCHANGED <<outer, lost, skipped>>
    BY <1>1 DEF ApproveCharge
  <1>3. UNCHANGED <<account, bounds>>
    BY <1>1 DEF ApproveCharge
  <1>4. KeyOf(worker[w].row) \in Bodies
    BY <1>1, Built
  <1>7. key \in Bodies
    BY <1>1, <1>2, <1>4 DEF ChargeKey, RecordKept, TypeOK, Records
  <1>5. CASE account # None /\ Begin(w, worker[w].row, key, Body(worker[w].row))
    <2>2. key \in Bodies /\ Body(worker[w].row) \in Bodies
      BY <1>1, <1>5, <1>7, Built
    <2> QED BY <1>1, <1>3, <1>5, <2>2 DEF Begin, Enter, Sends
  <1>6. CASE account = None
    BY <1>1, <1>2, <1>3, <1>6, <1>7 DEF Fails, Leave
  <1> QED BY <1>2, <1>5, <1>6

LEMMA DepositCase ==
  ASSUME PostingNone, TypeOK, NEW w \in Workers, UNCHANGED kind, PressDeposit(w)
  PROVE  Sends(w)
  <1>1. /\ kind = "deposit" /\ Acting(w) /\ worker[w].row \in Rows /\ row \in Rows
        /\ SyncDeposit(w)
    BY Holds DEF PressDeposit, Acting, TypeOK
  <1>2. /\ account # None /\ ~Succeeded(worker[w].record) /\ UNCHANGED <<account, bounds>>
    BY <1>1 DEF SyncDeposit
  <1>3. PICK b \in DepositBody(worker[w]) :
          Begin(w, [row EXCEPT !.frozen = IF worker[w].row.frozen = None THEN b ELSE @],
                IF worker[w].record = None THEN b ELSE worker[w].record.key, b)
    BY <1>1 DEF SyncDeposit
  <1>4. /\ b = Body(worker[w].row) /\ worker[w].row.frozen \in {None, b}
        /\ (IF worker[w].record = None THEN b ELSE worker[w].record.key) = b
    BY DEF DepositBody
  <1>5. b \in Bodies
    BY <1>1, <1>2, <1>4, Built
  <1> DEFINE r == [row EXCEPT !.frozen = IF worker[w].row.frozen = None THEN b ELSE @]
  <1>6. r \in Rows /\ (worker[w].row = row => r.frozen = b)
    BY <1>1, <1>4, <1>5 DEF Rows
  <1>7. Begin(w, r, b, b)
    BY <1>3, <1>4
  <1> HIDE DEF r
  <1> QED BY <1>1, <1>2, <1>4, <1>5, <1>6, <1>7 DEF Begin, Enter, Sends

LEMMA StepCases ==
  ASSUME PostingNone, TypeOK, RecordKept, NEW w \in Workers, Step(w)
  PROVE  \/ (Load(w) \/ Refuse(w)) /\ UNCHANGED kind
         \/ Sends(w) \/ Saves(w) \/ Fails(w)
  <1>1. UNCHANGED kind
    BY DEF Step
  <1>2. CASE SaveActivity(w) \/ SaveInvoice(w) \/ SaveDeposit(w)
    BY <1>1, <1>2, SaveFormCase DEF SaveActivity, SaveInvoice, SaveDeposit
  <1>3. CASE SaveDebt(w) \/ SaveVendor(w)
    BY <1>1, <1>3, SaveAndSyncCase DEF SaveDebt, SaveVendor
  <1> QED BY <1>1, <1>2, <1>3, SyncCase, ApproveCase, DepositCase DEF Step
-----------------------------------------------------------------------------
\* The initial states are consistent.
LEMMA Initially ==
  ASSUME PostingAssumption, PostingNone, Init
  PROVE  IInv
  <1> USE DEF Init
  <1>1. row \in Rows /\ row.status = "draft" /\ ~row.linked
    BY DEF Rows, Statuses
  <1>2. \A w \in Workers : worker[w].phase = "idle"
    BY DEF Idle
  <1>3. TypeOK
    <2>1. worker \in [Workers -> [phase : {"idle", "loaded", "syncing", "sending"},
                                 row : Rows \cup {None}, record : Records \cup {None}]]
      BY DEF Idle
    <2>2. \A w \in Workers : worker[w].phase = "idle" <=> worker[w].row = None
      BY DEF Idle
    <2>3. requests \in 0..MaxRequests /\ remaps \in 0..MaxRemaps /\ crashes \in 0..MaxCrashes
      BY PostingAssumption
    <2> QED BY <1>1, <2>1, <2>2, <2>3 DEF TypeOK
  <1>4. ~Succeeded(Seen)
    BY <1>1 DEF Seen, Succeeded
  <1>5. Consistent
    BY <1>1, <1>2, <1>4 DEF Consistent, OneSender, RecordKept, InvoiceKeys, DepositFrozen,
         OpenWhenSaved, VendorSent, VendorCurrent, StatusTellsRecord, Sending, Acting
  <1> QED BY <1>3, <1>5 DEF IInv

-----------------------------------------------------------------------------
\* Neither archiving, a change of the mappings, a booking, nor reading and giving up disturbs
\* what the invariant says of records and of attempts in flight.
Calm ==
  \/ \E w \in Workers : (Load(w) \/ Refuse(w)) /\ UNCHANGED kind
  \/ ArchiveInvoice \/ ArchiveActivity
  \/ \E s \in sent : Book(s)
  \/ \E a \in Accounts \cup {None} : Remap(a)
  \/ UNCHANGED vars

LEMMA NextCases ==
  ASSUME PostingNone, TypeOK, RecordKept, [Next]_vars
  PROVE  \/ Calm
         \/ \E w \in Workers :
              \/ Sends(w) \/ Saves(w) \/ Fails(w) \/ Die(w)
              \/ \E ok \in BOOLEAN : Answer(w, ok)
  <1>1. ASSUME NEW w \in Workers, Step(w)
        PROVE  Calm \/ Sends(w) \/ Saves(w) \/ Fails(w)
    BY <1>1, StepCases DEF Calm
  <1> QED BY <1>1 DEF Next, Calm

LEMMA CalmSteps ==
  ASSUME TypeOK, Calm
  PROVE  /\ UNCHANGED <<kind, record, sent, lost, stale, skipped>>
         /\ \/ UNCHANGED row
            \/ /\ kind \in {"owner", "charge"} /\ ~Locked
               /\ row' = [row EXCEPT !.status = "voided"] /\ UNCHANGED worker
         /\ \A v \in Workers :
              /\ worker'[v] \in {worker[v], Idle, [phase |-> "loaded", row |-> row, record |-> Seen]}
              /\ Sending(v) => worker'[v] = worker[v]
  <1> USE DEF data, outer, ghosts, bounds, Sending
  <1>1. ASSUME NEW w \in Workers, Load(w) \/ Refuse(w), UNCHANGED kind
        PROVE  /\ UNCHANGED <<kind, row, record, sent, lost, stale, skipped>>
               /\ \A v \in Workers :
                    /\ worker'[v] \in {worker[v], Idle, [phase |-> "loaded", row |-> row, record |-> Seen]}
                    /\ Sending(v) => worker'[v] = worker[v]
    BY <1>1 DEF Load, Refuse, Enter, Leave, TypeOK
  <1>2. CASE ArchiveInvoice \/ ArchiveActivity
    BY <1>2 DEF ArchiveInvoice, ArchiveActivity, Archive
  <1>3. CASE (\E s \in sent : Book(s)) \/ (\E a \in Accounts \cup {None} : Remap(a)) \/ UNCHANGED vars
    BY <1>3 DEF Book, Remap, vars
  <1> QED BY <1>1, <1>2, <1>3 DEF Calm

\* A request that was not late acts on the row and the record as they are.
LEMMA NotLate ==
  ASSUME TypeOK, NEW w \in Workers, Mark(w)
  PROVE  /\ stale' \in BOOLEAN
         /\ ~stale' => ~stale /\ worker[w].row = row /\ worker[w].record = Seen
  BY DEF Mark, TypeOK

\* The answer commits the row and the record that the attempt holds.
LEMMA AnswerEffect ==
  ASSUME TypeOK, RecordKept, NEW w \in Workers, NEW ok \in BOOLEAN, Answer(w, ok)
  PROVE  /\ Sending(w) /\ worker[w].row \in Rows /\ worker[w].record \in Records
         /\ row' \in Rows /\ row'.linked
         /\ row'.core = worker[w].row.core /\ row'.frozen = worker[w].row.frozen
         /\ kind \in {"debt", "deposit"} => (row'.status = "posted" <=> ok)
         /\ record' = [status |-> IF ok THEN "succeeded" ELSE "failed", key |-> worker[w].record.key]
         /\ record' \in Records
         /\ worker' = [worker EXCEPT ![w] = Idle]
         /\ UNCHANGED <<kind, sent, booked, account, lost, stale, skipped, requests, remaps, crashes>>
  <1>1. Sending(w) /\ row' = Answered(worker[w].row, ok) /\ worker' = [worker EXCEPT ![w] = Idle]
    BY DEF Answer, Sending, Leave
  <1>2. worker[w].row \in Rows /\ worker[w].record \in Records /\ worker[w].row.linked
    BY <1>1 DEF TypeOK, RecordKept, Sending
  <1>3. /\ row' \in Rows /\ row'.linked
        /\ row'.core = worker[w].row.core /\ row'.frozen = worker[w].row.frozen
    BY <1>1, <1>2 DEF Answered, Rows, Statuses
  <1>4. kind \in {"debt", "deposit"} => (row'.status = "posted" <=> ok)
    BY <1>1, <1>2 DEF Answered, Rows, RecordKept
  <1>5. /\ record' = [status |-> IF ok THEN "succeeded" ELSE "failed", key |-> worker[w].record.key]
        /\ record' \in Records
    BY <1>2 DEF Answer, Records
  <1> QED BY <1>1, <1>2, <1>3, <1>4, <1>5 DEF Answer, outer, ghosts, bounds
-----------------------------------------------------------------------------
\* A step of the system keeps the types.
LEMMA TypeStep ==
  ASSUME PostingAssumption, PostingNone, IInv, [Next]_vars
  PROVE  TypeOK'
  <1> USE DEF data, outer, ghosts, bounds
  <1>1. TypeOK /\ RecordKept
    BY DEF IInv, Consistent
  <1>2. CASE Calm
    <2>1. ASSUME NEW w \in Workers, Load(w) \/ Refuse(w), UNCHANGED kind
          PROVE  TypeOK'
      <3>1. Seen \in Records \cup {None}
        BY <1>1 DEF TypeOK, Seen
      <3>2. requests' \in 0..MaxRequests
        BY <1>1, <2>1, PostingAssumption DEF Load, Refuse, TypeOK
      <3>3. worker' \in [Workers -> [phase : {"idle", "loaded", "syncing", "sending"},
                                     row : Rows \cup {None}, record : Records \cup {None}]]
        BY <1>1, <2>1, <3>1 DEF Load, Refuse, Enter, Leave, Idle, TypeOK
      <3>4. \A v \in Workers : worker'[v].phase = "idle" <=> worker'[v].row = None
        BY <1>1, <2>1, PostingNone DEF Load, Refuse, Enter, Leave, Idle, TypeOK
      <3> QED BY <1>1, <2>1, <3>2, <3>3, <3>4 DEF Load, Refuse, TypeOK
    <2>2. CASE ArchiveInvoice \/ ArchiveActivity
      <3>1. row' \in Rows /\ requests' \in 0..MaxRequests
        BY <1>1, <2>2, PostingAssumption
           DEF ArchiveInvoice, ArchiveActivity, Archive, TypeOK, Rows, Statuses
      <3> QED BY <1>1, <2>2, <3>1 DEF ArchiveInvoice, ArchiveActivity, Archive, TypeOK
    <2>3. ASSUME NEW s \in sent, Book(s)
          PROVE  TypeOK'
      BY <1>1, <2>3 DEF Book, TypeOK
    <2>4. ASSUME NEW a \in Accounts \cup {None}, Remap(a)
          PROVE  TypeOK'
      BY <1>1, <2>4, PostingAssumption DEF Remap, TypeOK
    <2>5. CASE UNCHANGED vars
      BY <1>1, <2>5 DEF vars, TypeOK
    <2> QED BY <1>2, <2>1, <2>2, <2>3, <2>4, <2>5 DEF Calm
  <1>3. ASSUME NEW w \in Workers, Sends(w)
        PROVE  TypeOK'
    <2>1. PICK r \in Rows, key \in Bodies, body \in Bodies :
            /\ worker' = [worker EXCEPT ![w] = [phase |-> "sending", row |-> Staged(r),
                                                record |-> [status |-> "failed", key |-> key]]]
            /\ sent' = sent \cup {[key |-> key, body |-> body]}
            /\ Mark(w)
            /\ UNCHANGED <<kind, data, booked, lost, skipped, account, bounds>>
      BY <1>3 DEF Sends
    <2>2. Staged(r) \in Rows /\ [status |-> "failed", key |-> key] \in Records
      BY StagedRow DEF Records
    <2>3. worker' \in [Workers -> [phase : {"idle", "loaded", "syncing", "sending"},
                                   row : Rows \cup {None}, record : Records \cup {None}]]
      BY <1>1, <2>1, <2>2 DEF TypeOK
    <2>4. \A v \in Workers : worker'[v].phase = "idle" <=> worker'[v].row = None
      BY <1>1, <2>1, <2>2, PostingNone DEF TypeOK
    <2>5. sent' \subseteq [key : Bodies, body : Bodies] /\ booked' \subseteq {s.key : s \in sent'}
      BY <1>1, <2>1 DEF TypeOK
    <2>6. stale' \in BOOLEAN
      BY <1>1, <2>1, NotLate
    <2> QED BY <1>1, <2>1, <2>3, <2>4, <2>5, <2>6 DEF TypeOK
  <1>4. ASSUME NEW w \in Workers, Saves(w)
        PROVE  TypeOK'
    <2>1. PICK r \in Rows, next \in {"idle", "syncing"} :
            /\ Acting(w)
            /\ row' = r
            /\ worker' = [worker EXCEPT ![w] =
                 IF next = "idle" THEN Idle
                 ELSE [phase |-> "syncing", row |-> r, record |-> worker[w].record]]
            /\ Mark(w)
            /\ UNCHANGED <<kind, record, outer, lost, account, bounds>>
            /\ skipped' \in BOOLEAN
      BY <1>4 DEF Saves
    <2>2. worker' \in [Workers -> [phase : {"idle", "loaded", "syncing", "sending"},
                                   row : Rows \cup {None}, record : Records \cup {None}]]
      BY <1>1, <2>1 DEF TypeOK, Idle
    <2>3. \A v \in Workers : worker'[v].phase = "idle" <=> worker'[v].row = None
      BY <1>1, <2>1, PostingNone DEF TypeOK, Idle
    <2>4. stale' \in BOOLEAN
      BY <1>1, <2>1, NotLate
    <2> QED BY <1>1, <2>1, <2>2, <2>3, <2>4 DEF TypeOK
  <1>5. ASSUME NEW w \in Workers, Fails(w)
        PROVE  TypeOK'
    <2>1. PICK key \in Bodies :
            /\ Acting(w)
            /\ row' = [Staged(worker[w].row) EXCEPT !.status = "failed"]
            /\ record' = [status |-> "failed", key |-> key]
            /\ worker' = [worker EXCEPT ![w] = Idle]
            /\ Mark(w)
            /\ UNCHANGED <<kind, outer, lost, skipped, account, bounds>>
      BY <1>5 DEF Fails
    <2>2. Staged(worker[w].row) \in Rows
      BY <1>1, <2>1, Holds, StagedRow
    <2>3. row' \in Rows /\ record' \in Records
      BY <2>1, <2>2 DEF Rows, Records, Statuses
    <2>4. worker' \in [Workers -> [phase : {"idle", "loaded", "syncing", "sending"},
                                   row : Rows \cup {None}, record : Records \cup {None}]]
      BY <1>1, <2>1 DEF TypeOK, Idle
    <2>5. \A v \in Workers : worker'[v].phase = "idle" <=> worker'[v].row = None
      BY <1>1, <2>1 DEF TypeOK, Idle
    <2>6. stale' \in BOOLEAN
      BY <1>1, <2>1, NotLate
    <2> QED BY <1>1, <2>1, <2>3, <2>4, <2>5, <2>6 DEF TypeOK
  <1>6. ASSUME NEW w \in Workers, Die(w)
        PROVE  TypeOK'
    <2>1. crashes' \in 0..MaxCrashes
      BY <1>1, <1>6, PostingAssumption DEF Die, TypeOK
    <2>2. worker' = [worker EXCEPT ![w] = Idle]
      BY <1>6 DEF Die, Leave
    <2>3. worker' \in [Workers -> [phase : {"idle", "loaded", "syncing", "sending"},
                                   row : Rows \cup {None}, record : Records \cup {None}]]
      BY <1>1, <2>2 DEF TypeOK, Idle
    <2>4. \A v \in Workers : worker'[v].phase = "idle" <=> worker'[v].row = None
      BY <1>1, <2>2 DEF TypeOK, Idle
    <2> QED BY <1>1, <1>6, <2>1, <2>3, <2>4 DEF Die, TypeOK
  <1>7. ASSUME NEW w \in Workers, NEW ok \in BOOLEAN, Answer(w, ok)
        PROVE  TypeOK'
    <2>1. worker' = [worker EXCEPT ![w] = Idle]
      BY <1>1, <1>7, AnswerEffect
    <2>2. worker' \in [Workers -> [phase : {"idle", "loaded", "syncing", "sending"},
                                   row : Rows \cup {None}, record : Records \cup {None}]]
      BY <1>1, <2>1 DEF TypeOK, Idle
    <2>3. \A v \in Workers : worker'[v].phase = "idle" <=> worker'[v].row = None
      BY <1>1, <2>1 DEF TypeOK, Idle
    <2> QED BY <1>1, <1>7, <2>2, <2>3, AnswerEffect DEF TypeOK
  <1> QED BY <1>1, <1>2, <1>3, <1>4, <1>5, <1>6, <1>7, NextCases
-----------------------------------------------------------------------------
\* The lock keeps one holder.
LEMMA SenderStep ==
  ASSUME PostingNone, IInv, [Next]_vars
  PROVE  OneSender'
  <1> USE DEF OneSender, Sending
  <1>1. TypeOK /\ RecordKept /\ OneSender
    BY DEF IInv, Consistent
  <1>2. CASE Calm
    BY <1>1, <1>2, CalmSteps DEF Idle, TypeOK
  <1>3. ASSUME NEW w \in Workers, Sends(w) \/ Saves(w) \/ Fails(w)
        PROVE  OneSender'
    <2>1. \A v \in Workers : ~Sending(v)
      BY <1>3 DEF Sends, Saves, Fails, Locked
    <2>2. \A v \in Workers : v # w => worker'[v] = worker[v]
      BY <1>1, <1>3 DEF Sends, Saves, Fails, TypeOK
    <2> QED BY <2>1, <2>2
  <1>4. ASSUME NEW w \in Workers, Die(w) \/ \E ok \in BOOLEAN : Answer(w, ok)
        PROVE  OneSender'
    BY <1>1, <1>4 DEF Die, Answer, Leave, Idle, TypeOK
  <1> QED BY <1>1, <1>2, <1>3, <1>4, NextCases

\* The pointer to the sync record is kept.
LEMMA RecordStep ==
  ASSUME PostingNone, IInv, [Next]_vars
  PROVE  RecordKept'
  <1> USE DEF Sending, Acting
  <1>1. TypeOK /\ RecordKept /\ OneSender
    BY DEF IInv, Consistent
  <1>2. CASE Calm
    <2>1. /\ UNCHANGED <<kind, record, stale>> /\ row'.linked = row.linked
          /\ \A v \in Workers :
               worker'[v] \in {worker[v], Idle, [phase |-> "loaded", row |-> row, record |-> Seen]}
      BY <1>1, <1>2, CalmSteps DEF TypeOK, Rows
    <2> QED BY <1>1, <2>1 DEF RecordKept, Idle
  <1>3. ASSUME NEW w \in Workers, Sends(w)
        PROVE  RecordKept'
    <2>1. PICK r \in Rows, key \in Bodies :
            /\ ~Locked
            /\ worker' = [worker EXCEPT ![w] = [phase |-> "sending", row |-> Staged(r),
                                                record |-> [status |-> "failed", key |-> key]]]
            /\ Mark(w)
            /\ UNCHANGED <<kind, row, record>>
      BY <1>3 DEF Sends, data
    <2>2. /\ [status |-> "failed", key |-> key] # None
          /\ Staged(r).linked /\ (kind # "vendor" => Staged(r).status = "ready")
      BY PostingNone, StagedRow DEF Records
    <2>3. \A v \in Workers : v # w => worker'[v] = worker[v] /\ ~Sending(v)
      BY <1>1, <2>1 DEF TypeOK, Locked
    <2>4. /\ worker'[w].phase = "sending" /\ worker'[w].row = Staged(r)
          /\ worker'[w].record = [status |-> "failed", key |-> key]
      BY <1>1, <2>1 DEF TypeOK
    <2> QED BY <1>1, <2>1, <2>2, <2>3, <2>4, NotLate DEF RecordKept
  <1>4. ASSUME NEW w \in Workers, Saves(w)
        PROVE  RecordKept'
    <2>1. PICK r \in Rows, next \in {"idle", "syncing"} :
            /\ Acting(w) /\ ~Locked /\ row' = r /\ Mark(w) /\ UNCHANGED <<kind, record>>
            /\ worker' = [worker EXCEPT ![w] =
                 IF next = "idle" THEN Idle
                 ELSE [phase |-> "syncing", row |-> r, record |-> worker[w].record]]
            /\ r.linked = worker[w].row.linked
      BY <1>4 DEF Saves
    <2>2. \A v \in Workers : v # w => worker'[v] = worker[v] /\ ~Sending(v)
      BY <1>1, <2>1 DEF TypeOK, Locked
    <2>3. worker'[w] \in {Idle, [phase |-> "syncing", row |-> r, record |-> worker[w].record]}
      BY <1>1, <2>1 DEF TypeOK
    <2> QED BY <1>1, <2>1, <2>2, <2>3, NotLate DEF RecordKept, Idle
  <1>5. ASSUME NEW w \in Workers, Fails(w)
        PROVE  RecordKept'
    <2>1. PICK key \in Bodies :
            /\ Acting(w) /\ ~Locked
            /\ row' = [Staged(worker[w].row) EXCEPT !.status = "failed"]
            /\ record' = [status |-> "failed", key |-> key]
            /\ worker' = [worker EXCEPT ![w] = Idle]
      BY <1>5 DEF Fails
    <2>2. record' # None /\ row'.linked
      BY <1>1, <2>1, PostingNone, Holds, StagedRow DEF Records, Rows
    <2>3. \A v \in Workers : worker'[v] \in {worker[v], Idle} /\ ~Sending(v)
      BY <1>1, <2>1 DEF TypeOK, Locked
    <2> QED BY <2>2, <2>3 DEF RecordKept, Idle
  <1>6. ASSUME NEW w \in Workers, Die(w)
        PROVE  RecordKept'
    <2>1. UNCHANGED <<kind, row, record, stale>> /\ \A v \in Workers : worker'[v] \in {worker[v], Idle}
      BY <1>1, <1>6 DEF Die, Leave, TypeOK, data
    <2> QED BY <1>1, <2>1 DEF RecordKept, Idle
  <1>7. ASSUME NEW w \in Workers, NEW ok \in BOOLEAN, Answer(w, ok)
        PROVE  RecordKept'
    <2>1. /\ row'.linked /\ record' # None /\ UNCHANGED kind
          /\ Sending(w) /\ worker' = [worker EXCEPT ![w] = Idle]
      BY <1>1, <1>7, PostingNone, AnswerEffect
    <2>2. \A v \in Workers : worker'[v] \in {worker[v], Idle}
      BY <1>1, <2>1 DEF TypeOK
    <2> QED BY <1>1, <2>1, <2>2 DEF RecordKept, Idle
  <1> QED BY <1>1, <1>2, <1>3, <1>4, <1>5, <1>6, <1>7, NextCases

\* An invoice keeps its key.
LEMMA KeyStep ==
  ASSUME PostingNone, IInv, [Next]_vars
  PROVE  InvoiceKeys'
  <1> USE DEF Sending, Acting
  <1>1. TypeOK /\ RecordKept /\ OneSender /\ InvoiceKeys
    BY DEF IInv, Consistent
  <1>2. CASE Calm
    <2>1. /\ UNCHANGED <<kind, record, sent, lost>>
          /\ \A v \in Workers :
               worker'[v] \in {worker[v], Idle, [phase |-> "loaded", row |-> row, record |-> Seen]}
      BY <1>1, <1>2, CalmSteps
    <2>2. \A v \in Workers : Sending(v) => worker'[v] = worker[v]
      BY <1>1, <1>2, CalmSteps
    <2> QED BY <1>1, <2>1, <2>2 DEF InvoiceKeys, Idle
  <1>3. ASSUME NEW w \in Workers, Sends(w), kind = "charge"
        PROVE  InvoiceKeys'
    <2>1. PICK r \in Rows, key \in Bodies, body \in Bodies :
            /\ ~Locked /\ Acting(w)
            /\ worker' = [worker EXCEPT ![w] = [phase |-> "sending", row |-> Staged(r),
                                                record |-> [status |-> "failed", key |-> key]]]
            /\ sent' = sent \cup {[key |-> key, body |-> body]}
            /\ UNCHANGED <<kind, record, lost>>
            /\ key \in ChargeKey(worker[w].row)
      BY <1>3 DEF Sends, data
    <2>2. \A v \in Workers : v # w => worker'[v] = worker[v] /\ ~Sending(v)
      BY <1>1, <2>1 DEF TypeOK, Locked
    <2>3. worker'[w].phase = "sending" /\ worker'[w].record.key = key
      BY <1>1, <2>1 DEF TypeOK
    <2>4. record # None => key = record.key
      BY <1>1, <2>1 DEF ChargeKey, RecordKept
    <2>5. \A s \in sent : ~lost => record # None /\ s.key = record.key
      BY <1>1, <1>3, <2>1 DEF InvoiceKeys, Locked
    <2> QED BY <2>1, <2>2, <2>3, <2>4, <2>5 DEF InvoiceKeys
  <1>4. ASSUME NEW w \in Workers, Saves(w)
        PROVE  InvoiceKeys'
    <2>1. /\ UNCHANGED <<kind, record, sent, lost>> /\ \A v \in Workers : ~Sending(v)
          /\ \A v \in Workers : ~Sending(v)'
      BY <1>1, <1>4 DEF Saves, outer, Idle, Locked, TypeOK
    <2> QED BY <1>1, <2>1 DEF InvoiceKeys
  <1>5. ASSUME NEW w \in Workers, Fails(w)
        PROVE  InvoiceKeys'
    <2>1. PICK key \in Bodies :
            /\ kind = "charge" /\ Acting(w) /\ ~Locked
            /\ key \in ChargeKey(worker[w].row)
            /\ record' = [status |-> "failed", key |-> key]
            /\ worker' = [worker EXCEPT ![w] = Idle]
            /\ UNCHANGED <<kind, sent, lost>>
      BY <1>5 DEF Fails, outer
    <2>2. \A v \in Workers : ~Sending(v) /\ ~Sending(v)'
      BY <1>1, <2>1 DEF TypeOK, Locked, Idle
    <2>3. record' # None /\ record'.key = key
      BY <2>1, PostingNone DEF Records
    <2>4. record # None => key = record.key
      BY <1>1, <2>1 DEF ChargeKey, RecordKept
    <2> QED BY <1>1, <2>1, <2>2, <2>3, <2>4 DEF InvoiceKeys
  <1>6. ASSUME NEW w \in Workers, Die(w)
        PROVE  InvoiceKeys'
    <2>1. /\ UNCHANGED <<kind, record, sent>> /\ lost'
          /\ \A v \in Workers : worker'[v] \in {worker[v], Idle}
      BY <1>1, <1>6 DEF Die, Leave, TypeOK, data, outer
    <2> QED BY <1>1, <2>1 DEF InvoiceKeys, Idle
  <1>7. ASSUME NEW w \in Workers, NEW ok \in BOOLEAN, Answer(w, ok)
        PROVE  InvoiceKeys'
    <2>1. /\ Sending(w) /\ worker' = [worker EXCEPT ![w] = Idle]
          /\ record' # None /\ record'.key = worker[w].record.key
          /\ UNCHANGED <<kind, sent, lost>>
      BY <1>1, <1>7, PostingNone, AnswerEffect
    <2>2. \A v \in Workers : ~Sending(v)'
      BY <1>1, <2>1 DEF OneSender, TypeOK, Idle
    <2>3. \A v \in Workers : Sending(v) => v = w
      BY <1>1, <2>1 DEF OneSender
    <2> QED BY <1>1, <2>1, <2>2, <2>3 DEF InvoiceKeys
  <1>8. kind # "charge" /\ UNCHANGED kind => InvoiceKeys'
    BY DEF InvoiceKeys
  <1>9. ASSUME NEW w \in Workers, Sends(w)
        PROVE  UNCHANGED kind
    BY <1>9 DEF Sends
  <1> QED BY <1>1, <1>2, <1>3, <1>4, <1>5, <1>6, <1>7, <1>8, <1>9, NextCases

\* A deposit event stays frozen.
LEMMA DepositStep ==
  ASSUME PostingNone, IInv, [Next]_vars
  PROVE  DepositFrozen'
  <1> USE DEF Sending, Acting
  <1>1. TypeOK /\ RecordKept /\ OneSender /\ DepositFrozen
    BY DEF IInv, Consistent
  <1> SUFFICES ASSUME kind' = "deposit", ~lost', ~stale'
               PROVE  DepositFrozen'
    BY DEF DepositFrozen
  <1>2. CASE Calm
    <2>1. /\ kind = "deposit" /\ UNCHANGED <<row, sent, lost, stale>>
          /\ \A v \in Workers :
               /\ worker'[v] \in {worker[v], Idle, [phase |-> "loaded", row |-> row, record |-> Seen]}
               /\ Sending(v) => worker'[v] = worker[v]
      BY <1>1, <1>2, CalmSteps
    <2> QED BY <1>1, <2>1 DEF DepositFrozen, Idle
  <1>3. ASSUME NEW w \in Workers, Sends(w)
        PROVE  DepositFrozen'
    <2>1. PICK r \in Rows, key \in Bodies, body \in Bodies :
            /\ kind = "deposit" /\ ~Locked
            /\ worker' = [worker EXCEPT ![w] = [phase |-> "sending", row |-> Staged(r),
                                                record |-> [status |-> "failed", key |-> key]]]
            /\ sent' = sent \cup {[key |-> key, body |-> body]}
            /\ Mark(w) /\ UNCHANGED <<row, lost>>
            /\ key = body /\ worker[w].row.frozen \in {None, body}
            /\ worker[w].row = row => r.frozen = body
      BY <1>3 DEF Sends, data
    <2>2. ~stale /\ worker[w].row = row
      BY <1>1, <2>1, NotLate
    <2>3. \A v \in Workers : v # w => worker'[v] = worker[v] /\ ~Sending(v)
      BY <1>1, <2>1 DEF TypeOK, Locked
    <2>4. worker'[w].phase = "sending" /\ worker'[w].row.frozen = body
      BY <1>1, <2>1, <2>2, StagedRow DEF TypeOK
    <2>5. \A s \in sent : s.key = s.body /\ row.frozen = s.key
      BY <1>1, <2>1, <2>2 DEF DepositFrozen, Locked
    <2>6. \A s \in sent : s.key # None
      BY <1>1, PostingNone DEF TypeOK
    <2>7. \A s \in sent : s.key = body
      BY <2>1, <2>2, <2>5, <2>6
    <2> QED BY <2>1, <2>2, <2>3, <2>4, <2>5, <2>7 DEF DepositFrozen
  <1>4. ASSUME NEW w \in Workers, Saves(w)
        PROVE  DepositFrozen'
    <2>1. /\ kind = "deposit" /\ UNCHANGED <<sent, lost>> /\ Mark(w)
          /\ row'.frozen = worker[w].row.frozen
          /\ \A v \in Workers : ~Sending(v) /\ ~Sending(v)'
      BY <1>1, <1>4 DEF Saves, outer, Idle, Locked, TypeOK
    <2>2. ~stale /\ worker[w].row = row
      BY <1>1, <2>1, NotLate
    <2> QED BY <1>1, <2>1, <2>2 DEF DepositFrozen
  <1>5. ASSUME NEW w \in Workers, Die(w)
        PROVE  FALSE
    BY <1>5 DEF Die
  <1>6. ASSUME NEW w \in Workers, NEW ok \in BOOLEAN, Answer(w, ok)
        PROVE  DepositFrozen'
    <2>1. /\ Sending(w) /\ worker' = [worker EXCEPT ![w] = Idle]
          /\ row'.frozen = worker[w].row.frozen
          /\ UNCHANGED <<kind, sent, lost, stale>>
      BY <1>1, <1>6, AnswerEffect
    <2>2. \A v \in Workers : ~Sending(v)'
      BY <1>1, <2>1 DEF OneSender, TypeOK, Idle
    <2>3. \A v \in Workers : Sending(v) => v = w
      BY <1>1, <2>1 DEF OneSender
    <2>4. \A s \in sent : s.key # None
      BY <1>1, PostingNone DEF TypeOK
    <2> QED BY <1>1, <2>1, <2>2, <2>3, <2>4 DEF DepositFrozen
  <1>7. ASSUME NEW w \in Workers, Fails(w)
        PROVE  FALSE
    BY <1>7 DEF Fails
  <1> QED BY <1>1, <1>2, <1>3, <1>4, <1>5, <1>6, <1>7, NextCases

\* Only what saw no confirmation goes on to be posted.
LEMMA OpenStep ==
  ASSUME PostingNone, IInv, [Next]_vars
  PROVE  OpenWhenSaved'
  <1>1. TypeOK /\ RecordKept /\ OpenWhenSaved
    BY DEF IInv, Consistent
  <1>2. CASE Calm
    BY <1>1, <1>2, CalmSteps DEF OpenWhenSaved, Idle
  <1>3. ASSUME NEW w \in Workers, Sends(w) \/ Fails(w)
        PROVE  OpenWhenSaved'
    <2>1. /\ UNCHANGED kind /\ worker'[w].phase # "syncing"
          /\ \A v \in Workers : v # w => worker'[v] = worker[v]
      BY <1>1, <1>3 DEF Sends, Fails, TypeOK, Idle
    <2> QED BY <1>1, <2>1 DEF OpenWhenSaved
  <1>4. ASSUME NEW w \in Workers, Saves(w)
        PROVE  OpenWhenSaved'
    <2>1. /\ UNCHANGED kind /\ \A v \in Workers : v # w => worker'[v] = worker[v]
          /\ worker'[w].phase = "syncing" =>
               /\ kind \in {"owner", "charge"}
               /\ kind = "owner" => ~Succeeded(worker'[w].record)
      BY <1>1, <1>4 DEF Saves, TypeOK, Idle
    <2> QED BY <1>1, <2>1 DEF OpenWhenSaved
  <1>5. ASSUME NEW w \in Workers, Die(w) \/ \E ok \in BOOLEAN : Answer(w, ok)
        PROVE  OpenWhenSaved'
    <2>1. UNCHANGED kind /\ \A v \in Workers : worker'[v] \in {worker[v], Idle}
      BY <1>1, <1>5 DEF Die, Answer, Leave, TypeOK
    <2> QED BY <1>1, <2>1 DEF OpenWhenSaved, Idle
  <1> QED BY <1>1, <1>2, <1>3, <1>4, <1>5, NextCases

\* A vendor is confirmed with the fields it is saved with.
LEMMA VendorStep ==
  ASSUME PostingNone, IInv, [Next]_vars
  PROVE  VendorSent' /\ VendorCurrent'
  <1> USE DEF Sending
  <1>1. TypeOK /\ RecordKept /\ OneSender /\ VendorSent /\ VendorCurrent
    BY DEF IInv, Consistent
  <1> SUFFICES ASSUME kind' = "vendor"
               PROVE  VendorSent' /\ VendorCurrent'
    BY DEF VendorSent, VendorCurrent
  <1>2. CASE Calm
    <2>1. /\ UNCHANGED <<kind, row, record, skipped>>
          /\ \A v \in Workers :
               worker'[v] \in {worker[v], Idle, [phase |-> "loaded", row |-> row, record |-> Seen]}
      BY <1>1, <1>2, CalmSteps
    <2> QED BY <1>1, <2>1 DEF VendorSent, VendorCurrent, Seen, Idle
  <1>3. ASSUME NEW w \in Workers, Sends(w)
        PROVE  VendorSent' /\ VendorCurrent'
    <2>1. PICK r \in Rows, key \in Bodies :
            /\ worker' = [worker EXCEPT ![w] = [phase |-> "sending", row |-> Staged(r),
                                                record |-> [status |-> "failed", key |-> key]]]
            /\ UNCHANGED <<kind, row, record, skipped>>
            /\ key[1] = r.core
      BY <1>3 DEF Sends, data
    <2>2. /\ \A v \in Workers : v # w => worker'[v] = worker[v]
          /\ worker'[w].record.key[1] = worker'[w].row.core
      BY <1>1, <2>1, StagedRow DEF TypeOK
    <2> QED BY <1>1, <2>1, <2>2 DEF VendorSent, VendorCurrent, Seen
  <1>4. ASSUME NEW w \in Workers, Saves(w)
        PROVE  VendorSent' /\ VendorCurrent'
    <2>1. /\ kind = "vendor" /\ UNCHANGED record
          /\ ~skipped' => Succeeded(record) /\ record.key[1] = row'.core
          /\ \A v \in Workers : ~Sending(v)'
      BY <1>1, <1>4 DEF Saves, Idle, Locked, TypeOK
    <2>2. Succeeded(Seen)' => Seen' = record'
      BY DEF Seen, Succeeded
    <2> QED BY <1>1, <2>1, <2>2 DEF VendorSent, VendorCurrent
  <1>5. ASSUME NEW w \in Workers, Die(w)
        PROVE  VendorSent' /\ VendorCurrent'
    <2>1. /\ UNCHANGED <<kind, row, record, skipped>>
          /\ \A v \in Workers : worker'[v] \in {worker[v], Idle}
      BY <1>1, <1>5 DEF Die, Leave, TypeOK, data
    <2> QED BY <1>1, <2>1 DEF VendorSent, VendorCurrent, Seen, Idle
  <1>6. ASSUME NEW w \in Workers, NEW ok \in BOOLEAN, Answer(w, ok)
        PROVE  VendorSent' /\ VendorCurrent'
    <2>1. /\ Sending(w) /\ worker' = [worker EXCEPT ![w] = Idle]
          /\ record'.key = worker[w].record.key /\ row'.core = worker[w].row.core /\ row'.linked
          /\ UNCHANGED <<kind, skipped>>
      BY <1>1, <1>6, AnswerEffect
    <2>2. \A v \in Workers : worker'[v] \in {worker[v], Idle}
      BY <1>1, <2>1 DEF TypeOK
    <2> QED BY <1>1, <2>1, <2>2 DEF VendorSent, VendorCurrent, Seen, Idle
  <1>7. ASSUME NEW w \in Workers, Fails(w)
        PROVE  FALSE
    BY <1>7 DEF Fails
  <1> QED BY <1>1, <1>2, <1>3, <1>4, <1>5, <1>6, <1>7, NextCases

\* The status goes with the record.
LEMMA StatusStep ==
  ASSUME PostingNone, IInv, [Next]_vars
  PROVE  StatusTellsRecord'
  <1>1. TypeOK /\ RecordKept /\ StatusTellsRecord
    BY DEF IInv, Consistent
  <1> SUFFICES ASSUME kind' \in {"debt", "deposit"}, ~stale'
               PROVE  StatusTellsRecord'
    BY DEF StatusTellsRecord
  <1>2. CASE Calm
    BY <1>1, <1>2, CalmSteps DEF StatusTellsRecord, Seen
  <1>3. ASSUME NEW w \in Workers, Sends(w)
        PROVE  StatusTellsRecord'
    BY <1>1, <1>3, NotLate DEF Sends, data, StatusTellsRecord, Seen
  <1>4. ASSUME NEW w \in Workers, Saves(w)
        PROVE  StatusTellsRecord'
    <2>1. /\ kind \in {"debt", "deposit"} /\ Mark(w) /\ UNCHANGED <<kind, record>>
          /\ row'.linked = worker[w].row.linked
          /\ row'.status = "posted" <=> worker[w].row.status = "posted"
      BY <1>4 DEF Saves
    <2> QED BY <1>1, <2>1, NotLate DEF StatusTellsRecord, Seen
  <1>5. ASSUME NEW w \in Workers, Die(w)
        PROVE  StatusTellsRecord'
    BY <1>1, <1>5 DEF Die, data, StatusTellsRecord, Seen
  <1>6. ASSUME NEW w \in Workers, NEW ok \in BOOLEAN, Answer(w, ok)
        PROVE  StatusTellsRecord'
    <2>1. /\ row'.linked /\ UNCHANGED kind
          /\ record' = [status |-> IF ok THEN "succeeded" ELSE "failed", key |-> worker[w].record.key]
          /\ record' # None
          /\ kind \in {"debt", "deposit"} => (row'.status = "posted" <=> ok)
      BY <1>1, <1>6, PostingNone, AnswerEffect
    <2>2. Succeeded(Seen)' <=> ok
      BY <2>1 DEF Succeeded, Seen
    <2> QED BY <2>1, <2>2 DEF StatusTellsRecord
  <1>7. ASSUME NEW w \in Workers, Fails(w)
        PROVE  FALSE
    BY <1>7 DEF Fails
  <1> QED BY <1>1, <1>2, <1>3, <1>4, <1>5, <1>6, <1>7, NextCases

LEMMA Inductive ==
  ASSUME PostingAssumption, PostingNone, IInv, [Next]_vars
  PROVE  IInv'
  BY TypeStep, SenderStep, RecordStep, KeyStep, DepositStep, OpenStep, VendorStep, StatusStep
     DEF IInv, Consistent
-----------------------------------------------------------------------------
\* The inductive invariant holds: one request has the lock, rows keep their sync record, and
\* what was sent is on file or in flight, for any requests, values and accounts.
THEOREM Invariance == Spec => []IInv
  <1>1. Init => IInv
    BY Initially, PostingAssumption, PostingNone
  <1>2. IInv /\ [Next]_vars => IInv'
    BY Inductive, PostingAssumption, PostingNone
  <1> QED BY <1>1, <1>2, PTL DEF Spec

\* Every variable keeps its type, and LedgerOS books nothing that was not sent.
THEOREM TypeCorrect == Spec => []TypeOK
  <1>1. IInv => TypeOK
    BY DEF IInv
  <1> QED BY <1>1, Invariance, PTL

\* The status of a debt payment or deposit tells its sync record, through every retry.
THEOREM StatusTold == Spec => []StatusTellsRecord
  <1>1. IInv => StatusTellsRecord
    BY DEF IInv, Consistent
  <1> QED BY <1>1, Invariance, PTL

\* A confirmed vendor was confirmed with its present fields.
THEOREM VendorUpToDate == Spec => []VendorCurrent
  <1>1. IInv => VendorCurrent
    BY DEF IInv, Consistent
  <1> QED BY <1>1, Invariance, PTL

\* A set whose elements are all equal has at most one.
LEMMA AtMostOne ==
  ASSUME NEW S, \A a, b \in S : a = b
  PROVE  Cardinality(S) <= 1
  <1>1. CASE S = {}
    BY <1>1, FS_EmptySet
  <1>2. CASE S # {}
    <2>1. PICK a \in S : S = {a}
      BY <1>2
    <2> QED BY <2>1, FS_Singleton
  <1> QED BY <1>1, <1>2

\* An invoice is sent under one key, by requests of any age (approve_charge).
THEOREM OneKey == Spec => []InvoiceOneKey
  <1>1. IInv => InvoiceOneKey
    <2> SUFFICES ASSUME IInv, kind = "charge", ~lost
                 PROVE  Cardinality(Keys) <= 1
      BY DEF InvoiceOneKey
    <2>1. OneSender /\ InvoiceKeys
      BY DEF IInv, Consistent
    <2>2. \A s, t \in sent : s.key = t.key
      BY <2>1 DEF OneSender, InvoiceKeys
    <2>3. \A k, l \in Keys : k = l
      BY <2>2 DEF Keys
    <2> QED BY <2>3, AtMostOne
  <1> QED BY <1>1, Invariance, PTL

\* A deposit event is sent in one request, unless a worker died or a form was late
\* (sync_security_deposit_event, frozen_request_payload).
THEOREM OneDeposit == Spec => []DepositSentOnce
  <1>1. IInv => DepositSentOnce
    <2> SUFFICES ASSUME IInv, kind = "deposit", ~lost, ~stale
                 PROVE  Cardinality(sent) <= 1
      BY DEF DepositSentOnce
    <2>1. TypeOK /\ OneSender /\ DepositFrozen
      BY DEF IInv, Consistent
    <2>2. \A s \in sent : s.key # None /\ s = [key |-> s.key, body |-> s.body]
      BY <2>1, PostingNone DEF TypeOK
    <2>3. \A s, t \in sent : s.key = t.key /\ s.body = t.body
      BY <2>1, <2>2 DEF OneSender, DepositFrozen
    <2>4. \A s, t \in sent : s = t
      BY <2>2, <2>3
    <2> QED BY <2>4, AtMostOne
  <1> QED BY <1>1, Invariance, PTL

\* Confirmed owner activity and deposits are not sent again by a request that saw the
\* confirmation (is_editable_after_sync).
THEOREM NotResent == Spec => ConfirmedNotResent
  <1>1. ASSUME IInv, [Next]_vars, NEW w \in Workers, kind \in {"owner", "deposit"},
               Succeeded(record), worker[w].phase # "sending", worker'[w].phase = "sending",
               ~stale'
        PROVE  FALSE
    <2>1. TypeOK /\ RecordKept /\ OpenWhenSaved
      BY <1>1 DEF IInv, Consistent
    <2>2. ~Calm
      BY <1>1, <2>1, CalmSteps DEF Idle
    <2>3. PICK v \in Workers :
            \/ Sends(v) \/ Saves(v) \/ Fails(v) \/ Die(v)
            \/ \E ok \in BOOLEAN : Answer(v, ok)
      BY <1>1, <2>1, <2>2, NextCases, PostingNone
    <2>4. CASE Sends(v)
      <3>1. Mark(v) /\ UNCHANGED <<kind, record>>
        BY <2>4 DEF Sends, data
      <3>2. ~Succeeded(worker[v].record)
        BY <1>1, <2>1, <2>4 DEF Sends, OpenWhenSaved
      <3>3. ~stale /\ worker[v].record = Seen
        BY <1>1, <2>1, <3>1, NotLate
      <3>4. row.linked
        BY <1>1, <2>1, <3>3 DEF RecordKept, Succeeded
      <3> QED BY <1>1, <3>2, <3>3, <3>4 DEF Seen
    <2>5. CASE Saves(v) \/ Fails(v) \/ Die(v) \/ \E ok \in BOOLEAN : Answer(v, ok)
      <3>1. worker'[v].phase # "sending" /\ \A u \in Workers : u # v => worker'[u] = worker[u]
        BY <2>1, <2>5 DEF Saves, Fails, Die, Answer, Leave, Idle, TypeOK
      <3> QED BY <1>1, <3>1
    <2> QED BY <2>3, <2>4, <2>5
  <1>2. IInv /\ [Next]_vars =>
          [\A w \in Workers :
             (/\ kind \in {"owner", "deposit"} /\ Succeeded(record)
              /\ worker[w].phase # "sending" /\ worker[w].phase' = "sending") => stale']_vars
    BY <1>1
  <1> QED BY <1>2, Invariance, PTL DEF Spec, ConfirmedNotResent
============================================================================
