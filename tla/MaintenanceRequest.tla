------------------------- MODULE MaintenanceRequest -------------------------
(***************************************************************************)
(* Maintenance requests and the vendor bills linked to them.  Every write  *)
(* to a request locks its row, compares the version in the user's form     *)
(* with the row's, raises the version and appends one event, so a handler  *)
(* is one step.  A form is a page loaded earlier, which may show any       *)
(* version the request ever had: rows[r] keeps them all, the row of the    *)
(* database last.  Saving or submitting a bill locks the bill and only     *)
(* reads its request: the request may be edited between that look and the  *)
(* write, so the two are steps of their own.                               *)
(***************************************************************************)
EXTENDS Integers, Sequences, FiniteSets

CONSTANTS
  Users, BillEditors,       \* who may change requests; who may create bills as well
  Requests, Bills,
  Submissions,              \* identities that bill forms are issued with
  Vendors,
  Properties, Units,
  Places,                   \* pairs of a property and a unit of it, or None
  None,
  MaxVersion,               \* bound on the version, by request
  MaxDetours                \* bound on steps beside the plain course of one request: further
                            \* requests, edits, holds, reopenings, link changes, edits and
                            \* submissions of bills, presses that are turned away

ASSUME RequestAssumption ==
  /\ BillEditors \subseteq Users
  /\ Places \subseteq Properties \X (Units \cup {None})
  /\ MaxVersion \in [Requests -> Nat] /\ MaxDetours \in Nat

VARIABLES
  rows,         \* by request: its versions, the current one last
  events,       \* by request: MaintenanceRequestEvent, oldest first
  bill,         \* by bill: place, linked request, submission identity, awaiting a decision
  token,        \* by submission that created a bill: its form's request and version
  saving,       \* by bill: the row that the transaction holding its lock is about to save
  answer,       \* by submission: what the last press of its form was shown
  pending,      \* bills created by a press that asked to submit them, not yet submitted
  detours       \* the steps counted so far

history == <<rows, events>>
forms   == <<token, answer>>
vars    == <<history, bill, saving, forms, pending, detours>>
-----------------------------------------------------------------------------
Statuses == {"open", "triaged", "assigned", "in_progress", "on_hold", "verified",
             "closed", "cancelled"}
Work     == {"triaged", "assigned", "in_progress"}
Outcomes == {"invoice_pending", "no_external_cost"}
Actions  == {"created", "updated", "triage", "assign", "start", "hold", "resume", "verify",
             "close", "reopen", "cancel", "bill_linked", "bill_unlinked"}

\* hold is hold_from_status; outcome stands for the closure fields, written together.
Rows  == [status : Statuses, vendor : Vendors \cup {None}, place : Places,
          hold : Work \cup {None}, outcome : Outcomes \cup {None},
          reopened : Nat, version : Nat]
\* What an event says beside the statuses; changes holds the new values of the fields changed.
Events == [action : Actions, from : Statuses \cup {None}, to : Statuses, version : Nat,
           changes : UNION {[D -> Vendors \cup {None} \cup Places] :
                              D \in SUBSET {"vendor", "place"}},
           vendor : Vendors \cup {None}, outcome : Outcomes \cup {None},
           bill : Bills \cup {None}]
BillRows == [place : Places, request : Requests \cup {None},
             submission : Submissions \cup {None}, approval : {"draft", "submitted", "approved"}]
\* seen is how many versions the bill's request had when it was looked at.
Saves    == [row : BillRows, seen : Nat]

ASSUME RequestNone ==
  None \notin Statuses \cup Outcomes \cup Vendors \cup Requests \cup Bills \cup Submissions
               \cup BillRows \cup Saves

\* What every event says; the metadata that only some have is None.
Event(action, from, to, version) ==
  [action |-> action, from |-> from, to |-> to, version |-> version,
   changes |-> [f \in {} |-> None], vendor |-> None, outcome |-> None, bill |-> None]

Exists(r)  == rows[r] # <<>>
Current(r) == rows[r][Len(rows[r])]
Linked(b)  == bill[b] # None /\ bill[b].request # None

\* A bill whose row is not locked: every other writer of it waits for the lock.
Unlocked(b) == bill[b] # None /\ saving[b] = None

\* VendorBill.clean: the same property and, for a request of one unit, that unit.
Match(row, place) ==
  /\ row.place[1] = place[1]
  /\ row.place[2] \in {None, place[2]}

Detour == detours < MaxDetours /\ detours' = detours + 1
-----------------------------------------------------------------------------
\* _require_version: the page shows the row's version.
AnyVersion(r, i) == i \in DOMAIN rows[r]
Fresh(r, i)      == i \in DOMAIN rows[r] /\ rows[r][i].version = Current(r).version

\* The row is saved with the next version, and one event says what was done to it.
Record(r, row, event) ==
  LET next == Current(r).version + 1 IN
  /\ next <= MaxVersion[r]
  /\ rows' = [rows EXCEPT ![r] = Append(@, [row EXCEPT !.version = next])]
  /\ events' = [events EXCEPT ![r] = Append(@, [event EXCEPT !.version = next])]

\* What link_bill and unlink_bill record: the bill, and no change of the work.
RecordLink(r, action, b) ==
  LET status == Current(r).status IN
  Record(r, Current(r), [Event(action, status, status, 0) EXCEPT !.bill = b])
-----------------------------------------------------------------------------
\* A request entered by hand; each one beside the first is counted.
Create(u, r, vendor, place) ==
  /\ ~Exists(r) /\ MaxVersion[r] > 0
  /\ rows' = [rows EXCEPT ![r] =
       <<[status |-> "open", vendor |-> vendor, place |-> place, hold |-> None,
          outcome |-> None, reopened |-> 0, version |-> 1]>>]
  /\ events' = [events EXCEPT ![r] = <<Event("created", None, "open", 1)>>]
  /\ IF \E q \in Requests : Exists(q) THEN Detour ELSE UNCHANGED detours
  /\ UNCHANGED <<bill, saving, forms, pending>>

\* The editable fields in which two rows differ, with the values of the second.
Changes(row, candidate) ==
  [f \in {g \in {"vendor", "place"} : candidate[g] # row[g]} |-> candidate[f]]

\* update: every editable field is taken from the form, also those the user left alone.
Update(u, r, candidate) ==
  /\ Current(r).status \notin {"closed", "cancelled"}
  /\ LET row == Current(r) IN
     Record(r, [row EXCEPT !.vendor = candidate.vendor, !.place = candidate.place],
            [Event("updated", row.status, row.status, 0)
               EXCEPT !.changes = Changes(row, candidate)])
  /\ Detour
  /\ UNCHANGED <<bill, saving, forms, pending>>

\* A form is the page's row with one field retyped.
Typed(page) ==
  {[page EXCEPT !.vendor = v] : v \in Vendors \cup {None}} \cup
  {[page EXCEPT !.place = p] : p \in Places}
-----------------------------------------------------------------------------
\* transition: the table TRANSITIONS, action by action.
Transitions ==
  [triage |-> [from |-> {"open"},        to |-> "triaged"],
   assign |-> [from |-> {"triaged"},     to |-> "assigned"],
   start  |-> [from |-> {"assigned"},    to |-> "in_progress"],
   verify |-> [from |-> {"in_progress"}, to |-> "verified"],
   close  |-> [from |-> {"verified"},    to |-> "closed"],
   reopen |-> [from |-> {"closed"},      to |-> "triaged"],
   cancel |-> [from |-> {"open", "on_hold"} \cup Work, to |-> "cancelled"]]

\* What is recorded of a transition of the table.
Noted(r, action) == Event(action, Current(r).status, Transitions[action].to, 0)

\* A transition of the table changes the row to new, beside its status.
Transition(r, action, new, event) ==
  /\ Current(r).status \in Transitions[action].from
  /\ Record(r, [new EXCEPT !.status = Transitions[action].to], event)
  /\ UNCHANGED <<bill, saving, forms, pending>>

\* triage, start, verify and cancel change nothing else that is modelled.
Advance(u, r, action) ==
  /\ action \in {"triage", "start", "verify", "cancel"}
  /\ Transition(r, action, Current(r), Noted(r, action))
  /\ UNCHANGED detours

\* The vendor in the form, or else the one already assigned.
Assign(u, r, vendor) ==
  /\ LET chosen == IF vendor # None THEN vendor ELSE Current(r).vendor IN
     /\ chosen # None
     /\ Transition(r, "assign", [Current(r) EXCEPT !.vendor = chosen],
                   [Noted(r, "assign") EXCEPT !.vendor = chosen])
  /\ UNCHANGED detours

Close(u, r, outcome) ==
  /\ outcome \in Outcomes
  /\ Transition(r, "close", [Current(r) EXCEPT !.outcome = outcome],
                [Noted(r, "close") EXCEPT !.outcome = outcome])
  /\ UNCHANGED detours

\* A reopening that leaves the closure of the work in its row.
ReopenedOnly(row) == [row EXCEPT !.reopened = @ + 1]
\* The closure stays in the history; the row loses it.
Reopened(row)     == [row EXCEPT !.outcome = None, !.reopened = @ + 1]
Reopen(u, r) ==
  /\ Transition(r, "reopen", Reopened(Current(r)), Noted(r, "reopen"))
  /\ Detour

\* hold_from_status taken after the status was set.
HeldLate(row) == [row EXCEPT !.hold = "on_hold"]
\* hold_from_status after a hold.
Held(row)     == [row EXCEPT !.hold = row.status]
Hold(u, r) ==
  /\ Current(r).status \in Work
  /\ LET row == Current(r) IN
     Record(r, [Held(row) EXCEPT !.status = "on_hold"],
            Event("hold", row.status, "on_hold", 0))
  /\ Detour
  /\ UNCHANGED <<bill, saving, forms, pending>>

\* Work goes on where it was put on hold.
Resume(u, r) ==
  /\ LET row == Current(r) IN
     /\ row.status = "on_hold" /\ row.hold \in Work
     /\ Record(r, [row EXCEPT !.status = row.hold, !.hold = None],
               Event("resume", "on_hold", row.hold, 0))
  /\ UNCHANGED <<bill, saving, forms, pending, detours>>
-----------------------------------------------------------------------------
NewBill(place, request, submission) ==
  [place |-> place, request |-> request, submission |-> submission, approval |-> "draft"]
BillOf(s) == {b \in Bills : bill[b] # None /\ bill[b].submission = s}

\* A version check that comes before the lookup of the submission.
CheckedFirst(s) == {b \in BillOf(s) : token[s].version = Current(token[s].request).version}
\* The bills that a press finds for the identity in its form.
Existing(s)     == BillOf(s)

\* create_bill, by a form issued for r at version i: the bill and its link, in one transaction
\* that holds the request's lock.  A press that is refused, for its form, its version or the
\* place, leaves no trace, and its identity unused.
Handoff(u, s, r, i, b, place, submit) ==
  /\ u \in BillEditors /\ Fresh(r, i)
  /\ token[s] = None /\ bill[b] = None
  /\ Match(Current(r), place)
  /\ bill' = [bill EXCEPT ![b] = NewBill(place, r, s)]
  /\ RecordLink(r, "bill_linked", b)
  /\ token' = [token EXCEPT ![s] = [request |-> r, version |-> rows[r][i].version]]
  /\ answer' = [answer EXCEPT ![s] = "bill"]
  /\ pending' = IF submit THEN pending \cup {b} ELSE pending
  /\ UNCHANGED <<saving, detours>>

\* The same form pressed again, in another tab, by another user or later: a press that comes
\* to create_bill is answered with the bill that was created, if it is still linked to the
\* form's request.
Repeat(u, s) ==
  /\ u \in BillEditors /\ token[s] # None
  /\ answer' = [answer EXCEPT ![s] =
       IF \E b \in Existing(s) : bill[b].request = token[s].request
       THEN "bill" ELSE "refused"]
  /\ UNCHANGED <<history, bill, saving, token, pending, detours>>

\* It does not come so far when the signed form is more than a day old, or a vendor, property or
\* category in it is no longer offered: the form is shown again.
TurnAway(u, s) ==
  /\ u \in BillEditors /\ token[s] # None
  /\ answer' = [answer EXCEPT ![s] = "turned_away"]
  /\ Detour
  /\ UNCHANGED <<history, bill, saving, token, pending>>
-----------------------------------------------------------------------------
\* save_draft without the check of the request.
Unchecked(b, place) == TRUE
\* full_clean, under the bill's lock: the place goes with the request the bill is linked to, as
\* it is read now, without a lock of its own.
Placeable(b, place) ==
  bill[b].request # None => Match(Current(bill[b].request), place)

\* The bill is locked and its new row checked; the row is yet to be saved.
Check(b, row) ==
  /\ Unlocked(b) /\ Placeable(b, row.place)
  /\ saving' = [saving EXCEPT ![b] =
       [row  |-> row,
        seen |-> IF row.request = None THEN 0 ELSE Len(rows[row.request])]]

\* submit, of a draft.
Submits(b) ==
  /\ bill[b] # None /\ bill[b].approval = "draft"
  /\ Check(b, [bill[b] EXCEPT !.approval = "submitted"])

\* The second transaction of a press that asked to submit: it may be refused, or its worker die.
FinishSubmit(b) ==
  /\ b \in pending
  /\ pending' = pending \ {b}
  /\ Submits(b) \/ UNCHANGED saving
  /\ UNCHANGED <<history, bill, forms, detours>>

\* The ordinary bill form: no request, no submission identity.
CreateBill(u, b, place) ==
  /\ u \in BillEditors /\ bill[b] = None
  /\ bill' = [bill EXCEPT ![b] = NewBill(place, None, None)]
  /\ UNCHANGED <<history, saving, forms, pending, detours>>

SubmitBill(u, b) ==
  /\ u \in BillEditors /\ Submits(b)
  /\ Detour
  /\ UNCHANGED <<history, bill, forms, pending>>

\* save_draft, of a change of the place or of another field: an approval is undone.
SaveBill(u, b, place) ==
  /\ u \in BillEditors /\ bill[b] # None /\ bill[b].approval # "submitted"
  /\ Check(b, [bill[b] EXCEPT !.place = place, !.approval = "draft"])
  /\ Detour
  /\ UNCHANGED <<history, bill, forms, pending>>

\* The save of the row that was checked, and the commit.
Write(b) ==
  /\ saving[b] # None
  /\ bill' = [bill EXCEPT ![b] = saving[b].row]
  /\ saving' = [saving EXCEPT ![b] = None]
  /\ UNCHANGED <<history, forms, pending, detours>>

\* Its worker dies instead: the transaction is rolled back.
Drop(b) ==
  /\ saving[b] # None
  /\ saving' = [saving EXCEPT ![b] = None]
  /\ UNCHANGED <<history, bill, forms, pending, detours>>

\* The approver's decision or a withdrawal: approved, or open to edits again.
DecideBill(b, decision) ==
  /\ decision \in {"approved", "draft"}
  /\ Unlocked(b) /\ bill[b].approval = "submitted"
  /\ bill' = [bill EXCEPT ![b].approval = decision]
  /\ UNCHANGED <<history, saving, forms, pending, detours>>
-----------------------------------------------------------------------------
\* MaintenanceBillLinkForm offers the bill.
Linkable(r, b) == bill[b].request = None /\ Match(Current(r), bill[b].place)

\* link_bill, under the locks of both; for a bill linked to the request already it does nothing.
LinkBill(u, r, b) ==
  /\ Unlocked(b) /\ Linkable(r, b)
  /\ bill' = [bill EXCEPT ![b].request = r]
  /\ RecordLink(r, "bill_linked", b)
  /\ Detour
  /\ UNCHANGED <<saving, forms, pending>>

\* unlink_bill, of a bill that may be linked to another request.
UnlinksAny(r, b) == bill[b].request # None
\* unlink_bill only takes a bill of the request.
Unlinks(r, b)    == bill[b].request = r

UnlinkBill(u, r, b) ==
  /\ Unlocked(b) /\ Unlinks(r, b)
  /\ bill' = [bill EXCEPT ![b].request = None]
  /\ RecordLink(r, "bill_unlinked", b)
  /\ Detour
  /\ UNCHANGED <<saving, forms, pending>>
-----------------------------------------------------------------------------
Init ==
  /\ rows = [r \in Requests |-> <<>>] /\ events = [r \in Requests |-> <<>>]
  /\ bill = [b \in Bills |-> None] /\ saving = [b \in Bills |-> None]
  /\ token = [s \in Submissions |-> None] /\ answer = [s \in Submissions |-> None]
  /\ pending = {} /\ detours = 0

\* The forms of the pages: the edit form, the buttons of the request's page, the links to bills.
EditStep(u, r, page) == \E c \in Typed(page) : Update(u, r, c)
TransitionStep(u, r) ==
  \/ \E action \in {"triage", "start", "verify", "cancel"} : Advance(u, r, action)
  \/ \E v \in Vendors \cup {None} : Assign(u, r, v)
  \/ \E outcome \in Outcomes : Close(u, r, outcome)
  \/ Reopen(u, r) \/ Hold(u, r) \/ Resume(u, r)
LinkStep(u, r)       == \E b \in Bills : LinkBill(u, r, b) \/ UnlinkBill(u, r, b)

\* A new request, or a form that is not out of date; every handler of one locks the row first.
RequestStep(u, r) ==
  \/ \E v \in Vendors \cup {None}, p \in Places : Create(u, r, v, p)
  \/ \E i \in DOMAIN rows[r] :
       /\ Fresh(r, i)
       /\ EditStep(u, r, rows[r][i]) \/ TransitionStep(u, r) \/ LinkStep(u, r)

HandoffStep(u, s) ==
  \/ \E r \in Requests, b \in Bills, p \in Places, submit \in BOOLEAN :
       \E i \in DOMAIN rows[r] : Handoff(u, s, r, i, b, p, submit)
  \/ Repeat(u, s) \/ TurnAway(u, s)

BillStep(u, b) ==
  \/ \E p \in Places : CreateBill(u, b, p) \/ SaveBill(u, b, p)
  \/ SubmitBill(u, b)

Next ==
  \/ \E u \in Users :
       \/ \E r \in Requests : RequestStep(u, r)
       \/ \E s \in Submissions : HandoffStep(u, s)
       \/ \E b \in Bills : BillStep(u, b)
  \/ \E b \in Bills :
       \/ FinishSubmit(b) \/ Write(b) \/ Drop(b)
       \/ \E decision \in {"approved", "draft"} : DecideBill(b, decision)

Spec == Init /\ [][Next]_vars
-----------------------------------------------------------------------------
\* The requests, their events, the bills and the forms are of their types.
TypeOK ==
  /\ rows \in [Requests -> Seq(Rows)]
  /\ events \in [Requests -> Seq(Events)]
  /\ bill \in [Bills -> BillRows \cup {None}]
  /\ token \in [Submissions -> [request : Requests, version : Nat] \cup {None}]
  /\ saving \in [Bills -> Saves \cup {None}]
  /\ answer \in [Submissions -> {"bill", "refused", "turned_away", None}]
  /\ pending \subseteq Bills
  /\ detours \in 0..MaxDetours

\* What the history says became of a row (MaintenanceRequestEvent).
Replay(row, e) ==
  LET changed(f, old) == IF f \in DOMAIN e.changes THEN e.changes[f] ELSE old IN
  [status   |-> e.to,
   vendor   |-> IF e.action = "assign" THEN e.vendor ELSE changed("vendor", row.vendor),
   place    |-> changed("place", row.place),
   hold     |-> CASE e.action = "hold" -> e.from [] e.action = "resume" -> None
                  [] OTHER -> row.hold,
   outcome  |-> CASE e.action = "close" -> e.outcome [] e.action = "reopen" -> None
                  [] OTHER -> row.outcome,
   reopened |-> IF e.action = "reopen" THEN row.reopened + 1 ELSE row.reopened,
   version  |-> e.version]

\* The events of a request tell every version of it: one event to a version, and each row is
\* the row before it with what the event says done to it; work is resumed where the last hold
\* left it (all writes, _record_event, hold_from_status).
HistoryReplays ==
  \A r \in Requests :
    /\ Len(events[r]) = Len(rows[r])
    /\ \A i \in DOMAIN rows[r] : rows[r][i].version = i
    /\ \A i \in 2..Len(rows[r]) :
         /\ events[r][i].from = rows[r][i - 1].status
         /\ rows[r][i] = Replay(rows[r][i - 1], events[r][i])
         /\ events[r][i].action = "resume" => events[r][i].to = rows[r][i - 1].hold

\* A form in which one field was retyped never takes back what another user changed since
\* the page was loaded (the version check of update).
NoLostUpdate ==
  \A r \in Requests : \A i \in DOMAIN events[r] :
    events[r][i].action = "updated" => Cardinality(DOMAIN events[r][i].changes) <= 1

EventsOf(r, b, action) ==
  {i \in DOMAIN events[r] : events[r][i].action = action /\ events[r][i].bill = b}

\* The link of a bill is what the histories of all requests say of it: linked once more often
\* than unlinked by the request it belongs to, equally often by every other
\* (create_bill, link_bill, unlink_bill).
LinksMatchHistory ==
  \A r \in Requests, b \in Bills :
    Cardinality(EventsOf(r, b, "bill_linked"))
      = Cardinality(EventsOf(r, b, "bill_unlinked"))
        + (IF bill[b] # None /\ bill[b].request = r THEN 1 ELSE 0)

\* A bill form pressed again, once it comes to create_bill, is not refused while the bill it
\* created is linked to its request, whatever happened to the request since (create_bill looks
\* the submission up before it compares versions).
RepeatReusesBill ==
  [][\A s \in Submissions :
       (answer'[s] = "refused" /\ answer[s] # "refused")
         => \A b \in BillOf(s) : bill[b].request # token[s].request]_vars

\* A step creates, places, links or submits the bill.
Touched(b) ==
  \/ bill[b] = None
  \/ bill'[b].place # bill[b].place \/ bill'[b].request # bill[b].request
  \/ bill[b].approval = "draft" /\ bill'[b].approval = "submitted"

\* The version of request r that was current when the writer of the bill looked.
Looked(b, r) == IF saving[b] = None THEN Len(rows[r]) ELSE saving[b].seen

\* A step that places, links or submits a bill leaves it matching a version of its request that
\* was current when the writer, holding the bill's lock, looked or since then: a bill is at odds
\* with its request only by an edit of the request that came after (VendorBill.clean in
\* save_draft, submit, create_bill and link_bill).
BillChangesMatch ==
  [][\A b \in Bills :
       (Linked(b)' /\ Touched(b))
         => LET r == bill'[b].request IN
            \E i \in Looked(b, r)..Len(rows'[r]) :
              i \in DOMAIN rows'[r] /\ Match(rows'[r][i], bill'[b].place)]_vars
============================================================================
