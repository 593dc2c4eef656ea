---------------------- MODULE MaintenanceRequestProofs ----------------------
(***************************************************************************)
(* Proofs about MaintenanceRequest: types, that the events of a request    *)
(* tell every version of it, that no form takes back what it did not show, *)
(* that links are in the history, and what a press of a bill form and a    *)
(* change of a bill may do.                                                *)
(***************************************************************************)
EXTENDS MaintenanceRequest, FiniteSetTheorems, TLAPS

IInv == TypeOK /\ HistoryReplays /\ NoLostUpdate

\* A bill is linked to a request that exists; while its row is locked its link stays, and the
\* row about to be saved matches the version of the request that was looked at.
BillFits(b) ==
  /\ Linked(b) => Exists(bill[b].request)
  /\ saving[b] # None =>
       LET row == saving[b].row  seen == saving[b].seen IN
       /\ bill[b] # None /\ row.request = bill[b].request
       /\ row.request # None =>
            seen \in DOMAIN rows[row.request] /\ Match(rows[row.request][seen], row.place)
BillsFit == \A b \in Bills : BillFits(b)

\* A write to a request: the event says what became of the row.
Writes(r, row, event) ==
  /\ Exists(r) /\ row \in Rows /\ event \in Events
  /\ Record(r, row, event)
  /\ event.from = Current(r).status
  /\ \A n \in Nat : [row EXCEPT !.version = n] = Replay(Current(r), [event EXCEPT !.version = n])
  /\ event.action = "resume" => event.to = Current(r).hold
  /\ event.action = "updated" => Cardinality(DOMAIN event.changes) <= 1
-----------------------------------------------------------------------------
\* What is appended to a sequence comes last, and the rest stays.
LEMMA Appended ==
  ASSUME NEW S, NEW q \in Seq(S), NEW e \in S
  PROVE  /\ Append(q, e) \in Seq(S) /\ Len(q) \in Nat
         /\ Len(Append(q, e)) = Len(q) + 1
         /\ DOMAIN q = 1..Len(q) /\ DOMAIN Append(q, e) = 1..Len(q) + 1
         /\ \A i \in 1..Len(q) : Append(q, e)[i] = q[i]
         /\ Append(q, e)[Len(q) + 1] = e
  OBVIOUS

\* The current row is the last of the versions, and carries their number.
LEMMA CurrentRow ==
  ASSUME TypeOK, HistoryReplays, NEW r \in Requests, Exists(r)
  PROVE  /\ Len(rows[r]) \in Nat \ {0} /\ Current(r) \in Rows
         /\ Current(r).version = Len(rows[r])
         /\ \A i \in DOMAIN rows[r] : Fresh(r, i) => rows[r][i] = Current(r)
  BY DEF TypeOK, HistoryReplays, Exists, Current, Fresh

\* A row is the record of its fields, whatever its version.
LEMMA RowFields ==
  ASSUME NEW row \in Rows, NEW n \in Nat
  PROVE  [row EXCEPT !.version = n] =
           [status |-> row.status, vendor |-> row.vendor, place |-> row.place, hold |-> row.hold,
            outcome |-> row.outcome, reopened |-> row.reopened, version |-> n]
  BY DEF Rows

\* An event without metadata is an event.
LEMMA EventType ==
  ASSUME NEW action \in Actions, NEW from \in Statuses \cup {None}, NEW to \in Statuses,
         NEW n \in Nat
  PROVE  Event(action, from, to, n) \in Events
  <1>1. [f \in {} |-> None] \in UNION {[D -> Vendors \cup {None} \cup Places] :
                                         D \in SUBSET {"vendor", "place"}}
    <2>1. [f \in {} |-> None] \in [{} -> Vendors \cup {None} \cup Places]
      OBVIOUS
    <2> QED BY <2>1
  <1> QED BY <1>1 DEF Event, Events

\* An edit is a write, and changes one field at most: the form shows the current row.
LEMMA UpdateWrites ==
  ASSUME RequestNone, TypeOK, HistoryReplays, NEW u \in Users, NEW r \in Requests, Exists(r),
         NEW i \in DOMAIN rows[r], Fresh(r, i), NEW c \in Typed(rows[r][i]), Update(u, r, c)
  PROVE  \E row \in Rows, event \in Events : Writes(r, row, event) /\ event.bill = None
  <1> DEFINE old   == Current(r)
             row   == [old EXCEPT !.vendor = c.vendor, !.place = c.place]
             diff  == {g \in {"vendor", "place"} : c[g] # old[g]}
             event == [Event("updated", old.status, old.status, 0) EXCEPT !.changes = Changes(old, c)]
  <1>1. old \in Rows /\ rows[r][i] = old
    BY CurrentRow
  <1>2. PICK f \in {"vendor", "place"} :
          /\ c \in Rows /\ diff \subseteq {f}
          /\ \A g \in {"status", "hold", "outcome", "reopened", "version"} : c[g] = old[g]
    <2>1. CASE \E v \in Vendors \cup {None} : c = [old EXCEPT !.vendor = v]
      BY <1>1, <2>1 DEF Rows
    <2>2. CASE \E p \in Places : c = [old EXCEPT !.place = p]
      BY <1>1, <2>2 DEF Rows
    <2> QED BY <1>1, <2>1, <2>2 DEF Typed
  <1>3. row \in Rows
    BY <1>1, <1>2 DEF Rows
  <1>4. /\ Changes(old, c) \in [diff -> Vendors \cup {None} \cup Places]
        /\ diff \in SUBSET {"vendor", "place"}
    BY <1>2 DEF Changes, Rows
  <1>5. Event("updated", old.status, old.status, 0) \in Events
    BY <1>1, EventType DEF Rows, Actions
  <1>6. event \in Events
    BY <1>4, <1>5 DEF Events
  <1>7. Cardinality(diff) <= 1
    <2>1. diff = {} \/ diff = {f}
      BY <1>2
    <2>2. Cardinality({}) = 0 /\ Cardinality({f}) = 1
      BY FS_Singleton, FS_EmptySet
    <2> HIDE DEF diff
    <2> QED BY <2>1, <2>2
  <1>8. DOMAIN event.changes = diff /\ event.changes = Changes(old, c)
    BY <1>4, <1>5 DEF Events
  <1>9. Record(r, row, event)
    BY DEF Update
  <1>10. /\ event.action = "updated" /\ event.from = old.status /\ event.to = old.status
         /\ event.bill = None
    BY DEF Event
  <1>12. /\ row \in Rows /\ row.vendor = c.vendor /\ row.place = c.place
         /\ \A g \in {"status", "hold", "outcome", "reopened", "version"} : row[g] = old[g]
    BY <1>1, <1>3 DEF Rows
  <1> HIDE DEF row
  <1>11. ASSUME NEW n \in Nat
         PROVE  [row EXCEPT !.version = n] = Replay(old, [event EXCEPT !.version = n])
    <2> DEFINE e == [event EXCEPT !.version = n]
    <2>1. e.action = "updated" /\ e.to = old.status /\ e.version = n /\ e.changes = Changes(old, c)
      BY <1>6, <1>8, <1>10 DEF Events
    <2>2. (IF "vendor" \in DOMAIN e.changes THEN e.changes["vendor"] ELSE old.vendor) = c.vendor
      BY <2>1 DEF Changes
    <2>3. (IF "place" \in DOMAIN e.changes THEN e.changes["place"] ELSE old.place) = c.place
      BY <2>1 DEF Changes
    <2> HIDE DEF e
    <2>4. Replay(old, e) =
            [status |-> old.status, vendor |-> c.vendor, place |-> c.place, hold |-> old.hold,
             outcome |-> old.outcome, reopened |-> old.reopened, version |-> n]
      BY <2>1, <2>2, <2>3 DEF Replay
    <2>5. [row EXCEPT !.version = n] =
            [status |-> old.status, vendor |-> c.vendor, place |-> c.place, hold |-> old.hold,
             outcome |-> old.outcome, reopened |-> old.reopened, version |-> n]
      BY <1>12, RowFields
    <2> QED BY <2>4, <2>5 DEF e
  <1> HIDE DEF event, diff
  <1> QED BY <1>3, <1>6, <1>7, <1>8, <1>9, <1>10, <1>11 DEF Writes

\* A write without changes of the editable fields, whose row is what the event says.
LEMMA PlainWrite ==
  ASSUME TypeOK, HistoryReplays, NEW r \in Requests, Exists(r),
         NEW row \in Rows, NEW event \in Events, Record(r, row, event),
         event.action # "updated", event.changes = [f \in {} |-> None],
         event.from = Current(r).status, event.to = row.status,
         row.vendor = IF event.action = "assign" THEN event.vendor ELSE Current(r).vendor,
         row.place = Current(r).place,
         row.hold = CASE event.action = "hold" -> event.from [] event.action = "resume" -> None
                      [] OTHER -> Current(r).hold,
         row.outcome = CASE event.action = "close" -> event.outcome
                         [] event.action = "reopen" -> None [] OTHER -> Current(r).outcome,
         row.reopened = IF event.action = "reopen" THEN Current(r).reopened + 1
                        ELSE Current(r).reopened,
         event.action = "resume" => event.to = Current(r).hold
  PROVE  Writes(r, row, event)
  <1>1. ASSUME NEW n \in Nat
        PROVE  [row EXCEPT !.version = n] = Replay(Current(r), [event EXCEPT !.version = n])
    <2> DEFINE e == [event EXCEPT !.version = n]
    <2>1. /\ e.action = event.action /\ e.from = event.from /\ e.to = event.to
          /\ e.vendor = event.vendor /\ e.outcome = event.outcome /\ e.version = n
          /\ DOMAIN e.changes = {}
      BY DEF Events
    <2> HIDE DEF e
    <2>2. Replay(Current(r), e) =
            [status |-> row.status, vendor |-> row.vendor, place |-> row.place, hold |-> row.hold,
             outcome |-> row.outcome, reopened |-> row.reopened, version |-> n]
      BY <2>1 DEF Replay
    <2> QED BY <2>2, RowFields DEF e
  <1> QED BY <1>1 DEF Writes

\* Every transition of the table is a write.
LEMMA TransitionWrites ==
  ASSUME RequestNone, TypeOK, HistoryReplays, NEW u \in Users, NEW r \in Requests, Exists(r),
         TransitionStep(u, r)
  PROVE  \E row \in Rows, event \in Events : Writes(r, row, event) /\ event.bill = None
  <1> DEFINE old == Current(r)
  <1>1. old \in Rows
    BY CurrentRow
  <1>8. ASSUME NEW action \in DOMAIN Transitions
        PROVE  /\ Noted(r, action) \in Events /\ Transitions[action].to \in Statuses
               /\ Noted(r, action).action = action
               /\ Noted(r, action).changes = [f \in {} |-> None]
               /\ Noted(r, action).from = old.status
               /\ Noted(r, action).to = Transitions[action].to
               /\ Noted(r, action).bill = None
    <2>1. Transitions[action].to \in Statuses /\ action \in Actions /\ old.status \in Statuses
      BY <1>1 DEF Transitions, Statuses, Actions, Rows
    <2>2. Noted(r, action) = Event(action, old.status, Transitions[action].to, 0)
      BY DEF Noted
    <2>3. Noted(r, action) \in Events
      BY <2>1, <2>2, EventType
    <2> QED BY <2>1, <2>2, <2>3 DEF Event
  <1>2. ASSUME NEW action \in {"triage", "start", "verify", "cancel"}, Advance(u, r, action)
        PROVE  \E row \in Rows, event \in Events : Writes(r, row, event) /\ event.bill = None
    <2> DEFINE to    == Transitions[action].to
               row   == [old EXCEPT !.status = to]
               event == Noted(r, action)
    <2>1. action \in DOMAIN Transitions
      BY DEF Transitions
    <2>2. Record(r, row, event)
      BY <1>2 DEF Advance, Transition
    <2>3. /\ event \in Events /\ to \in Statuses
          /\ event.action = action /\ event.changes = [f \in {} |-> None]
          /\ event.from = old.status /\ event.to = to /\ event.bill = None
      BY <1>8, <2>1
    <2>4. row \in Rows
      BY <1>1, <2>3 DEF Rows
    <2>5. /\ row.status = to /\ row.vendor = old.vendor /\ row.place = old.place
          /\ row.hold = old.hold /\ row.outcome = old.outcome /\ row.reopened = old.reopened
      BY <1>1 DEF Rows
    <2> HIDE DEF row, event, to
    <2>6. Writes(r, row, event)
      BY <2>2, <2>3, <2>4, <2>5, PlainWrite
    <2> QED BY <2>3, <2>4, <2>6
  <1>3. ASSUME NEW v \in Vendors \cup {None}, Assign(u, r, v)
        PROVE  \E row \in Rows, event \in Events : Writes(r, row, event) /\ event.bill = None
    <2> DEFINE chosen == IF v # None THEN v ELSE old.vendor
               new    == [old EXCEPT !.vendor = chosen]
               row    == [new EXCEPT !.status = "assigned"]
               event  == [Noted(r, "assign") EXCEPT !.vendor = chosen]
    <2>1. "assign" \in DOMAIN Transitions /\ Transitions["assign"].to = "assigned"
      BY DEF Transitions
    <2>2. Record(r, row, event)
      BY <1>3, <2>1 DEF Assign, Transition
    <2>3. chosen \in Vendors \cup {None}
      BY <1>1 DEF Rows
    <2>4. new \in Rows /\ new.vendor = chosen /\ new.place = old.place
          /\ new.hold = old.hold /\ new.outcome = old.outcome /\ new.reopened = old.reopened
      BY <1>1, <2>3 DEF Rows
    <2> HIDE DEF new, chosen
    <2>5. /\ event \in Events
          /\ event.action = "assign" /\ event.changes = [f \in {} |-> None]
          /\ event.from = old.status /\ event.to = "assigned" /\ event.bill = None
          /\ event.vendor = chosen
      BY <1>8, <2>1, <2>3 DEF Events
    <2>6. /\ row \in Rows
          /\ row.status = "assigned" /\ row.vendor = chosen /\ row.place = old.place
          /\ row.hold = old.hold /\ row.outcome = old.outcome /\ row.reopened = old.reopened
      BY <2>4 DEF Rows, Statuses
    <2> HIDE DEF row, event
    <2>7. Writes(r, row, event)
      BY <2>2, <2>5, <2>6, PlainWrite
    <2> QED BY <2>5, <2>6, <2>7
  <1>4. ASSUME NEW outcome \in Outcomes, Close(u, r, outcome)
        PROVE  \E row \in Rows, event \in Events : Writes(r, row, event) /\ event.bill = None
    <2> DEFINE new   == [old EXCEPT !.outcome = outcome]
               row   == [new EXCEPT !.status = "closed"]
               event == [Noted(r, "close") EXCEPT !.outcome = outcome]
    <2>1. "close" \in DOMAIN Transitions /\ Transitions["close"].to = "closed"
      BY DEF Transitions
    <2>2. Record(r, row, event)
      BY <1>4, <2>1 DEF Close, Transition
    <2>3. new \in Rows /\ new.vendor = old.vendor /\ new.place = old.place
          /\ new.hold = old.hold /\ new.outcome = outcome /\ new.reopened = old.reopened
      BY <1>1 DEF Rows
    <2> HIDE DEF new
    <2>4. /\ event \in Events
          /\ event.action = "close" /\ event.changes = [f \in {} |-> None]
          /\ event.from = old.status /\ event.to = "closed" /\ event.bill = None
          /\ event.outcome = outcome
      BY <1>8, <2>1 DEF Events
    <2>5. /\ row \in Rows
          /\ row.status = "closed" /\ row.vendor = old.vendor /\ row.place = old.place
          /\ row.hold = old.hold /\ row.outcome = outcome /\ row.reopened = old.reopened
      BY <2>3 DEF Rows, Statuses
    <2> HIDE DEF row, event
    <2>6. Writes(r, row, event)
      BY <2>2, <2>4, <2>5, PlainWrite
    <2> QED BY <2>4, <2>5, <2>6
  <1>5. CASE Reopen(u, r)
    <2> DEFINE new   == Reopened(old)
               row   == [new EXCEPT !.status = "triaged"]
               event == Noted(r, "reopen")
    <2>1. "reopen" \in DOMAIN Transitions /\ Transitions["reopen"].to = "triaged"
      BY DEF Transitions
    <2>2. Record(r, row, event)
      BY <1>5, <2>1 DEF Reopen, Transition
    <2>3. /\ new \in Rows /\ new.outcome = None /\ new.reopened = old.reopened + 1
          /\ new.vendor = old.vendor /\ new.place = old.place /\ new.hold = old.hold
      <3>1. old.reopened + 1 \in Nat
        BY <1>1 DEF Rows
      <3> QED BY <1>1, <3>1 DEF Rows, Reopened
    <2> HIDE DEF new
    <2>4. /\ event \in Events
          /\ event.action = "reopen" /\ event.changes = [f \in {} |-> None]
          /\ event.from = old.status /\ event.to = "triaged" /\ event.bill = None
      BY <1>8, <2>1
    <2>5. /\ row \in Rows
          /\ row.status = "triaged" /\ row.vendor = old.vendor /\ row.place = old.place
          /\ row.hold = old.hold /\ row.outcome = None /\ row.reopened = old.reopened + 1
      BY <2>3 DEF Rows, Statuses
    <2> HIDE DEF row, event
    <2>6. Writes(r, row, event)
      BY <2>2, <2>4, <2>5, PlainWrite
    <2> QED BY <2>4, <2>5, <2>6
  <1>6. CASE Hold(u, r)
    <2> DEFINE row   == [Held(old) EXCEPT !.status = "on_hold"]
               event == Event("hold", old.status, "on_hold", 0)
    <2>1. Record(r, row, event) /\ old.status \in Work
      BY <1>6 DEF Hold
    <2>2. event \in Events
      BY <1>1, EventType DEF Rows, Actions, Statuses
    <2>3. /\ event.action = "hold" /\ event.changes = [f \in {} |-> None]
          /\ event.from = old.status /\ event.to = "on_hold" /\ event.bill = None
      BY DEF Event
    <2>4. Held(old) \in Rows
      BY <1>1, <2>1 DEF Rows, Held
    <2>5. row \in Rows
      BY <2>4 DEF Rows, Statuses
    <2>6. /\ row.status = "on_hold" /\ row.vendor = old.vendor /\ row.place = old.place
          /\ row.hold = old.status /\ row.outcome = old.outcome /\ row.reopened = old.reopened
      BY <1>1, <2>4 DEF Rows, Held
    <2> HIDE DEF row, event
    <2>7. Writes(r, row, event)
      BY <2>1, <2>2, <2>3, <2>5, <2>6, PlainWrite
    <2> QED BY <2>2, <2>3, <2>5, <2>7
  <1>7. CASE Resume(u, r)
    <2> DEFINE row   == [old EXCEPT !.status = old.hold, !.hold = None]
               event == Event("resume", "on_hold", old.hold, 0)
    <2>1. Record(r, row, event) /\ old.status = "on_hold" /\ old.hold \in Work
      BY <1>7 DEF Resume
    <2>2. event \in Events
      BY <2>1, EventType DEF Work, Actions, Statuses
    <2>3. /\ event.action = "resume" /\ event.changes = [f \in {} |-> None]
          /\ event.from = old.status /\ event.to = old.hold /\ event.bill = None
      BY <2>1 DEF Event
    <2>4. row \in Rows
      BY <1>1, <2>1 DEF Rows, Work, Statuses
    <2>5. /\ row.status = old.hold /\ row.vendor = old.vendor /\ row.place = old.place
          /\ row.hold = None /\ row.outcome = old.outcome /\ row.reopened = old.reopened
      BY <1>1 DEF Rows
    <2> HIDE DEF row, event
    <2>6. Writes(r, row, event)
      BY <2>1, <2>2, <2>3, <2>4, <2>5, PlainWrite
    <2> QED BY <2>2, <2>3, <2>4, <2>6
  <1> QED BY <1>2, <1>3, <1>4, <1>5, <1>6, <1>7 DEF TransitionStep

\* Linking and unlinking a bill is a write that changes no field.
LEMMA LinkWrites ==
  ASSUME RequestNone, TypeOK, HistoryReplays, NEW r \in Requests, Exists(r), NEW b \in Bills,
         NEW action \in {"bill_linked", "bill_unlinked"}, RecordLink(r, action, b)
  PROVE  \E event \in Events : /\ Writes(r, Current(r), event)
                               /\ event.action = action /\ event.bill = b
  <1> DEFINE old   == Current(r)
             plain == Event(action, old.status, old.status, 0)
             event == [plain EXCEPT !.bill = b]
  <1>1. old \in Rows
    BY CurrentRow
  <1>2. /\ plain \in Events /\ plain.action = action /\ plain.changes = [f \in {} |-> None]
        /\ plain.from = old.status /\ plain.to = old.status
    <2>1. plain \in Events
      BY <1>1, EventType DEF Rows, Actions
    <2> QED BY <2>1 DEF Event
  <1>3. Record(r, old, event)
    BY DEF RecordLink
  <1> HIDE DEF plain
  <1>4. /\ event \in Events /\ event.action = action /\ event.changes = [f \in {} |-> None]
        /\ event.from = old.status /\ event.to = old.status /\ event.bill = b
    BY <1>2 DEF Events
  <1> HIDE DEF event
  <1>5. Writes(r, old, event)
    BY <1>1, <1>3, <1>4, PlainWrite
  <1> QED BY <1>4, <1>5
-----------------------------------------------------------------------------
\* What a write does to the two sequences of its request.
LEMMA WriteEffect ==
  ASSUME TypeOK, HistoryReplays, NEW r \in Requests, NEW row \in Rows, NEW event \in Events,
         Writes(r, row, event)
  PROVE  LET n == Len(rows[r])
             x == [row EXCEPT !.version = n + 1]
             e == [event EXCEPT !.version = n + 1] IN
         /\ n \in Nat \ {0} /\ Len(events[r]) = n /\ x \in Rows /\ e \in Events
         /\ rows' = [rows EXCEPT ![r] = Append(rows[r], x)]
         /\ events' = [events EXCEPT ![r] = Append(events[r], e)]
         /\ x = Replay(rows[r][n], e) /\ e.from = rows[r][n].status
         /\ e.action = event.action /\ e.to = event.to /\ e.changes = event.changes
         /\ e.bill = event.bill
  <1>1. Len(rows[r]) \in Nat \ {0} /\ Current(r).version = Len(rows[r]) /\ Len(events[r]) = Len(rows[r])
    BY CurrentRow DEF Writes, HistoryReplays
  <1> DEFINE n == Len(rows[r])
             x == [row EXCEPT !.version = n + 1]
             e == [event EXCEPT !.version = n + 1]
  <1>2. rows' = [rows EXCEPT ![r] = Append(rows[r], x)] /\ events' = [events EXCEPT ![r] = Append(events[r], e)]
    BY <1>1 DEF Writes, Record, TypeOK
  <1>3. /\ x \in Rows /\ e \in Events /\ e.from = event.from /\ e.action = event.action
        /\ e.to = event.to /\ e.changes = event.changes /\ e.bill = event.bill
    <2>1. n + 1 \in Nat
      BY <1>1
    <2>2. x \in Rows
      BY <2>1 DEF Rows
    <2>3. e \in Events
      BY <2>1 DEF Events
    <2>4. /\ e.from = event.from /\ e.action = event.action /\ e.to = event.to
          /\ e.changes = event.changes /\ e.bill = event.bill
      BY DEF Events
    <2> QED BY <2>2, <2>3, <2>4
  <1>4. x = Replay(Current(r), e) /\ event.from = Current(r).status
    <2>1. n + 1 \in Nat
      BY <1>1
    <2>2. \A m \in Nat : [row EXCEPT !.version = m] = Replay(Current(r), [event EXCEPT !.version = m])
      BY DEF Writes
    <2>3. x = Replay(Current(r), e)
      BY <2>1, <2>2, Zenon
    <2> QED BY <2>3 DEF Writes
  <1> HIDE DEF x, e
  <1>5. /\ n \in Nat \ {0} /\ Len(events[r]) = n /\ x \in Rows /\ e \in Events
        /\ x = Replay(rows[r][n], e) /\ e.from = rows[r][n].status
    BY <1>1, <1>3, <1>4 DEF Current
  <1> QED BY <1>2, <1>3, <1>5 DEF x, e

\* A write keeps the types of the sequences, and the history tells it.
LEMMA WriteStep ==
  ASSUME IInv, NEW r \in Requests, NEW row \in Rows, NEW event \in Events, Writes(r, row, event)
  PROVE  /\ rows' \in [Requests -> Seq(Rows)] /\ events' \in [Requests -> Seq(Events)]
         /\ HistoryReplays' /\ NoLostUpdate'
  <1> USE DEF IInv
  <1> DEFINE n == Len(rows[r])
             x == [row EXCEPT !.version = n + 1]
             e == [event EXCEPT !.version = n + 1]
  <1>1. /\ n \in Nat \ {0} /\ Len(events[r]) = n /\ x \in Rows /\ e \in Events
        /\ rows' = [rows EXCEPT ![r] = Append(rows[r], x)]
        /\ events' = [events EXCEPT ![r] = Append(events[r], e)]
        /\ x = Replay(rows[r][n], e) /\ e.from = rows[r][n].status
        /\ e.action = event.action /\ e.to = event.to /\ e.changes = event.changes
    BY WriteEffect
  <1>2. x.version = n + 1
    BY <1>1 DEF Rows
  <1>3. e.action = "resume" => e.to = rows[r][n].hold
    BY <1>1 DEF Writes, Current
  <1>4. e.action = "updated" => Cardinality(DOMAIN e.changes) <= 1
    BY <1>1 DEF Writes
  <1> HIDE DEF x, e
  <1>5. rows \in [Requests -> Seq(Rows)] /\ events \in [Requests -> Seq(Events)]
    BY DEF TypeOK
  <1>6. /\ rows'[r] = Append(rows[r], x) /\ events'[r] = Append(events[r], e)
        /\ \A q \in Requests : q # r => rows'[q] = rows[q] /\ events'[q] = events[q]
    BY <1>1, <1>5
  <1>7. /\ rows'[r] \in Seq(Rows) /\ Len(rows'[r]) = n + 1 /\ DOMAIN rows'[r] = 1..n + 1
        /\ \A i \in 1..n : rows'[r][i] = rows[r][i]
        /\ rows'[r][n + 1] = x
    BY <1>1, <1>5, <1>6, Appended
  <1>8. /\ events'[r] \in Seq(Events) /\ Len(events'[r]) = n + 1 /\ DOMAIN events'[r] = 1..n + 1
        /\ \A i \in 1..n : events'[r][i] = events[r][i]
        /\ events'[r][n + 1] = e
    BY <1>1, <1>5, <1>6, Appended
  <1>9. DOMAIN rows[r] = 1..n /\ DOMAIN events[r] = 1..n
    BY <1>1, <1>5
  <1>10. rows' \in [Requests -> Seq(Rows)] /\ events' \in [Requests -> Seq(Events)]
    BY <1>1, <1>5, <1>6, <1>7, <1>8
  <1>11. HistoryReplays'
    <2> SUFFICES ASSUME NEW q \in Requests
                 PROVE  /\ Len(events'[q]) = Len(rows'[q])
                        /\ \A i \in DOMAIN rows'[q] : rows'[q][i].version = i
                        /\ \A i \in 2..Len(rows'[q]) :
                             /\ events'[q][i].from = rows'[q][i - 1].status
                             /\ rows'[q][i] = Replay(rows'[q][i - 1], events'[q][i])
                             /\ events'[q][i].action = "resume" => events'[q][i].to = rows'[q][i - 1].hold
      BY DEF HistoryReplays, Replay
    <2>1. CASE q # r
      <3>1. rows'[q] = rows[q] /\ events'[q] = events[q]
        BY <1>6, <2>1
      <3>2. /\ Len(events[q]) = Len(rows[q])
            /\ \A i \in DOMAIN rows[q] : rows[q][i].version = i
            /\ \A i \in 2..Len(rows[q]) :
                 /\ events[q][i].from = rows[q][i - 1].status
                 /\ rows[q][i] = Replay(rows[q][i - 1], events[q][i])
                 /\ events[q][i].action = "resume" => events[q][i].to = rows[q][i - 1].hold
        BY DEF HistoryReplays
      <3> QED BY <3>1, <3>2
    <2>2. CASE q = r
      <3>1. Len(events'[r]) = Len(rows'[r])
        BY <1>7, <1>8
      <3>2. \A i \in DOMAIN rows'[r] : rows'[r][i].version = i
        BY <1>1, <1>2, <1>7, <1>9 DEF HistoryReplays
      <3>3. ASSUME NEW i \in 2..Len(rows'[r])
            PROVE  /\ events'[r][i].from = rows'[r][i - 1].status
                   /\ rows'[r][i] = Replay(rows'[r][i - 1], events'[r][i])
                   /\ events'[r][i].action = "resume" => events'[r][i].to = rows'[r][i - 1].hold
        <4>1. CASE i <= n
          <5>1. i \in 2..Len(rows[r]) /\ i \in 1..n /\ i - 1 \in 1..n
            BY <1>1, <1>7, <4>1
          <5>2. rows'[r][i] = rows[r][i] /\ rows'[r][i - 1] = rows[r][i - 1] /\ events'[r][i] = events[r][i]
            BY <1>7, <1>8, <5>1
          <5> QED BY <5>1, <5>2 DEF HistoryReplays
        <4>2. CASE i = n + 1
          <5>1. rows'[r][i] = x /\ rows'[r][i - 1] = rows[r][n] /\ events'[r][i] = e
            BY <1>1, <1>7, <1>8, <4>2
          <5> QED BY <1>1, <1>3, <5>1
        <4> QED BY <1>1, <1>7, <4>1, <4>2
      <3> QED BY <2>2, <3>1, <3>2, <3>3
    <2> QED BY <2>1, <2>2
  <1>12. NoLostUpdate'
    <2> SUFFICES ASSUME NEW q \in Requests, NEW i \in DOMAIN events'[q],
                        events'[q][i].action = "updated"
                 PROVE  Cardinality(DOMAIN events'[q][i].changes) <= 1
      BY DEF NoLostUpdate
    <2>1. CASE q # r
      BY <1>6, <2>1 DEF NoLostUpdate
    <2>2. CASE q = r /\ i \in 1..n
      BY <1>8, <1>9, <2>2 DEF NoLostUpdate
    <2>3. CASE q = r /\ i = n + 1
      BY <1>4, <1>8, <2>3
    <2> QED BY <1>1, <1>8, <2>1, <2>2, <2>3
  <1> QED BY <1>10, <1>11, <1>12

\* A new request is told by its first event.
LEMMA CreateStep ==
  ASSUME IInv, RequestNone, NEW u \in Users, NEW r \in Requests, NEW v \in Vendors \cup {None},
         NEW p \in Places, Create(u, r, v, p)
  PROVE  /\ rows' \in [Requests -> Seq(Rows)] /\ events' \in [Requests -> Seq(Events)]
         /\ HistoryReplays' /\ NoLostUpdate'
  <1> DEFINE x == [status |-> "open", vendor |-> v, place |-> p, hold |-> None,
                   outcome |-> None, reopened |-> 0, version |-> 1]
             e == Event("created", None, "open", 1)
  <1>1. x \in Rows /\ x.version = 1
    BY DEF Rows, Statuses
  <1>2. e \in Events /\ e.action = "created"
    <2>1. e \in Events
      BY EventType DEF Actions, Statuses
    <2> QED BY <2>1 DEF Event
  <1>3. /\ rows \in [Requests -> Seq(Rows)] /\ events \in [Requests -> Seq(Events)]
        /\ rows' = [rows EXCEPT ![r] = <<x>>] /\ events' = [events EXCEPT ![r] = <<e>>]
    BY DEF IInv, TypeOK, Create
  <1> HIDE DEF x, e
  <1>4. /\ rows'[r] = <<x>> /\ events'[r] = <<e>>
        /\ \A q \in Requests : q # r => rows'[q] = rows[q] /\ events'[q] = events[q]
    BY <1>3
  <1>5. rows' \in [Requests -> Seq(Rows)] /\ events' \in [Requests -> Seq(Events)]
    BY <1>1, <1>2, <1>3
  <1>6. HistoryReplays'
    <2> SUFFICES ASSUME NEW q \in Requests
                 PROVE  /\ Len(events'[q]) = Len(rows'[q])
                        /\ \A i \in DOMAIN rows'[q] : rows'[q][i].version = i
                        /\ \A i \in 2..Len(rows'[q]) :
                             /\ events'[q][i].from = rows'[q][i - 1].status
                             /\ rows'[q][i] = Replay(rows'[q][i - 1], events'[q][i])
                             /\ events'[q][i].action = "resume" => events'[q][i].to = rows'[q][i - 1].hold
      BY DEF HistoryReplays, Replay
    <2>1. CASE q # r
      <3>1. rows'[q] = rows[q] /\ events'[q] = events[q]
        BY <1>4, <2>1
      <3>2. /\ Len(events[q]) = Len(rows[q])
            /\ \A i \in DOMAIN rows[q] : rows[q][i].version = i
            /\ \A i \in 2..Len(rows[q]) :
                 /\ events[q][i].from = rows[q][i - 1].status
                 /\ rows[q][i] = Replay(rows[q][i - 1], events[q][i])
                 /\ events[q][i].action = "resume" => events[q][i].to = rows[q][i - 1].hold
        BY DEF IInv, HistoryReplays
      <3> QED BY <3>1, <3>2
    <2>2. CASE q = r
      <3>1. Len(<<x>>) = 1 /\ Len(<<e>>) = 1 /\ DOMAIN <<x>> = {1} /\ <<x>>[1].version = 1
        BY <1>1
      <3> QED BY <1>4, <2>2, <3>1
    <2> QED BY <2>1, <2>2
  <1>7. NoLostUpdate'
    <2> SUFFICES ASSUME NEW q \in Requests, NEW i \in DOMAIN events'[q],
                        events'[q][i].action = "updated"
                 PROVE  Cardinality(DOMAIN events'[q][i].changes) <= 1
      BY DEF NoLostUpdate
    <2>1. CASE q # r
      BY <1>4, <2>1 DEF IInv, NoLostUpdate
    <2>2. CASE q = r
      BY <1>2, <1>4, <2>2
    <2> QED BY <2>1, <2>2
  <1> QED BY <1>5, <1>6, <1>7
-----------------------------------------------------------------------------
\* Steps that write no request.
BillOnly ==
  \/ \E u \in Users, s \in Submissions : Repeat(u, s) \/ TurnAway(u, s)
  \/ \E u \in Users, b \in Bills : BillStep(u, b)
  \/ \E b \in Bills :
       \/ FinishSubmit(b) \/ Write(b) \/ Drop(b)
       \/ \E decision \in {"approved", "draft"} : DecideBill(b, decision)

\* A page that is not out of date shows a request that exists.
LEMMA FormExists ==
  ASSUME NEW r \in Requests, NEW i \in DOMAIN rows[r], TypeOK
  PROVE  Exists(r)
  BY DEF TypeOK, Exists

\* Every step creates a request, changes one, changes the link of a bill, or writes no request.
LEMMA NextCases ==
  ASSUME RequestNone, IInv, Next
  PROVE  \/ \E u \in Users, r \in Requests, v \in Vendors \cup {None}, p \in Places :
              Create(u, r, v, p)
         \/ \E r \in Requests, row \in Rows, event \in Events :
              /\ Writes(r, row, event) /\ event.bill = None
              /\ UNCHANGED <<bill, saving, forms, pending>> /\ (Detour \/ UNCHANGED detours)
         \/ \E u \in Users, r \in Requests, b \in Bills :
              Exists(r) /\ (LinkBill(u, r, b) \/ UnlinkBill(u, r, b))
         \/ \E u \in Users, s \in Submissions, r \in Requests, b \in Bills, p \in Places,
               submit \in BOOLEAN : \E i \in DOMAIN rows[r] : Handoff(u, s, r, i, b, p, submit)
         \/ BillOnly
  <1> USE DEF IInv
  <1>1. ASSUME NEW u \in Users, NEW r \in Requests, NEW i \in DOMAIN rows[r], Fresh(r, i),
               EditStep(u, r, rows[r][i])
        PROVE  \E row \in Rows, event \in Events :
                 /\ Writes(r, row, event) /\ event.bill = None
                 /\ UNCHANGED <<bill, saving, forms, pending>> /\ Detour
    <2>1. PICK c \in Typed(rows[r][i]) : Update(u, r, c)
      BY <1>1 DEF EditStep
    <2>2. \E row \in Rows, event \in Events : Writes(r, row, event) /\ event.bill = None
      BY <1>1, <2>1, UpdateWrites, FormExists
    <2> QED BY <2>1, <2>2 DEF Update
  <1>2. ASSUME NEW u \in Users, NEW r \in Requests, NEW i \in DOMAIN rows[r], TransitionStep(u, r)
        PROVE  \E row \in Rows, event \in Events :
                 /\ Writes(r, row, event) /\ event.bill = None
                 /\ UNCHANGED <<bill, saving, forms, pending>> /\ (Detour \/ UNCHANGED detours)
    <2>1. \E row \in Rows, event \in Events : Writes(r, row, event) /\ event.bill = None
      BY <1>2, TransitionWrites, FormExists
    <2>2. UNCHANGED <<bill, saving, forms, pending>> /\ (Detour \/ UNCHANGED detours)
      BY <1>2 DEF TransitionStep, Advance, Assign, Close, Reopen, Hold, Resume, Transition
    <2> QED BY <2>1, <2>2
  <1>3. ASSUME NEW u \in Users, NEW r \in Requests, RequestStep(u, r)
        PROVE  \/ \E v \in Vendors \cup {None}, p \in Places : Create(u, r, v, p)
               \/ \E row \in Rows, event \in Events :
                    /\ Writes(r, row, event) /\ event.bill = None
                    /\ UNCHANGED <<bill, saving, forms, pending>> /\ (Detour \/ UNCHANGED detours)
               \/ \E b \in Bills : Exists(r) /\ (LinkBill(u, r, b) \/ UnlinkBill(u, r, b))
    <2>1. CASE \E v \in Vendors \cup {None}, p \in Places : Create(u, r, v, p)
      BY <2>1
    <2>2. ASSUME NEW i \in DOMAIN rows[r], Fresh(r, i),
                 EditStep(u, r, rows[r][i]) \/ TransitionStep(u, r) \/ LinkStep(u, r)
          PROVE  \/ \E row \in Rows, event \in Events :
                      /\ Writes(r, row, event) /\ event.bill = None
                      /\ UNCHANGED <<bill, saving, forms, pending>> /\ (Detour \/ UNCHANGED detours)
                 \/ \E b \in Bills : Exists(r) /\ (LinkBill(u, r, b) \/ UnlinkBill(u, r, b))
      <3>1. CASE EditStep(u, r, rows[r][i])
        BY <1>1, <2>2, <3>1
      <3>2. CASE TransitionStep(u, r)
        BY <1>2, <2>2, <3>2
      <3>3. CASE LinkStep(u, r)
        BY <2>2, <3>3, FormExists DEF LinkStep
      <3> QED BY <2>2, <3>1, <3>2, <3>3
    <2> QED BY <1>3, <2>1, <2>2 DEF RequestStep
  <1>4. ASSUME NEW u \in Users, NEW s \in Submissions, HandoffStep(u, s)
        PROVE  \/ \E r \in Requests, b \in Bills, p \in Places, submit \in BOOLEAN :
                    \E i \in DOMAIN rows[r] : Handoff(u, s, r, i, b, p, submit)
               \/ Repeat(u, s) \/ TurnAway(u, s)
    BY <1>4 DEF HandoffStep
  <1>5. \/ \E u \in Users, r \in Requests : RequestStep(u, r)
        \/ \E u \in Users, s \in Submissions : HandoffStep(u, s)
        \/ \E u \in Users, b \in Bills : BillStep(u, b)
        \/ \E b \in Bills :
             \/ FinishSubmit(b) \/ Write(b) \/ Drop(b)
             \/ \E decision \in {"approved", "draft"} : DecideBill(b, decision)
    BY DEF Next
  <1>6. CASE \E u \in Users, r \in Requests : RequestStep(u, r)
    BY <1>3, <1>6
  <1>7. CASE \E u \in Users, s \in Submissions : HandoffStep(u, s)
    BY <1>4, <1>7 DEF BillOnly
  <1> QED BY <1>5, <1>6, <1>7 DEF BillOnly

\* The writes of a link and of a handoff.
LEMMA LinkCase ==
  ASSUME RequestNone, IInv, NEW u \in Users, NEW r \in Requests, NEW b \in Bills, Exists(r)
  PROVE  /\ LinkBill(u, r, b) =>
              \E event \in Events : /\ Writes(r, Current(r), event)
                                    /\ event.bill = b /\ event.action = "bill_linked"
         /\ UnlinkBill(u, r, b) =>
              \E event \in Events : /\ Writes(r, Current(r), event)
                                    /\ event.bill = b /\ event.action = "bill_unlinked"
         /\ Current(r) \in Rows
  BY LinkWrites, CurrentRow DEF LinkBill, UnlinkBill, IInv

LEMMA HandoffCase ==
  ASSUME RequestNone, IInv, NEW u \in Users, NEW s \in Submissions, NEW r \in Requests,
         NEW b \in Bills, NEW p \in Places, NEW submit \in BOOLEAN, NEW i \in DOMAIN rows[r],
         Handoff(u, s, r, i, b, p, submit)
  PROVE  /\ Exists(r) /\ Current(r) \in Rows
         /\ \E event \in Events : /\ Writes(r, Current(r), event)
                                  /\ event.bill = b /\ event.action = "bill_linked"
  <1>1. TypeOK /\ HistoryReplays /\ Exists(r)
    BY FormExists DEF IInv
  <1>2. RecordLink(r, "bill_linked", b)
    BY DEF Handoff
  <1> QED BY <1>1, <1>2, LinkWrites, CurrentRow
-----------------------------------------------------------------------------
\* The initial states have no requests, and no history.
LEMMA Initially ==
  ASSUME RequestAssumption, Init
  PROVE  IInv
  <1> USE DEF Init
  <1>1. rows \in [Requests -> Seq(Rows)] /\ events \in [Requests -> Seq(Events)]
    OBVIOUS
  <1>2. \A r \in Requests : rows[r] = <<>> /\ events[r] = <<>>
    OBVIOUS
  <1>3. TypeOK
    BY <1>1, RequestAssumption DEF TypeOK
  <1>4. HistoryReplays /\ NoLostUpdate
    BY <1>2 DEF HistoryReplays, NoLostUpdate
  <1> QED BY <1>3, <1>4 DEF IInv

\* A counted step stays within its bound.
LEMMA Counted ==
  ASSUME RequestAssumption, TypeOK, Detour \/ UNCHANGED detours
  PROVE  detours' \in 0..MaxDetours
  BY DEF RequestAssumption, TypeOK, Detour

\* A bill with another link is a bill.
LEMMA BillLinks ==
  ASSUME NEW y \in BillRows
  PROVE  \A q \in Requests \cup {None} : [y EXCEPT !.request = q] \in BillRows
  BY DEF BillRows

\* Writing one bill keeps the bills of their type.
LEMMA BillWritten ==
  ASSUME bill \in [Bills -> BillRows \cup {None}], NEW b \in Bills, NEW x \in BillRows,
         bill' = [bill EXCEPT ![b] = x]
  PROVE  bill' \in [Bills -> BillRows \cup {None}]
  OBVIOUS

\* What a step that writes no request does to a bill: a look at its request, the end of its
\* lock, its creation without a request, or a decision about it.
Looks(b, x) ==
  Check(b, x) /\ bill[b] # None /\ x.request = bill[b].request /\ UNCHANGED bill
Ends(b, x) ==
  /\ saving[b] # None /\ x \in {bill[b], saving[b].row}
  /\ bill' = [bill EXCEPT ![b] = x] /\ saving' = [saving EXCEPT ![b] = None]
Enters(b, x) ==
  /\ bill[b] = None /\ x \in BillRows /\ x.request = None
  /\ bill' = [bill EXCEPT ![b] = x] /\ UNCHANGED saving
Decides(b, x) ==
  /\ Unlocked(b) /\ bill[b].approval = "submitted" /\ x \in BillRows
  /\ x.request = bill[b].request /\ x.place = bill[b].place
  /\ bill' = [bill EXCEPT ![b] = x] /\ UNCHANGED saving

\* The steps that write no request do one of these to one bill, or write no bill.
LEMMA BillSteps ==
  ASSUME TypeOK, BillOnly
  PROVE  /\ UNCHANGED <<rows, events, token>>
         /\ \/ UNCHANGED <<bill, saving>>
            \/ \E b \in Bills, x \in BillRows : Looks(b, x)
            \/ \E b \in Bills, x \in BillRows \cup {None} : Ends(b, x)
            \/ \E b \in Bills, x \in BillRows : Enters(b, x) \/ Decides(b, x)
  <1> USE DEF history, forms
  <1> DEFINE Kept == \/ UNCHANGED <<bill, saving>>
                     \/ \E b \in Bills, x \in BillRows : Looks(b, x)
                     \/ \E b \in Bills, x \in BillRows \cup {None} : Ends(b, x)
                     \/ \E b \in Bills, x \in BillRows : Enters(b, x) \/ Decides(b, x)
  <1>1. UNCHANGED <<rows, events, token>>
    BY DEF BillOnly, Repeat, TurnAway, BillStep, CreateBill, SaveBill, SubmitBill, FinishSubmit,
           Write, Drop, DecideBill
  <1>2. ASSUME NEW b \in Bills, Submits(b), UNCHANGED bill
        PROVE  Kept
    <2> DEFINE x == [bill[b] EXCEPT !.approval = "submitted"]
    <2>1. bill[b] \in BillRows /\ bill[b] # None /\ Check(b, x)
      BY <1>2 DEF TypeOK, Submits
    <2>2. x \in BillRows /\ x.request = bill[b].request
      BY <2>1 DEF BillRows
    <2> HIDE DEF x
    <2>3. Looks(b, x)
      BY <1>2, <2>1, <2>2 DEF Looks
    <2> QED BY <2>2, <2>3
  <1>3. ASSUME NEW u \in Users, NEW b \in Bills, NEW p \in Places, SaveBill(u, b, p)
        PROVE  Kept
    <2> DEFINE x == [bill[b] EXCEPT !.place = p, !.approval = "draft"]
    <2>1. bill[b] \in BillRows /\ bill[b] # None /\ Check(b, x) /\ UNCHANGED bill
      BY <1>3 DEF TypeOK, SaveBill
    <2>2. x \in BillRows /\ x.request = bill[b].request
      BY <2>1 DEF BillRows
    <2> HIDE DEF x
    <2>3. Looks(b, x)
      BY <2>1, <2>2 DEF Looks
    <2> QED BY <2>2, <2>3
  <1>4. ASSUME NEW u \in Users, NEW b \in Bills, NEW p \in Places, CreateBill(u, b, p)
        PROVE  Kept
    <2>1. NewBill(p, None, None) \in BillRows /\ NewBill(p, None, None).request = None
      BY DEF NewBill, BillRows
    <2> QED BY <1>4, <2>1 DEF CreateBill, Enters
  <1>5. ASSUME NEW b \in Bills, NEW decision \in {"approved", "draft"}, DecideBill(b, decision)
        PROVE  Kept
    <2> DEFINE x == [bill[b] EXCEPT !.approval = decision]
    <2>1. bill[b] \in BillRows /\ Unlocked(b) /\ bill[b].approval = "submitted"
      BY <1>5 DEF TypeOK, DecideBill, Unlocked
    <2>2. x \in BillRows /\ x.request = bill[b].request /\ x.place = bill[b].place
      BY <2>1 DEF BillRows
    <2>3. bill' = [bill EXCEPT ![b] = x] /\ UNCHANGED saving
      BY <1>5 DEF DecideBill
    <2> HIDE DEF x
    <2>4. Decides(b, x)
      BY <2>1, <2>2, <2>3 DEF Decides
    <2> QED BY <2>2, <2>4
  <1>6. ASSUME NEW b \in Bills, Write(b)
        PROVE  Kept
    <2>1. saving[b].row \in BillRows
      BY <1>6 DEF Write, TypeOK, Saves
    <2>2. Ends(b, saving[b].row)
      BY <1>6 DEF Write, Ends
    <2> QED BY <2>1, <2>2
  <1>7. ASSUME NEW b \in Bills, Drop(b)
        PROVE  Kept
    <2>1. bill[b] \in BillRows \cup {None} /\ bill' = [bill EXCEPT ![b] = bill[b]]
      BY <1>7 DEF Drop, TypeOK
    <2>2. Ends(b, bill[b])
      BY <1>7, <2>1 DEF Drop, Ends
    <2> QED BY <2>1, <2>2
  <1>8. ASSUME NEW b \in Bills, FinishSubmit(b)
        PROVE  Kept
    BY <1>2, <1>8 DEF FinishSubmit
  <1>9. ASSUME NEW u \in Users, NEW b \in Bills, BillStep(u, b)
        PROVE  Kept
    BY <1>2, <1>3, <1>4, <1>9 DEF BillStep, SubmitBill
  <1>10. ASSUME NEW u \in Users, NEW s \in Submissions, Repeat(u, s) \/ TurnAway(u, s)
         PROVE  Kept
    BY <1>10 DEF Repeat, TurnAway
  <1> HIDE DEF Kept
  <1>11. Kept
    BY <1>5, <1>6, <1>7, <1>8, <1>9, <1>10 DEF BillOnly
  <1> QED BY <1>1, <1>11 DEF Kept

\* They keep the bills and the rows about to be saved of their types.
LEMMA BillTypes ==
  ASSUME RequestNone, TypeOK, BillOnly
  PROVE  bill' \in [Bills -> BillRows \cup {None}] /\ saving' \in [Bills -> Saves \cup {None}]
  <1>1. bill \in [Bills -> BillRows \cup {None}] /\ saving \in [Bills -> Saves \cup {None}]
    BY DEF TypeOK
  <1>2. ASSUME NEW b \in Bills, NEW x \in BillRows, Looks(b, x)
        PROVE  saving' \in [Bills -> Saves \cup {None}]
    <2> DEFINE seen == IF x.request = None THEN 0 ELSE Len(rows[x.request])
    <2>1. seen \in Nat
      <3>1. CASE x.request = None
        BY <3>1
      <3>2. CASE x.request # None
        <4>1. rows[x.request] \in Seq(Rows)
          BY <3>2 DEF BillRows, TypeOK
        <4> QED BY <3>2, <4>1
      <3> QED BY <3>1, <3>2
    <2>2. saving' = [saving EXCEPT ![b] = [row |-> x, seen |-> seen]]
      BY <1>2 DEF Looks, Check
    <2> HIDE DEF seen
    <2>3. [row |-> x, seen |-> seen] \in Saves
      BY <2>1 DEF Saves
    <2> QED BY <1>1, <2>2, <2>3
  <1>3. ASSUME NEW b \in Bills, NEW x \in BillRows \cup {None}, Ends(b, x)
        PROVE  bill' \in [Bills -> BillRows \cup {None}] /\ saving' \in [Bills -> Saves \cup {None}]
    BY <1>1, <1>3 DEF Ends
  <1>4. ASSUME NEW b \in Bills, NEW x \in BillRows, Enters(b, x) \/ Decides(b, x)
        PROVE  bill' \in [Bills -> BillRows \cup {None}] /\ UNCHANGED saving
    BY <1>1, <1>4 DEF Enters, Decides
  <1>5. \A b \in Bills, x \in BillRows : Looks(b, x) => UNCHANGED bill
    BY DEF Looks
  <1> QED BY <1>1, <1>2, <1>3, <1>4, <1>5, BillSteps

\* A step of the system keeps the types and the history.
LEMMA Inductive ==
  ASSUME RequestAssumption, RequestNone, IInv, [Next]_vars
  PROVE  IInv'
  <1> USE DEF history, forms
  <1>1. TypeOK
    BY DEF IInv
  <1>2. ASSUME NEW u \in Users, NEW r \in Requests, NEW v \in Vendors \cup {None},
               NEW p \in Places, Create(u, r, v, p)
        PROVE  IInv'
    <2>1. /\ rows' \in [Requests -> Seq(Rows)] /\ events' \in [Requests -> Seq(Events)]
          /\ HistoryReplays' /\ NoLostUpdate'
      BY <1>2, CreateStep
    <2>2. UNCHANGED <<bill, saving, token, answer, pending>>
      BY <1>2 DEF Create
    <2>3. detours' \in 0..MaxDetours
      BY <1>1, <1>2, Counted DEF Create
    <2> QED BY <1>1, <2>1, <2>2, <2>3 DEF IInv, TypeOK
  <1>3. ASSUME NEW r \in Requests, NEW row \in Rows, NEW event \in Events, Writes(r, row, event),
               UNCHANGED <<bill, saving, forms, pending>>, Detour \/ UNCHANGED detours
        PROVE  IInv'
    <2>1. /\ rows' \in [Requests -> Seq(Rows)] /\ events' \in [Requests -> Seq(Events)]
          /\ HistoryReplays' /\ NoLostUpdate'
      BY <1>3, WriteStep
    <2>2. detours' \in 0..MaxDetours
      BY <1>1, <1>3, Counted
    <2> QED BY <1>1, <1>3, <2>1, <2>2 DEF IInv, TypeOK
  <1>4. ASSUME NEW u \in Users, NEW r \in Requests, NEW b \in Bills, Exists(r),
               LinkBill(u, r, b) \/ UnlinkBill(u, r, b)
        PROVE  IInv'
    <2>1. /\ rows' \in [Requests -> Seq(Rows)] /\ events' \in [Requests -> Seq(Events)]
          /\ HistoryReplays' /\ NoLostUpdate'
      BY <1>4, LinkCase, WriteStep
    <2>2. bill[b] \in BillRows
      BY <1>1, <1>4 DEF LinkBill, UnlinkBill, Unlocked, TypeOK
    <2>3. bill' \in [Bills -> BillRows \cup {None}]
      <3>1. ASSUME NEW q \in Requests \cup {None},
                   bill' = [bill EXCEPT ![b] = [bill[b] EXCEPT !.request = q]]
            PROVE  bill' \in [Bills -> BillRows \cup {None}]
        BY <1>1, <2>2, <3>1, BillLinks, BillWritten DEF TypeOK
      <3>2. CASE bill' = [bill EXCEPT ![b].request = r]
        BY <3>1, <3>2
      <3>3. CASE bill' = [bill EXCEPT ![b].request = None]
        BY <3>1, <3>3
      <3> QED BY <1>4, <3>2, <3>3 DEF LinkBill, UnlinkBill
    <2>4. detours' \in 0..MaxDetours
      BY <1>1, <1>4, Counted DEF LinkBill, UnlinkBill
    <2>5. UNCHANGED <<saving, token, answer, pending>>
      BY <1>4 DEF LinkBill, UnlinkBill
    <2> QED BY <1>1, <2>1, <2>3, <2>4, <2>5 DEF IInv, TypeOK
  <1>5. ASSUME NEW u \in Users, NEW s \in Submissions, NEW r \in Requests, NEW b \in Bills,
               NEW p \in Places, NEW submit \in BOOLEAN, NEW i \in DOMAIN rows[r],
               Handoff(u, s, r, i, b, p, submit)
        PROVE  IInv'
    <2>1. /\ rows' \in [Requests -> Seq(Rows)] /\ events' \in [Requests -> Seq(Events)]
          /\ HistoryReplays' /\ NoLostUpdate'
      BY <1>5, HandoffCase, WriteStep
    <2>2. NewBill(p, r, s) \in BillRows
      BY DEF NewBill, BillRows
    <2>3. bill' \in [Bills -> BillRows \cup {None}]
      BY <1>1, <1>5, <2>2 DEF Handoff, TypeOK
    <2>4. rows[r][i].version \in Nat
      <3>1. rows[r] \in Seq(Rows)
        BY <1>1 DEF TypeOK
      <3>2. rows[r][i] \in Rows
        BY <3>1
      <3> QED BY <3>2 DEF Rows
    <2>5. token' \in [Submissions -> [request : Requests, version : Nat] \cup {None}]
      BY <1>1, <1>5, <2>4 DEF Handoff, TypeOK
    <2>6. /\ answer' \in [Submissions -> {"bill", "refused", "turned_away", None}]
          /\ pending' \subseteq Bills /\ UNCHANGED saving
      BY <1>1, <1>5 DEF Handoff, TypeOK
    <2>7. detours' \in 0..MaxDetours
      BY <1>1, <1>5, Counted DEF Handoff
    <2> QED BY <1>1, <2>1, <2>3, <2>5, <2>6, <2>7 DEF IInv, TypeOK
  <1>6. CASE BillOnly
    <2> USE DEF BillOnly, Repeat, TurnAway, BillStep, CreateBill, SaveBill, SubmitBill,
                FinishSubmit, Write, Drop, DecideBill
    <2>1. UNCHANGED <<rows, events, token>>
      BY <1>6
    <2>2. HistoryReplays' /\ NoLostUpdate'
      BY <2>1 DEF IInv, HistoryReplays, NoLostUpdate, Replay
    <2>3. /\ answer' \in [Submissions -> {"bill", "refused", "turned_away", None}]
          /\ pending' \subseteq Bills
      BY <1>1, <1>6 DEF TypeOK
    <2>4. detours' \in 0..MaxDetours
      BY <1>1, <1>6, Counted
    <2>5. bill' \in [Bills -> BillRows \cup {None}] /\ saving' \in [Bills -> Saves \cup {None}]
      BY <1>1, <1>6, BillTypes
    <2> QED BY <1>1, <2>1, <2>2, <2>3, <2>4, <2>5 DEF IInv, TypeOK
  <1>7. CASE UNCHANGED vars
    BY <1>7 DEF vars, IInv, TypeOK, HistoryReplays, NoLostUpdate, Replay
  <1>8. CASE Next
    BY <1>2, <1>3, <1>4, <1>5, <1>6, <1>8, NextCases
  <1> QED BY <1>7, <1>8
-----------------------------------------------------------------------------
\* The versions of a request stay, and new ones come after them.
LEMMA RowsGrow ==
  ASSUME RequestNone, IInv, [Next]_vars, NEW q \in Requests
  PROVE  /\ Len(rows[q]) \in Nat /\ Len(rows'[q]) \in Nat /\ Len(rows[q]) <= Len(rows'[q])
         /\ DOMAIN rows[q] = 1..Len(rows[q]) /\ DOMAIN rows'[q] = 1..Len(rows'[q])
         /\ \A i \in DOMAIN rows[q] : i \in DOMAIN rows'[q] /\ rows'[q][i] = rows[q][i]
         /\ Exists(q) => Exists(q)'
  <1> USE DEF history, forms
  <1>1. TypeOK /\ rows[q] \in Seq(Rows)
    BY DEF IInv, TypeOK
  <1> DEFINE Grows == \/ rows'[q] = rows[q] \/ \E x \in Rows : rows'[q] = Append(rows[q], x)
  <1>2. ASSUME NEW u \in Users, NEW r \in Requests, NEW v \in Vendors \cup {None},
               NEW p \in Places, Create(u, r, v, p)
        PROVE  Grows
    <2> DEFINE x == [status |-> "open", vendor |-> v, place |-> p, hold |-> None,
                     outcome |-> None, reopened |-> 0, version |-> 1]
    <2>1. x \in Rows
      BY DEF Rows, Statuses
    <2>2. rows' = [rows EXCEPT ![r] = <<x>>] /\ rows[r] = <<>>
      BY <1>2 DEF Create, Exists
    <2> HIDE DEF x
    <2>3. <<x>> = Append(<<>>, x)
      OBVIOUS
    <2>4. rows'[q] = IF q = r THEN <<x>> ELSE rows[q]
      BY <1>1, <2>2 DEF TypeOK
    <2> QED BY <2>1, <2>2, <2>3, <2>4
  <1>3. ASSUME NEW r \in Requests, NEW row \in Rows, NEW event \in Events, Writes(r, row, event)
        PROVE  Grows
    <2> DEFINE x == [row EXCEPT !.version = Len(rows[r]) + 1]
    <2>1. x \in Rows /\ rows' = [rows EXCEPT ![r] = Append(rows[r], x)]
      BY <1>3, WriteEffect DEF IInv
    <2> HIDE DEF x
    <2>2. rows'[q] = IF q = r THEN Append(rows[r], x) ELSE rows[q]
      BY <1>1, <2>1 DEF TypeOK
    <2> QED BY <2>1, <2>2
  <1> HIDE DEF Grows
  <1>4. ASSUME NEW u \in Users, NEW r \in Requests, NEW b \in Bills, Exists(r),
               LinkBill(u, r, b) \/ UnlinkBill(u, r, b)
        PROVE  Grows
    BY <1>3, <1>4, LinkCase
  <1>5. ASSUME NEW u \in Users, NEW s \in Submissions, NEW r \in Requests, NEW b \in Bills,
               NEW p \in Places, NEW submit \in BOOLEAN, NEW i \in DOMAIN rows[r],
               Handoff(u, s, r, i, b, p, submit)
        PROVE  Grows
    BY <1>3, <1>5, HandoffCase
  <1>6. ASSUME BillOnly
        PROVE  Grows
    BY <1>1, <1>6, BillSteps DEF Grows
  <1>7. ASSUME UNCHANGED vars
        PROVE  Grows
    BY <1>7 DEF vars, Grows
  <1>8. ASSUME Next
        PROVE  Grows
    BY <1>2, <1>3, <1>4, <1>5, <1>6, <1>8, NextCases
  <1>9. Grows
    BY <1>7, <1>8
  <1>10. CASE rows'[q] = rows[q]
    BY <1>1, <1>10 DEF Exists
  <1>11. ASSUME NEW x \in Rows, rows'[q] = Append(rows[q], x)
         PROVE  /\ Len(rows'[q]) = Len(rows[q]) + 1 /\ Len(rows[q]) \in Nat
                /\ DOMAIN rows[q] = 1..Len(rows[q]) /\ DOMAIN rows'[q] = 1..Len(rows[q]) + 1
                /\ \A i \in 1..Len(rows[q]) : rows'[q][i] = rows[q][i]
    BY <1>1, <1>11, Appended
  <1>12. ASSUME NEW x \in Rows, rows'[q] = Append(rows[q], x)
         PROVE  Exists(q)'
    <2>1. Len(rows'[q]) # 0
      BY <1>11, <1>12
    <2> QED BY <2>1 DEF Exists
  <1> QED BY <1>9, <1>10, <1>11, <1>12 DEF Grows

\* What a bill is about to be saved as keeps to its link and to what was looked at.
LEMMA FitKept ==
  ASSUME RequestNone, RequestAssumption, IInv, BillsFit, [Next]_vars
  PROVE  BillsFit'
  <1> USE DEF history, forms
  <1> SUFFICES ASSUME NEW d \in Bills
               PROVE  BillFits(d)'
    BY DEF BillsFit
  <1>1. TypeOK /\ BillFits(d) /\ None \notin BillRows /\ None \notin Saves
    BY DEF IInv, BillsFit, RequestNone
  <1>2. /\ bill[d] # None => bill[d] \in BillRows
        /\ saving[d] # None => saving[d].row \in BillRows /\ saving[d].seen \in Nat
    BY <1>1 DEF TypeOK, Saves
  <1>3. ASSUME bill'[d] = bill[d], saving'[d] = saving[d]
        PROVE  BillFits(d)'
    <2>1. ASSUME Linked(d)
          PROVE  rows'[bill[d].request] # <<>>
      <3>1. bill[d].request \in Requests /\ Exists(bill[d].request)
        BY <1>1, <1>2, <2>1 DEF BillFits, Linked, BillRows
      <3> DEFINE r == bill[d].request
      <3> HIDE DEF r
      <3>2. r \in Requests /\ Exists(r) => rows'[r] # <<>>
        BY RowsGrow DEF Exists
      <3> QED BY <3>1, <3>2 DEF r
    <2>2. ASSUME saving[d] # None, saving[d].row.request # None
          PROVE  /\ saving[d].seen \in DOMAIN rows'[saving[d].row.request]
                 /\ Match(rows'[saving[d].row.request][saving[d].seen], saving[d].row.place)
      <3> DEFINE r == saving[d].row.request
                 n == saving[d].seen
      <3>1. r \in Requests /\ n \in DOMAIN rows[r] /\ Match(rows[r][n], saving[d].row.place)
        BY <1>1, <1>2, <2>2 DEF BillFits, BillRows
      <3>2. n \in DOMAIN rows'[r] /\ rows'[r][n] = rows[r][n]
        BY <3>1, RowsGrow
      <3> QED BY <3>1, <3>2
    <2> QED BY <1>1, <1>3, <2>1, <2>2 DEF BillFits, Linked, Exists
  <1>4. ASSUME NEW r \in Requests, Exists(r), NEW x \in BillRows, bill'[d] = x,
               x.request \in {r, None}, saving'[d] = None
        PROVE  BillFits(d)'
    <2>1. Exists(r)'
      BY <1>4, RowsGrow
    <2> QED BY <1>4, <2>1 DEF BillFits, Linked, Exists
  <1>5. ASSUME NEW u \in Users, NEW r \in Requests, NEW b \in Bills, Exists(r),
               LinkBill(u, r, b) \/ UnlinkBill(u, r, b)
        PROVE  BillFits(d)'
    <2>1. bill[b] \in BillRows /\ saving[b] = None /\ UNCHANGED saving
      BY <1>1, <1>5 DEF LinkBill, UnlinkBill, Unlocked, TypeOK
    <2>2. PICK q \in {r, None} : bill' = [bill EXCEPT ![b] = [bill[b] EXCEPT !.request = q]]
      BY <1>5 DEF LinkBill, UnlinkBill
    <2> DEFINE x == [bill[b] EXCEPT !.request = q]
    <2>3. x \in BillRows /\ x.request = q
      BY <2>1 DEF BillRows
    <2> HIDE DEF x
    <2>4. bill'[d] = IF d = b THEN x ELSE bill[d]
      BY <1>1, <2>2 DEF x, TypeOK
    <2>5. CASE d = b
      BY <1>4, <1>5, <2>1, <2>3, <2>4, <2>5
    <2> QED BY <1>3, <2>1, <2>4, <2>5
  <1>6. ASSUME NEW u \in Users, NEW s \in Submissions, NEW r \in Requests, NEW b \in Bills,
               NEW p \in Places, NEW submit \in BOOLEAN, NEW i \in DOMAIN rows[r],
               Handoff(u, s, r, i, b, p, submit)
        PROVE  BillFits(d)'
    <2>1. NewBill(p, r, s) \in BillRows /\ NewBill(p, r, s).request = r
      BY DEF NewBill, BillRows
    <2>2. bill' = [bill EXCEPT ![b] = NewBill(p, r, s)] /\ bill[b] = None /\ UNCHANGED saving
      BY <1>6 DEF Handoff
    <2>3. bill'[d] = IF d = b THEN NewBill(p, r, s) ELSE bill[d]
      BY <1>1, <2>2 DEF TypeOK
    <2>4. Exists(r)
      BY <1>6, HandoffCase
    <2>5. CASE d = b
      <3>1. saving[d] = None
        BY <1>1, <2>2, <2>5 DEF BillFits
      <3> QED BY <1>4, <2>1, <2>2, <2>3, <2>4, <2>5, <3>1
    <2> QED BY <1>3, <2>2, <2>3, <2>5
  <1>7. CASE BillOnly
    <2>1. UNCHANGED rows
      BY <1>1, <1>7, BillSteps
    <2>2. ASSUME NEW b \in Bills, NEW x \in BillRows, Looks(b, x)
          PROVE  BillFits(d)'
      <3> DEFINE seen == IF x.request = None THEN 0 ELSE Len(rows[x.request])
                 k    == [row |-> x, seen |-> seen]
      <3>1. /\ UNCHANGED bill /\ saving' = [saving EXCEPT ![b] = k]
            /\ bill[b] # None /\ x.request = bill[b].request /\ Placeable(b, x.place)
        BY <2>2 DEF Looks, Check
      <3>2. saving'[d] = IF d = b THEN k ELSE saving[d]
        BY <1>1, <3>1 DEF TypeOK
      <3>3. CASE d = b
        <4>1. ASSUME x.request # None
              PROVE  seen \in DOMAIN rows[x.request] /\ Match(rows[x.request][seen], x.place)
          <5>1. x.request \in Requests /\ Exists(x.request)
            BY <1>1, <3>1, <3>3, <4>1 DEF BillFits, Linked, BillRows
          <5>2. /\ Match(Current(x.request), x.place) /\ seen = Len(rows[x.request])
            BY <3>1, <4>1 DEF Placeable
          <5>3. rows[x.request] \in Seq(Rows) /\ rows[x.request] # <<>>
            BY <1>1, <5>1 DEF TypeOK, Exists
          <5> HIDE DEF seen
          <5>4. seen \in DOMAIN rows[x.request]
            BY <5>2, <5>3
          <5> QED BY <5>2, <5>4 DEF Current
        <4>2. k.row = x /\ k.seen = seen
          OBVIOUS
        <4> HIDE DEF k, seen
        <4>3. Linked(d) => Exists(bill[d].request)
          BY <1>1 DEF BillFits
        <4> QED BY <2>1, <3>1, <3>2, <3>3, <4>1, <4>2, <4>3 DEF BillFits, Linked, Exists
      <3> QED BY <1>3, <3>1, <3>2, <3>3
    <2>3. ASSUME NEW b \in Bills, NEW x \in BillRows \cup {None}, Ends(b, x)
          PROVE  BillFits(d)'
      <3>1. /\ saving[b] # None /\ x \in {bill[b], saving[b].row}
            /\ bill' = [bill EXCEPT ![b] = x] /\ saving' = [saving EXCEPT ![b] = None]
        BY <2>3 DEF Ends
      <3>2. /\ bill'[d] = IF d = b THEN x ELSE bill[d]
            /\ saving'[d] = IF d = b THEN None ELSE saving[d]
        BY <1>1, <3>1 DEF TypeOK
      <3>3. CASE d = b
        <4>1. bill[d] # None /\ x.request = bill[d].request
          BY <1>1, <3>1, <3>3 DEF BillFits
        <4>2. Linked(d)' => Exists(bill[d].request)
          BY <1>1, <3>2, <3>3, <4>1 DEF BillFits, Linked
        <4> QED BY <2>1, <3>2, <3>3, <4>1, <4>2 DEF BillFits, Linked, Exists
      <3> QED BY <1>3, <3>2, <3>3
    <2>4. ASSUME NEW b \in Bills, NEW x \in BillRows, Enters(b, x)
          PROVE  BillFits(d)'
      <3>1. /\ bill[b] = None /\ x.request = None
            /\ bill' = [bill EXCEPT ![b] = x] /\ UNCHANGED saving
        BY <2>4 DEF Enters
      <3>2. bill'[d] = IF d = b THEN x ELSE bill[d]
        BY <1>1, <3>1 DEF TypeOK
      <3>3. CASE d = b
        <4>1. saving[d] = None
          BY <1>1, <3>1, <3>3 DEF BillFits
        <4> QED BY <3>1, <3>2, <3>3, <4>1 DEF BillFits, Linked
      <3> QED BY <1>3, <3>1, <3>2, <3>3
    <2>5. ASSUME NEW b \in Bills, NEW x \in BillRows, Decides(b, x)
          PROVE  BillFits(d)'
      <3>1. /\ bill[b] # None /\ saving[b] = None /\ x.request = bill[b].request
            /\ bill' = [bill EXCEPT ![b] = x] /\ UNCHANGED saving
        BY <2>5 DEF Decides, Unlocked
      <3>2. bill'[d] = IF d = b THEN x ELSE bill[d]
        BY <1>1, <3>1 DEF TypeOK
      <3>3. CASE d = b
        <4>1. Linked(d)' => Exists(bill[d].request)
          BY <1>1, <3>1, <3>2, <3>3 DEF BillFits, Linked
        <4> QED BY <2>1, <3>1, <3>2, <3>3, <4>1 DEF BillFits, Linked, Exists
      <3> QED BY <1>3, <3>1, <3>2, <3>3
    <2>6. CASE UNCHANGED <<bill, saving>>
      BY <1>3, <2>6
    <2> QED BY <1>1, <1>7, <2>2, <2>3, <2>4, <2>5, <2>6, BillSteps
  <1>8. CASE UNCHANGED <<bill, saving>>
    BY <1>3, <1>8
  <1>9. ASSUME NEW u \in Users, NEW r \in Requests, NEW v \in Vendors \cup {None},
               NEW p \in Places, Create(u, r, v, p)
        PROVE  UNCHANGED <<bill, saving>>
    BY <1>9 DEF Create
  <1>10. CASE Next
    BY <1>5, <1>6, <1>7, <1>8, <1>9, <1>10, NextCases
  <1>11. CASE UNCHANGED vars
    BY <1>8, <1>11 DEF vars
  <1> QED BY <1>10, <1>11
-----------------------------------------------------------------------------
\* The events of a request are finitely many.
LEMMA EventsFinite ==
  ASSUME TypeOK, NEW q \in Requests, NEW b \in Bills, NEW action \in Actions
  PROVE  /\ IsFiniteSet(EventsOf(q, b, action)) /\ Cardinality(EventsOf(q, b, action)) \in Nat
         /\ EventsOf(q, b, action) \subseteq 1..Len(events[q])
  <1>1. events[q] \in Seq(Events)
    BY DEF TypeOK
  <1>2. Len(events[q]) \in Nat /\ DOMAIN events[q] = 1..Len(events[q])
    BY <1>1
  <1>3. EventsOf(q, b, action) \subseteq 1..Len(events[q])
    BY <1>2 DEF EventsOf
  <1>4. IsFiniteSet(1..Len(events[q]))
    BY <1>2, FS_Interval
  <1> QED BY <1>3, <1>4, FS_Subset, FS_CardinalityType

\* A write adds its event to the events of its bill, and nothing to the others.
LEMMA EventsAfter ==
  ASSUME TypeOK, HistoryReplays, NEW r \in Requests, NEW row \in Rows, NEW event \in Events,
         Writes(r, row, event), NEW q \in Requests, NEW b \in Bills, NEW action \in Actions
  PROVE  Cardinality(EventsOf(q, b, action)') =
           Cardinality(EventsOf(q, b, action))
             + (IF q = r /\ event.bill = b /\ event.action = action THEN 1 ELSE 0)
  <1> DEFINE n == Len(rows[r])
             x == [row EXCEPT !.version = n + 1]
             e == [event EXCEPT !.version = n + 1]
  <1>1. /\ n \in Nat \ {0} /\ Len(events[r]) = n /\ x \in Rows /\ e \in Events
        /\ rows' = [rows EXCEPT ![r] = Append(rows[r], x)]
        /\ events' = [events EXCEPT ![r] = Append(events[r], e)]
        /\ e.action = event.action /\ e.bill = event.bill
    BY WriteEffect
  <1> HIDE DEF e, x, n
  <1> DEFINE old == EventsOf(q, b, action)
             new == {i \in DOMAIN events'[q] : events'[q][i].action = action /\ events'[q][i].bill = b}
  <1>2. events \in [Requests -> Seq(Events)]
    BY DEF TypeOK
  <1>3. EventsOf(q, b, action)' = new
    BY DEF EventsOf
  <1>4. IsFiniteSet(old) /\ Cardinality(old) \in Nat /\ old \subseteq 1..Len(events[q])
    BY EventsFinite
  <1>5. CASE q # r
    <2>1. events'[q] = events[q]
      BY <1>1, <1>2, <1>5
    <2>2. new = {i \in DOMAIN events[q] : events[q][i].action = action /\ events[q][i].bill = b}
      BY <2>1, Zenon
    <2>3. new = old
      BY <2>2, Zenon DEF EventsOf
    <2> HIDE DEF new, old
    <2> QED BY <1>3, <1>4, <1>5, <2>3 DEF old
  <1>6. CASE q = r
    <2>1. events'[q] = Append(events[q], e)
      BY <1>1, <1>2, <1>6
    <2>2. /\ DOMAIN events'[q] = 1..n + 1 /\ DOMAIN events[q] = 1..n
          /\ \A i \in 1..n : events'[q][i] = events[q][i]
          /\ events'[q][n + 1] = e
      BY <1>1, <1>2, <1>6, <2>1, Appended
    <2>3. n + 1 \notin old
      BY <1>1, <1>4, <1>6
    <2>4. CASE event.bill = b /\ event.action = action
      <3>1. new = old \cup {n + 1}
        BY <1>1, <2>2, <2>4 DEF EventsOf
      <3> HIDE DEF new, old
      <3>2. Cardinality(old \cup {n + 1}) = Cardinality(old) + 1
        BY <1>4, <2>3, FS_AddElement
      <3> QED BY <1>3, <1>6, <2>4, <3>1, <3>2 DEF old
    <2>5. CASE ~(event.bill = b /\ event.action = action)
      <3>1. \A i : i \in new <=> i \in old
        BY <1>1, <1>6, <2>2, <2>5 DEF EventsOf
      <3> HIDE DEF new, old
      <3>2. new = old
        BY <3>1
      <3> QED BY <1>3, <1>4, <2>5, <3>2 DEF old
    <2> QED BY <2>4, <2>5
  <1> QED BY <1>5, <1>6

\* What the histories of q and the link of b say of each other.
Balanced(q, b) ==
  Cardinality(EventsOf(q, b, "bill_linked"))
    = Cardinality(EventsOf(q, b, "bill_unlinked"))
      + (IF bill[b] # None /\ bill[b].request = q THEN 1 ELSE 0)

\* A write with the event of a link moves the link; any other leaves both alone.
LEMMA BalanceKept ==
  ASSUME RequestNone, TypeOK, HistoryReplays, NEW r \in Requests, NEW row \in Rows,
         NEW event \in Events, Writes(r, row, event), NEW q \in Requests, NEW b \in Bills,
         Balanced(q, b),
         IF q = r /\ event.bill = b
         THEN \/ /\ event.action = "bill_linked"
                 /\ ~(bill[b] # None /\ bill[b].request = q)
                 /\ bill'[b] # None /\ bill'[b].request = q
              \/ /\ event.action = "bill_unlinked"
                 /\ bill[b] # None /\ bill[b].request = q
                 /\ ~(bill'[b] # None /\ bill'[b].request = q)
         ELSE (bill'[b] # None /\ bill'[b].request = q) <=> (bill[b] # None /\ bill[b].request = q)
  PROVE  Balanced(q, b)'
  <1> DEFINE in  == Cardinality(EventsOf(q, b, "bill_linked"))
             out == Cardinality(EventsOf(q, b, "bill_unlinked"))
             inNext  == Cardinality(EventsOf(q, b, "bill_linked")')
             outNext == Cardinality(EventsOf(q, b, "bill_unlinked")')
  <1>1. "bill_linked" \in Actions /\ "bill_unlinked" \in Actions
    BY DEF Actions
  <1>2. in \in Nat /\ out \in Nat
    BY <1>1, EventsFinite
  <1>3. inNext = in + (IF q = r /\ event.bill = b /\ event.action = "bill_linked" THEN 1 ELSE 0)
    BY <1>1, EventsAfter
  <1>4. outNext = out + (IF q = r /\ event.bill = b /\ event.action = "bill_unlinked" THEN 1 ELSE 0)
    BY <1>1, EventsAfter
  <1>5. in = out + (IF bill[b] # None /\ bill[b].request = q THEN 1 ELSE 0)
    BY DEF Balanced
  <1> HIDE DEF in, out, inNext, outNext
  <1>6. inNext = outNext + (IF bill'[b] # None /\ bill'[b].request = q THEN 1 ELSE 0)
    BY <1>2, <1>3, <1>4, <1>5
  <1> QED BY <1>6 DEF Balanced, inNext, outNext


\* A step keeps the links what the histories say of them.
LEMMA LinksKept ==
  ASSUME RequestNone, RequestAssumption, IInv, BillsFit, LinksMatchHistory, [Next]_vars
  PROVE  LinksMatchHistory'
  <1> USE DEF IInv, history, forms
  <1> SUFFICES ASSUME NEW q \in Requests, NEW d \in Bills
               PROVE  Balanced(q, d)'
    BY DEF LinksMatchHistory, Balanced
  <1>1. Balanced(q, d)
    BY DEF LinksMatchHistory, Balanced
  <1>2. q # None /\ d # None
    BY DEF RequestNone
  <1>3. CASE UNCHANGED <<events, bill>>
    BY <1>1, <1>3 DEF Balanced, EventsOf
  <1>4. ASSUME NEW u \in Users, NEW r \in Requests, NEW v \in Vendors \cup {None},
               NEW p \in Places, Create(u, r, v, p)
        PROVE  Balanced(q, d)'
    <2>1. UNCHANGED bill
      BY <1>4 DEF Create
    <2>2. CASE q # r
      <3>1. events'[q] = events[q]
        BY <1>4, <2>2 DEF Create, TypeOK
      <3> QED BY <1>1, <2>1, <3>1 DEF Balanced, EventsOf
    <2>3. CASE q = r
      <3>1. Len(events[q]) = 0 /\ events[q] \in Seq(Events)
        BY <1>4, <2>3 DEF Create, Exists, HistoryReplays, TypeOK
      <3>2. events'[q] = <<Event("created", None, "open", 1)>>
        BY <1>4, <2>3 DEF Create, TypeOK
      <3>3. \A action : EventsOf(q, d, action) = {}
        BY <3>1 DEF EventsOf
      <3>4. \A action : {i \in DOMAIN events'[q] : events'[q][i].action = action
                                               /\ events'[q][i].bill = d} = {}
        BY <1>2, <3>2 DEF Event
      <3>5. \A action : EventsOf(q, d, action)' = EventsOf(q, d, action)
        BY <3>3, <3>4 DEF EventsOf
      <3> QED BY <1>1, <2>1, <3>5 DEF Balanced
    <2> QED BY <2>2, <2>3
  <1>5. ASSUME NEW r \in Requests, NEW row \in Rows, NEW event \in Events, Writes(r, row, event),
               event.bill = None, UNCHANGED bill
        PROVE  Balanced(q, d)'
    BY <1>1, <1>2, <1>5, BalanceKept
  <1>6. ASSUME NEW u \in Users, NEW r \in Requests, NEW b \in Bills, Exists(r),
               LinkBill(u, r, b) \/ UnlinkBill(u, r, b)
        PROVE  Balanced(q, d)'
    <2>1. bill[b] \in BillRows /\ bill[b] # None /\ None \notin BillRows
      BY <1>6 DEF LinkBill, UnlinkBill, Unlocked, TypeOK, RequestNone
    <2>2. CASE LinkBill(u, r, b)
      <3>1. PICK event \in Events : /\ Writes(r, Current(r), event)
                                    /\ event.bill = b /\ event.action = "bill_linked"
        BY <1>6, <2>2, LinkCase
      <3>2. bill' = [bill EXCEPT ![b] = [bill[b] EXCEPT !.request = r]] /\ bill[b].request = None
        BY <2>2 DEF LinkBill, Linkable
      <3>3. [bill[b] EXCEPT !.request = r] \in BillRows /\ [bill[b] EXCEPT !.request = r].request = r
        BY <2>1 DEF BillRows
      <3>4. bill'[b] # None /\ bill'[b].request = r /\ \A c \in Bills : c # b => bill'[c] = bill[c]
        BY <2>1, <3>2, <3>3 DEF TypeOK
      <3> QED BY <1>1, <1>2, <1>6, <2>1, <3>1, <3>2, <3>4, LinkCase, BalanceKept
    <2>3. CASE UnlinkBill(u, r, b)
      <3>1. PICK event \in Events : /\ Writes(r, Current(r), event)
                                    /\ event.bill = b /\ event.action = "bill_unlinked"
        BY <1>6, <2>3, LinkCase
      <3>2. bill' = [bill EXCEPT ![b] = [bill[b] EXCEPT !.request = None]] /\ bill[b].request = r
        BY <2>3 DEF UnlinkBill, Unlinks
      <3>3. [bill[b] EXCEPT !.request = None].request = None
        BY <2>1 DEF BillRows
      <3>4. bill'[b].request = None /\ \A c \in Bills : c # b => bill'[c] = bill[c]
        BY <2>1, <3>2, <3>3 DEF TypeOK
      <3> QED BY <1>1, <1>2, <1>6, <2>1, <3>1, <3>2, <3>4, LinkCase, BalanceKept
    <2> QED BY <1>6, <2>2, <2>3
  <1>7. ASSUME NEW u \in Users, NEW s \in Submissions, NEW r \in Requests, NEW b \in Bills,
               NEW p \in Places, NEW submit \in BOOLEAN, NEW i \in DOMAIN rows[r],
               Handoff(u, s, r, i, b, p, submit)
        PROVE  Balanced(q, d)'
    <2>1. PICK event \in Events : /\ Writes(r, Current(r), event)
                                  /\ event.bill = b /\ event.action = "bill_linked"
      BY <1>7, HandoffCase
    <2>2. NewBill(p, r, s).request = r /\ NewBill(p, r, s) \in BillRows /\ None \notin BillRows
      BY DEF NewBill, BillRows, RequestNone
    <2>3. bill[b] = None /\ bill'[b] # None /\ bill'[b].request = r
          /\ \A c \in Bills : c # b => bill'[c] = bill[c]
      BY <1>7, <2>2 DEF Handoff, TypeOK
    <2> QED BY <1>1, <1>7, <2>1, <2>3, HandoffCase, BalanceKept
  <1>8. CASE BillOnly
    <2>1. UNCHANGED events
      BY <1>8, BillSteps
    <2>2. CASE UNCHANGED bill
      BY <1>3, <2>1, <2>2
    <2>3. ASSUME NEW b \in Bills, NEW x \in BillRows \cup {None}, bill' = [bill EXCEPT ![b] = x],
                 (x # None /\ x.request = q) <=> (bill[b] # None /\ bill[b].request = q)
          PROVE  Balanced(q, d)'
      <3>1. (bill'[d] # None /\ bill'[d].request = q) <=> (bill[d] # None /\ bill[d].request = q)
        BY <2>3 DEF TypeOK
      <3>2. \A action : EventsOf(q, d, action)' = EventsOf(q, d, action)
        BY <2>1 DEF EventsOf
      <3> QED BY <1>1, <3>1, <3>2 DEF Balanced
    <2>4. ASSUME NEW b \in Bills, NEW x \in BillRows \cup {None}, Ends(b, x)
          PROVE  Balanced(q, d)'
      <3>1. BillFits(b) /\ x \in {bill[b], saving[b].row} /\ saving[b] # None
            /\ bill' = [bill EXCEPT ![b] = x]
        BY <2>4 DEF BillsFit, Ends
      <3>2. saving[b].row \in BillRows /\ None \notin BillRows
        BY <3>1 DEF TypeOK, Saves, RequestNone
      <3>3. x # None /\ bill[b] # None /\ x.request = bill[b].request
        BY <3>1, <3>2 DEF BillFits
      <3> QED BY <2>3, <3>1, <3>3
    <2>5. ASSUME NEW b \in Bills, NEW x \in BillRows, Enters(b, x) \/ Decides(b, x)
          PROVE  Balanced(q, d)'
      <3>1. /\ bill' = [bill EXCEPT ![b] = x] /\ x # None
            /\ (x.request = q) <=> (bill[b] # None /\ bill[b].request = q)
        BY <1>2, <2>5 DEF Enters, Decides, Unlocked, RequestNone
      <3> QED BY <2>3, <3>1
    <2>6. \A b \in Bills, x \in BillRows : Looks(b, x) => UNCHANGED bill
      BY DEF Looks
    <2> QED BY <1>8, <2>2, <2>4, <2>5, <2>6, BillSteps
  <1>9. CASE Next
    BY <1>4, <1>5, <1>6, <1>7, <1>8, <1>9, NextCases
  <1>10. CASE UNCHANGED vars
    BY <1>3, <1>10 DEF vars
  <1> QED BY <1>9, <1>10

-----------------------------------------------------------------------------
\* The types, the history and the single retyped field hold in every state.
THEOREM Invariance == Spec => []IInv
  <1>1. Init => IInv
    BY Initially, RequestAssumption
  <1>2. IInv /\ [Next]_vars => IInv'
    BY Inductive, RequestAssumption, RequestNone
  <1> QED BY <1>1, <1>2, PTL DEF Spec

\* Bills fit their requests, and what is about to be saved of them what was looked at.
THEOREM FitInvariance == Spec => []BillsFit
  <1>1. Init => BillsFit
    BY DEF Init, BillsFit, BillFits, Linked
  <1>2. IInv /\ BillsFit /\ [Next]_vars => BillsFit'
    BY FitKept, RequestAssumption, RequestNone
  <1> QED BY <1>1, <1>2, Invariance, PTL DEF Spec

\* Type correctness of the requests, their events, the bills and the forms.
THEOREM TypeCorrect == Spec => []TypeOK
  <1>1. IInv => TypeOK
    BY DEF IInv
  <1> QED BY <1>1, Invariance, PTL

\* The events of a request tell every version of it (all writes, _record_event).
THEOREM HistoryTold == Spec => []HistoryReplays
  <1>1. IInv => HistoryReplays
    BY DEF IInv
  <1> QED BY <1>1, Invariance, PTL

\* No form with one field retyped takes back another user's change (_require_version, update).
THEOREM NothingLost == Spec => []NoLostUpdate
  <1>1. IInv => NoLostUpdate
    BY DEF IInv
  <1> QED BY <1>1, Invariance, PTL

\* A bill belongs to a request exactly when the histories say so (create_bill, link_bill,
\* unlink_bill), for any number of requests and bills.
THEOREM LinksTold == Spec => []LinksMatchHistory
  <1>1. Init => LinksMatchHistory
    <2> SUFFICES ASSUME Init, NEW q \in Requests, NEW b \in Bills
                 PROVE  Balanced(q, b)
      BY DEF LinksMatchHistory, Balanced
    <2>1. \A action : EventsOf(q, b, action) = {}
      BY DEF Init, EventsOf
    <2>2. bill[b] = None
      BY DEF Init
    <2> QED BY <2>1, <2>2, FS_EmptySet DEF Balanced
  <1>2. IInv /\ BillsFit /\ LinksMatchHistory /\ [Next]_vars => LinksMatchHistory'
    BY LinksKept, RequestAssumption, RequestNone
  <1> QED BY <1>1, <1>2, Invariance, FitInvariance, PTL DEF Spec

\* A press of a bill form that comes to create_bill is not refused while its bill is linked to
\* its request, whatever became of the request since (create_bill).
THEOREM Reused == Spec => RepeatReusesBill
  <1>1. ASSUME IInv, [Next]_vars, NEW s \in Submissions, answer'[s] = "refused",
               answer[s] # "refused"
        PROVE  \A b \in BillOf(s) : bill[b].request # token[s].request
    <2> USE DEF forms
    <2>1. answer \in [Submissions -> {"bill", "refused", "turned_away", None}]
      BY <1>1 DEF IInv, TypeOK
    <2>2. CASE UNCHANGED answer
      BY <1>1, <2>2
    <2>3. ASSUME NEW u \in Users, NEW t \in Submissions, Repeat(u, t)
          PROVE  \A b \in BillOf(s) : bill[b].request # token[s].request
      BY <1>1, <2>1, <2>3 DEF Repeat, Existing
    <2>4. ASSUME NEW u \in Users, NEW t \in Submissions, NEW r \in Requests, NEW b \in Bills,
                 NEW p \in Places, NEW submit \in BOOLEAN, NEW i \in DOMAIN rows[r],
                 Handoff(u, t, r, i, b, p, submit)
          PROVE  FALSE
      BY <1>1, <2>1, <2>4 DEF Handoff
    <2>5. ASSUME BillOnly, ~ UNCHANGED answer
          PROVE  \E u \in Users, t \in Submissions : Repeat(u, t) \/ TurnAway(u, t)
      BY <2>5 DEF BillOnly, BillStep, CreateBill, SaveBill, SubmitBill, FinishSubmit, Write, Drop,
                  DecideBill
    <2>7. ASSUME NEW u \in Users, NEW t \in Submissions, TurnAway(u, t)
          PROVE  FALSE
      BY <1>1, <2>1, <2>7 DEF TurnAway
    <2>6. CASE Next
      <3>1. ASSUME NEW u \in Users, NEW r \in Requests, NEW v \in Vendors \cup {None},
                   NEW p \in Places, Create(u, r, v, p)
            PROVE  UNCHANGED answer
        BY <3>1 DEF Create
      <3>2. ASSUME NEW u \in Users, NEW r \in Requests, NEW b \in Bills,
                   LinkBill(u, r, b) \/ UnlinkBill(u, r, b)
            PROVE  UNCHANGED answer
        BY <3>2 DEF LinkBill, UnlinkBill
      <3> QED BY <1>1, <2>2, <2>3, <2>4, <2>5, <2>6, <2>7, <3>1, <3>2, NextCases, RequestNone
    <2> QED BY <1>1, <2>2, <2>6 DEF vars
  <1>2. IInv /\ [Next]_vars =>
          [\A s \in Submissions :
             (answer'[s] = "refused" /\ answer[s] # "refused")
               => \A b \in BillOf(s) : bill[b].request # token[s].request]_vars
    BY <1>1
  <1> QED BY <1>2, Invariance, PTL DEF Spec, RepeatReusesBill

\* A step that places, links or submits a bill leaves it matching its request as it was when the
\* writer looked at it under the bill's lock, or later (VendorBill.clean): only an edit of the
\* request after that look sets the two at odds.
THEOREM BillsMatch == Spec => BillChangesMatch
  <1> DEFINE Kept(d, r) == \E i \in Looked(d, r)..Len(rows'[r]) :
                             i \in DOMAIN rows'[r] /\ Match(rows'[r][i], bill'[d].place)
  <1>1. ASSUME IInv, BillsFit, [Next]_vars, NEW d \in Bills, Linked(d)', Touched(d)
        PROVE  Kept(d, bill'[d].request)
    <2> USE DEF history, forms
    <2>1. TypeOK /\ BillFits(d) /\ bill'[d] # None /\ bill'[d].request # None
      BY <1>1 DEF IInv, BillsFit, Linked
    <2>2. bill'[d] # bill[d]
      BY <1>1, <2>1 DEF Touched
    <2>3. ASSUME NEW r \in Requests, Exists(r), saving[d] = None, Match(Current(r), bill'[d].place)
          PROVE  Kept(d, r)
      <3> DEFINE n == Len(rows[r])
      <3>1. /\ Looked(d, r) = n /\ n \in Nat /\ Len(rows'[r]) \in Nat /\ n <= Len(rows'[r])
            /\ \A i \in DOMAIN rows[r] : i \in DOMAIN rows'[r] /\ rows'[r][i] = rows[r][i]
        BY <1>1, <2>3, RowsGrow, RequestNone DEF Looked
      <3>2. n \in DOMAIN rows[r] /\ Match(rows[r][n], bill'[d].place)
        BY <2>1, <2>3 DEF TypeOK, Exists, Current
      <3>3. n \in Looked(d, r)..Len(rows'[r])
        BY <3>1
      <3> QED BY <3>1, <3>2, <3>3
    <2>4. ASSUME NEW u \in Users, NEW r \in Requests, NEW b \in Bills, Exists(r),
                 LinkBill(u, r, b) \/ UnlinkBill(u, r, b)
          PROVE  Kept(d, bill'[d].request)
      <3>1. bill[b] \in BillRows /\ saving[b] = None
        BY <2>1, <2>4 DEF LinkBill, UnlinkBill, Unlocked, TypeOK
      <3>2. CASE LinkBill(u, r, b)
        <4>1. bill' = [bill EXCEPT ![b] = [bill[b] EXCEPT !.request = r]] /\ Match(Current(r), bill[b].place)
          BY <3>2 DEF LinkBill, Linkable
        <4>2. /\ [bill[b] EXCEPT !.request = r].request = r
              /\ [bill[b] EXCEPT !.request = r].place = bill[b].place
          BY <3>1 DEF BillRows
        <4>3. d = b /\ bill'[d].request = r /\ bill'[d].place = bill[b].place
          BY <2>1, <2>2, <4>1, <4>2 DEF TypeOK
        <4> HIDE DEF Kept
        <4> QED BY <2>3, <2>4, <3>1, <4>1, <4>3
      <3>3. CASE UnlinkBill(u, r, b)
        <4>1. bill' = [bill EXCEPT ![b] = [bill[b] EXCEPT !.request = None]]
          BY <3>3 DEF UnlinkBill
        <4>2. [bill[b] EXCEPT !.request = None].request = None
          BY <3>1 DEF BillRows
        <4> QED BY <2>1, <2>2, <4>1, <4>2 DEF TypeOK
      <3> QED BY <2>4, <3>2, <3>3
    <2>5. ASSUME NEW u \in Users, NEW s \in Submissions, NEW r \in Requests, NEW b \in Bills,
                 NEW p \in Places, NEW submit \in BOOLEAN, NEW i \in DOMAIN rows[r],
                 Handoff(u, s, r, i, b, p, submit)
          PROVE  Kept(d, bill'[d].request)
      <3>1. NewBill(p, r, s).request = r /\ NewBill(p, r, s).place = p
        BY DEF NewBill
      <3>2. d = b /\ bill'[d].request = r /\ bill'[d].place = p /\ bill[d] = None
        BY <2>1, <2>2, <2>5, <3>1 DEF Handoff, TypeOK
      <3>3. Exists(r) /\ saving[d] = None /\ Match(Current(r), p)
        BY <1>1, <2>1, <2>5, <3>2, HandoffCase, RequestNone DEF Handoff, BillFits
      <3> HIDE DEF Kept
      <3> QED BY <2>3, <3>2, <3>3
    <2>6. CASE BillOnly
      <3>1. UNCHANGED rows
        BY <2>1, <2>6, BillSteps
      <3>2. ASSUME NEW b \in Bills, NEW x \in BillRows \cup {None}, Ends(b, x)
            PROVE  Kept(d, bill'[d].request)
        <4>1. /\ saving[b] # None /\ x \in {bill[b], saving[b].row}
              /\ bill' = [bill EXCEPT ![b] = x]
          BY <3>2 DEF Ends
        <4>2. d = b /\ bill'[d] = saving[d].row
          BY <2>1, <2>2, <4>1 DEF TypeOK
        <4> DEFINE r == saving[d].row.request
                   n == saving[d].seen
        <4>3. n \in DOMAIN rows[r] /\ Match(rows[r][n], saving[d].row.place) /\ r # None
          BY <2>1, <4>1, <4>2 DEF BillFits
        <4>4. saving[d] \in Saves
          BY <2>1, <4>1, <4>2 DEF TypeOK
        <4>5. r \in Requests /\ n \in Nat
          BY <4>3, <4>4 DEF Saves, BillRows
        <4>6. rows[r] \in Seq(Rows) /\ Looked(d, r) = n
          BY <2>1, <4>1, <4>2, <4>5 DEF TypeOK, Looked
        <4>7. n \in Looked(d, r)..Len(rows[r])
          BY <4>3, <4>5, <4>6
        <4> QED BY <3>1, <4>2, <4>3, <4>7
      <3>3. ASSUME NEW b \in Bills, NEW x \in BillRows, Enters(b, x) \/ Decides(b, x)
            PROVE  FALSE
        <4>1. d = b /\ bill'[d] = x
          BY <2>1, <2>2, <3>3 DEF TypeOK, Enters, Decides
        <4> QED BY <1>1, <2>1, <3>3, <4>1 DEF Enters, Decides, Unlocked, Touched
      <3>4. \A b \in Bills, x \in BillRows : Looks(b, x) => UNCHANGED bill
        BY DEF Looks
      <3> HIDE DEF Kept
      <3> QED BY <2>1, <2>2, <2>6, <3>2, <3>3, <3>4, BillSteps
    <2>7. ASSUME NEW u \in Users, NEW r \in Requests, NEW v \in Vendors \cup {None},
                 NEW p \in Places, Create(u, r, v, p)
          PROVE  FALSE
      BY <2>2, <2>7 DEF Create
    <2> HIDE DEF Kept
    <2>8. CASE Next
      BY <1>1, <2>2, <2>4, <2>5, <2>6, <2>7, <2>8, NextCases, RequestNone
    <2> QED BY <1>1, <2>2, <2>8 DEF vars
  <1>2. IInv /\ BillsFit /\ [Next]_vars =>
          [\A b \in Bills :
             (Linked(b)' /\ Touched(b))
               => LET r == bill'[b].request IN
                  \E i \in Looked(b, r)..Len(rows'[r]) :
                    i \in DOMAIN rows'[r] /\ Match(rows'[r][i], bill'[b].place)]_vars
    BY <1>1
  <1> QED BY <1>2, Invariance, FitInvariance, PTL DEF Spec, BillChangesMatch
============================================================================
