------------------------- MODULE TenantReceiptProofs -------------------------
(***************************************************************************)
(* Theorems about TenantReceipt, for any receipts, invoices and requests.  *)
(***************************************************************************)
EXTENDS TenantReceipt, SumTheorems, TLAPS

\* The inductive invariant: the types and the relations between the variables.
IInv == TypeOK /\ Aligned

USE ReceiptAssumption, NoneAssumption
-----------------------------------------------------------------------------
\* What the shape of a request says of the rows it uses.
LEMMA Rows1 == ASSUME TypeOK, JobShape, NEW q \in Requests, pc[q] # "idle"
               PROVE  on[q] \in Receipts /\ receipt[on[q]] \in Rows
  <1>1. on[q] # None BY DEF JobShape, Shape
  <1>2. on[q] \in Receipts BY <1>1 DEF TypeOK
  <1>3. receipt[on[q]] # None BY <1>1 DEF JobShape, Shape
  <1> QED BY <1>2, <1>3 DEF TypeOK

\* A form that is open holds what it will write: the row while it is being saved, the deposit until that is set.
LEMMA Form1 == ASSUME TypeOK, JobShape, NEW q \in Requests
               PROVE  /\ pc[q] = "form" => form[q] \in Forms /\ form[q].row \in Rows
                      /\ pc[q] = "deposit" => form[q] \in Forms /\ form[q].deposit \in 0..MaxAmount
  <1>1. pc[q] \in {"form", "deposit"} => form[q] # None BY DEF JobShape, Shape
  <1>2. pc[q] = "form" => form[q].row # None BY DEF JobShape, Shape
  <1>3. form[q] \in Forms \cup {None} BY DEF TypeOK
  <1> QED BY <1>1, <1>2, <1>3 DEF Forms

\* A component waits for its lock only in an allocation or finalization, and has an amount.
LEMMA Sync1 == ASSUME TypeOK, JobShape, NEW q \in Requests, sync[q] # None
               PROVE  /\ pc[q] \in {"post", "finalize"}
                      /\ on[q] \in Receipts
                      /\ sync[q] \in Snapshots
                      /\ share[<<on[q], sync[q].part>>] \in Amounts
  <1>1. pc[q] \in {"post", "finalize"}
    BY DEF JobShape, Shape
  <1>2. on[q] \in Receipts
    BY <1>1, Rows1
  <1>3. sync[q] \in Snapshots
    BY DEF TypeOK
  <1>4. <<on[q], sync[q].part>> \in Component
    BY <1>2, <1>3 DEF Snapshots, Component
  <1>5. share[<<on[q], sync[q].part>>] \in 0..MaxAmount
    BY <1>4 DEF TypeOK
  <1>6. share[<<on[q], sync[q].part>>] > 0
    BY <1>1 DEF JobShape, Shape
  <1> QED BY <1>1, <1>2, <1>3, <1>5, <1>6 DEF Amounts

\* The request built for a waiting component is well formed and for the amount allocated.
LEMMA Current1 == ASSUME TypeOK, JobShape, NEW q \in Requests, sync[q] # None
                  PROVE  /\ Current(q) \in Bodies
                         /\ Current(q).amount = share[<<on[q], sync[q].part>>]
  BY Sync1 DEF Current, Body, Bodies, Snapshots, Rows, Amounts

\* A request waits for LedgerOS only in an allocation or finalization of a receipt on file.
LEMMA Sending1 == ASSUME TypeOK, JobShape, NEW q \in Requests, sending[q] # None
                  PROVE  /\ pc[q] \in {"post", "finalize"}
                         /\ on[q] \in Receipts
                         /\ sending[q] \in Requested
                         /\ <<on[q], sending[q].part>> \in Component
  <1>1. pc[q] \in {"post", "finalize"}
    BY DEF JobShape, Shape
  <1>2. on[q] \in Receipts
    BY <1>1, Rows1
  <1>3. sending[q] \in Requested
    BY DEF TypeOK
  <1> QED BY <1>1, <1>2, <1>3 DEF Requested, Component

\* The types of what the requests are doing.
JobTypes ==
  /\ pc \in [Requests -> {"idle", "recorded", "plan", "post", "finalize", "form", "deposit"}]
  /\ on \in [Requests -> Receipts \cup {None}]
  /\ pref \in [Requests -> Charges \cup {None}]
  /\ plan \in [Requests -> [Charges -> 0..MaxAmount]]
  /\ todo \in [Requests -> SUBSET Parts]
  /\ sync \in [Requests -> Snapshots \cup {None}]
  /\ sending \in [Requests -> Requested \cup {None}]
  /\ held \in [Requests -> SUBSET Attempts]
  /\ locks \in [Requests -> SUBSET Parts]
  /\ form \in [Requests -> Forms \cup {None}]

\* Answering a request keeps the types of the variables of the requests.
LEMMA FinishTypes == ASSUME TypeOK, NEW q \in Requests, Finish(q) PROVE JobTypes'
  BY DEF TypeOK, JobTypes, Finish, Begin, Goto, NoPlan

\* Types are kept by every step from a consistent state.
LEMMA TypeStep == ASSUME TypeOK, JobShape, [Next]_vars PROVE TypeOK'
  <1> USE DEF records, outside, counters, job, planVars, syncVars, Edit, Begin, Goto, Finish, NoPlan
  <1>a. receipt \in [Receipts -> Rows \cup {None}] BY DEF TypeOK
  <1>b. share \in [Component -> 0..MaxAmount] BY DEF TypeOK
  <1>c. plan \in [Requests -> [Charges -> 0..MaxAmount]] BY DEF TypeOK
  <1>d. form \in [Requests -> Forms \cup {None}] BY DEF TypeOK
  <1>e. frozen \in [Component -> Bodies \cup {None}] BY DEF TypeOK
  <1>f. record \in [Component -> Records \cup {None}] BY DEF TypeOK
  <1>g. held \in [Requests -> SUBSET Attempts] BY DEF TypeOK
  <1>1. ASSUME NEW q \in Requests, NEW r \in Receipts, NEW d \in Dates, NEW a \in Amounts,
               CreateReceipt(q, r, d, a) \/ \E c \in Charges : RecordPayment(q, r, c, d, a)
        PROVE TypeOK'
    <2>1. NewRow(d, a) \in Rows
      BY DEF NewRow, Rows
    <2>2. receipt' \in [Receipts -> Rows \cup {None}]
      BY <1>1, <1>a, <2>1 DEF CreateReceipt, RecordPayment
    <2>3. CASE CreateReceipt(q, r, d, a)
      <3>1. form' \in [Requests -> Forms \cup {None}]
        BY <1>d, <2>3 DEF CreateReceipt, DepositChoices, Forms, Amounts
      <3> QED BY <2>2, <2>3, <3>1 DEF CreateReceipt, TypeOK
    <2>4. CASE \E c \in Charges : RecordPayment(q, r, c, d, a)
      BY <2>2, <2>4 DEF RecordPayment, TypeOK
    <2> QED BY <1>1, <2>3, <2>4
  <1>2. ASSUME NEW q \in Requests, NEW r \in Receipts, FormLoad(q, r)
        PROVE TypeOK'
    <2>1. receipt[r] \in Rows /\ share[<<r, Deposit>>] \in 0..MaxAmount
      BY <1>2 DEF FormLoad, Component, Parts, TypeOK
    <2>2. \A d \in Dates, a \in Amounts : [receipt[r] EXCEPT !.date = d, !.amount = a] \in Rows
      BY <2>1 DEF Rows
    <2>3. \A row \in Rows, dep \in 0..MaxAmount : [row |-> row, deposit |-> dep] \in Forms
      BY DEF Forms
    <2>4. \A a \in Amounts : DepositChoices(a) \subseteq 0..MaxAmount
      BY DEF DepositChoices, Amounts
    <2>5. \E f \in Forms : form' = [form EXCEPT ![q] = f]
      BY <1>2, <2>1, <2>2, <2>3, <2>4 DEF FormLoad
    <2>6. form' \in [Requests -> Forms \cup {None}]
      BY <1>d, <2>5
    <2>7. /\ pc' \in [Requests -> {"idle", "recorded", "plan", "post", "finalize", "form", "deposit"}]
          /\ on' \in [Requests -> Receipts \cup {None}]
          /\ edits' \in Nat
      <3>1. Begin(q, "form", r) /\ Edit
        BY <1>2 DEF FormLoad
      <3> QED BY <3>1 DEF TypeOK
    <2>8. UNCHANGED <<receipt, share, records, ready, archived, outside, crashes, planVars, todo, syncVars>>
      BY <1>2 DEF FormLoad
    <2> QED BY <2>6, <2>7, <2>8 DEF TypeOK
  <1>3. ASSUME NEW q \in Requests, FormSave(q)
        PROVE TypeOK'
    <2>1. form[q] \in Forms /\ form[q].row \in Rows /\ on[q] \in Receipts
      BY <1>3, Form1, Rows1 DEF FormSave
    <2>2. [form[q] EXCEPT !.row = None] \in Forms
      BY <2>1 DEF Forms
    <2> QED BY <1>3, <2>1, <2>2 DEF FormSave, TypeOK
  <1>4. ASSUME NEW q \in Requests, SetDeposit(q)
        PROVE TypeOK'
    <2>1. form[q].deposit \in 0..MaxAmount
      BY <1>4, Form1 DEF SetDeposit
    <2>2. share' \in [Component -> 0..MaxAmount]
      BY <1>4, <2>1 DEF SetDeposit, TypeOK
    <2> QED BY <1>4, <2>2 DEF SetDeposit, TypeOK
  <1>5. ASSUME NEW q \in Requests, NEW r \in Receipts, AllocateBegin(q, r)
        PROVE TypeOK'
    BY <1>5 DEF AllocateBegin, Parts, TypeOK
  <1>6. ASSUME NEW q \in Requests, AllocateRefused(q)
        PROVE TypeOK'
    BY <1>6 DEF AllocateRefused, TypeOK
  <1>7. ASSUME NEW q \in Requests, PlanCharge(q)
        PROVE TypeOK'
    <2>1. \A c \in Charges, a \in Amounts : [plan[q] EXCEPT ![c] = a] \in [Charges -> 0..MaxAmount]
      BY <1>c DEF Amounts
    <2>2. PICK c \in todo[q] : \/ \E a \in Amounts : plan' = [plan EXCEPT ![q][c] = a]
                              \/ UNCHANGED plan
      BY <1>7 DEF PlanCharge
    <2>3. c \in Charges
      <3>1. todo[q] \subseteq Parts /\ pc[q] = "plan"
        BY <1>7 DEF PlanCharge, TypeOK
      <3>2. Deposit \notin todo[q]
        BY <3>1 DEF JobShape, Shape
      <3> QED BY <2>2, <3>1, <3>2 DEF Parts
    <2>4. plan' \in [Requests -> [Charges -> 0..MaxAmount]]
      BY <1>c, <2>1, <2>2, <2>3
    <2>5. todo' \in [Requests -> SUBSET Parts]
      BY <1>7 DEF PlanCharge, TypeOK
    <2> QED BY <1>7, <2>4, <2>5 DEF PlanCharge, TypeOK
  <1>8. ASSUME NEW q \in Requests, PlanCommit(q)
        PROVE TypeOK'
    BY <1>8 DEF PlanCommit, Parts, Component, TypeOK
  <1>9. ASSUME NEW q \in Requests, AllocateConclude(q)
        PROVE TypeOK'
    <2>1. on[q] \in Receipts /\ receipt[on[q]] \in Rows
      BY <1>9, Rows1 DEF AllocateConclude
    <2>2. [receipt[on[q]] EXCEPT !.status = ReceiptStatus(on[q])] \in Rows
      BY <2>1 DEF ReceiptStatus, Rows
    <2>3. receipt' \in [Receipts -> Rows \cup {None}]
      BY <1>9, <2>1, <2>2 DEF AllocateConclude, TypeOK
    <2> QED BY <1>9, <2>3 DEF AllocateConclude, TypeOK
  <1>10. ASSUME NEW q \in Requests, NEW p \in Parts, SyncStart(q, p)
         PROVE TypeOK'
    <2>1. on[q] \in Receipts /\ receipt[on[q]] \in Rows
      BY <1>10, Rows1 DEF SyncStart
    <2>2. [part |-> p, row |-> receipt[on[q]], ready |-> ready[p], record |-> record[<<on[q], p>>]] \in Snapshots
      BY <2>1 DEF Snapshots, Component, TypeOK
    <2> QED BY <1>10, <2>2 DEF SyncStart, TypeOK
  <1>11. ASSUME NEW q \in Requests, SyncRefused(q)
         PROVE TypeOK'
    BY <1>11 DEF SyncRefused, Forgotten, TypeOK
  <1>12. ASSUME NEW q \in Requests, SyncSkip(q)
         PROVE TypeOK'
    BY <1>12 DEF SyncSkip, HasLock, Snapshots, TypeOK
  <1>13. ASSUME NEW q \in Requests, SyncSend(q)
         PROVE TypeOK'
    <2>1. sync[q] # None
      BY <1>13 DEF SyncSend, HasLock
    <2>2. sync[q].part \in Parts /\ on[q] \in Receipts /\ Current(q) \in Bodies
      BY <2>1, Sync1, Current1 DEF Snapshots
    <2>3. [part |-> sync[q].part, body |-> Current(q)] \in Requested
      BY <2>2 DEF Requested
    <2>4. <<<<on[q], sync[q].part>>, Current(q)>> \in Component \X Bodies
      BY <2>2 DEF Component
    <2> QED BY <1>13, <2>2, <2>3, <2>4 DEF SyncSend, TypeOK
  <1>14. ASSUME LedgerBooks
         PROVE TypeOK'
    BY <1>14 DEF LedgerBooks, TypeOK
  <1>15. ASSUME NEW q \in Requests, SettlePosted(q) \/ SettleFailed(q)
         PROVE TypeOK'
    <2>1. PICK status \in {"failed", "succeeded"} : sending[q] # None /\ Settle(q, status)
      BY <1>15 DEF SettlePosted, SettleFailed
    <2>2. sending[q].part \in Parts /\ sending[q].body \in Bodies /\ on[q] \in Receipts
      BY <2>1, Sending1 DEF Requested
    <2>3. [status |-> status, body |-> sending[q].body] \in Records
      BY <2>2 DEF Records
    <2>4. [part |-> sending[q].part, record |-> [status |-> status, body |-> sending[q].body]] \in Attempts
      BY <2>2, <2>3 DEF Attempts
    <2>5. <<on[q], sending[q].part>> \in Component
      BY <2>1, Sending1
    <2>6. frozen' \in [Component -> Bodies \cup {None}] /\ record' \in [Component -> Records \cup {None}]
      BY <1>e, <1>f, <2>1, <2>2, <2>3, <2>5 DEF Settle
    <2>7. held' \in [Requests -> SUBSET Attempts]
      BY <1>g, <2>1, <2>4 DEF Settle
    <2>8. /\ locks' \in [Requests -> SUBSET Parts]
          /\ sending' \in [Requests -> Requested \cup {None}]
      BY <2>1 DEF Settle, TypeOK
    <2> QED BY <2>1, <2>6, <2>7, <2>8 DEF Settle, TypeOK
  <1>16. ASSUME NEW q \in Requests, NEW r \in Receipts, FinalizeBegin(q, r)
         PROVE TypeOK'
    BY <1>16 DEF FinalizeBegin, PartsOf, TypeOK
  <1>17. ASSUME NEW q \in Requests, FinalizeCommit(q)
         PROVE TypeOK'
    <2>1. on[q] \in Receipts /\ receipt[on[q]] \in Rows
      BY <1>17, Rows1 DEF FinalizeCommit
    <2>2. \A st \in {"posted", "ready_to_sync"} :
            [receipt[on[q]] EXCEPT !.status = st, !.linked = TRUE] \in Rows
      BY <2>1 DEF Rows
    <2>3. receipt' \in [Receipts -> Rows \cup {None}]
      BY <1>17, <2>1, <2>2 DEF FinalizeCommit, TypeOK
    <2>4. ASSUME NEW k \in Component, Held(q, k) # {}
          PROVE  Outcome(q, k) \in Records
      <3>1. (CHOOSE a \in Held(q, k) : TRUE) \in Held(q, k)
        BY <2>4
      <3>2. Held(q, k) \subseteq Attempts
        BY <1>g DEF Held
      <3> QED BY <3>1, <3>2 DEF Outcome, Attempts
    <2>5. record' \in [Component -> Records \cup {None}] /\ frozen' \in [Component -> Bodies \cup {None}]
      BY <1>17, <1>e, <1>f, <2>4 DEF FinalizeCommit, Records
    <2>6. summary' \in [Receipts -> {"none", "failed", "succeeded"}]
      BY <1>17 DEF FinalizeCommit, TypeOK
    <2>7. JobTypes'
      BY <1>17, FinishTypes DEF FinalizeCommit
    <2>8. UNCHANGED <<share, ready, archived, wire, ledger, lost, edits, crashes>>
      BY <1>17 DEF FinalizeCommit
    <2> QED BY <2>3, <2>5, <2>6, <2>7, <2>8 DEF TypeOK, JobTypes
  <1>18. ASSUME NEW q \in Requests, Crash(q)
         PROVE TypeOK'
    BY <1>18 DEF Crash, Forgotten, TypeOK
  <1>19. ASSUME NEW r \in Receipts, VoidReceipt(r)
         PROVE TypeOK'
    <2>1. [receipt[r] EXCEPT !.status = "voided"] \in Rows
      BY <1>19, <1>a DEF VoidReceipt, Rows
    <2> QED BY <1>19, <2>1 DEF VoidReceipt, TypeOK
  <1>20. /\ \A c \in Charges, ok \in BOOLEAN : ApproveCharge(c, ok) => TypeOK'
         /\ \A c \in Charges : ArchiveCharge(c) => TypeOK'
         /\ ChangeMapping => TypeOK'
    <2>1. ASSUME NEW c \in Charges, NEW ok \in BOOLEAN, ApproveCharge(c, ok)
          PROVE  TypeOK'
      <3>1. ready \in [Parts -> BOOLEAN] BY DEF TypeOK
      <3>2. ready' = [ready EXCEPT ![c] = ok] BY <2>1 DEF ApproveCharge
      <3>3. ready' \in [Parts -> BOOLEAN] BY <3>1, <3>2, Zenon
      <3>4. /\ UNCHANGED <<receipt, share, records, outside, crashes, job>>
            /\ edits' \in Nat /\ archived' \subseteq Charges
        BY <2>1 DEF ApproveCharge, TypeOK
      <3> QED BY <3>3, <3>4 DEF TypeOK
    <2>2. ASSUME NEW c \in Charges, ArchiveCharge(c)
          PROVE  TypeOK'
      BY <2>2 DEF ArchiveCharge, TypeOK
    <2>3. ASSUME ChangeMapping
          PROVE  TypeOK'
      <3>1. ready \in [Parts -> BOOLEAN] BY DEF TypeOK
      <3>2. ready' = [ready EXCEPT ![Deposit] = ~ready[Deposit]] BY <2>3 DEF ChangeMapping
      <3>3. ready' \in [Parts -> BOOLEAN] BY <3>1, <3>2, Zenon
      <3>4. /\ UNCHANGED <<receipt, share, records, archived, outside, crashes, job>>
            /\ edits' \in Nat
        BY <2>3 DEF ChangeMapping, TypeOK
      <3> QED BY <3>3, <3>4 DEF TypeOK
    <2> QED BY <2>1, <2>2, <2>3
  <1>21. CASE UNCHANGED vars
    BY <1>21 DEF vars, TypeOK
  <1>22. ASSUME NEW q \in Requests, Ask(q)
         PROVE TypeOK'
    BY <1>22, <1>1, <1>2, <1>5, <1>16 DEF Ask
  <1>23. ASSUME NEW q \in Requests, Work(q)
         PROVE TypeOK'
    <2>1. pc[q] = "recorded" => on[q] \in Receipts
      BY Rows1
    <2> QED
      BY <1>23, <2>1, <1>3, <1>4, <1>5, <1>6, <1>7, <1>8, <1>9, <1>10, <1>11, <1>12, <1>13, <1>15, <1>17 DEF Work
  <1>24. CASE Administer
    BY <1>19, <1>20, <1>24 DEF Administer
  <1> QED
    BY <1>14, <1>18, <1>21, <1>22, <1>23, <1>24 DEF Next
-----------------------------------------------------------------------------
\* A request's own variables, and those of the other requests.
Same(o) ==
  /\ pc'[o] = pc[o] /\ on'[o] = on[o] /\ plan'[o] = plan[o] /\ todo'[o] = todo[o]
  /\ sync'[o] = sync[o] /\ sending'[o] = sending[o]
  /\ held'[o] = held[o] /\ locks'[o] = locks[o] /\ form'[o] = form[o]

Steps(q) == Ask(q) \/ Work(q) \/ Crash(q)

\* A request that has been answered is idle, and the others are where they were.
LEMMA Answered == ASSUME JobTypes, NEW q \in Requests, Finish(q)
                  PROVE  Shape(q)' /\ pc'[q] = "idle" /\ \A o \in Requests \ {q} : Same(o)
  BY DEF JobTypes, Finish, Begin, Goto, NoPlan, Shape, Same

\* A request touches no variable of another one.
LEMMA OthersSame == ASSUME JobTypes, NEW q \in Requests, Steps(q), NEW o \in Requests \ {q}
                    PROVE  Same(o)
  <1> USE DEF JobTypes, Same, Begin, Goto, planVars, syncVars
  <1>1. CASE Finish(q)
    BY <1>1, Answered
  <1>2. CASE Ask(q)
    <2>1. ASSUME NEW r \in Receipts, NEW d \in Dates, NEW a \in Amounts, CreateReceipt(q, r, d, a)
          PROVE  Same(o)
      BY <2>1 DEF CreateReceipt
    <2>2. ASSUME NEW r \in Receipts, NEW c \in Charges, NEW d \in Dates, NEW a \in Amounts,
                 RecordPayment(q, r, c, d, a)
          PROVE  Same(o)
      BY <2>2 DEF RecordPayment
    <2>3. ASSUME NEW r \in Receipts, FormLoad(q, r)
          PROVE  Same(o)
      BY <2>3 DEF FormLoad
    <2>4. ASSUME NEW r \in Receipts, FinalizeBegin(q, r) \/ AllocateBegin(q, r)
          PROVE  Same(o)
      BY <2>4 DEF FinalizeBegin, AllocateBegin
    <2> QED BY <1>2, <2>1, <2>2, <2>3, <2>4 DEF Ask
  <1>3. CASE Work(q) /\ ~Finish(q)
    <2>1. CASE FormSave(q) \/ AllocateBegin(q, on[q])
      BY <2>1 DEF FormSave, AllocateBegin
    <2>2. CASE PlanCharge(q) \/ PlanCommit(q)
      BY <2>2 DEF PlanCharge, PlanCommit
    <2>3. CASE \E p \in Parts : SyncStart(q, p)
      BY <2>3 DEF SyncStart
    <2>4. CASE SyncSkip(q) \/ SyncSend(q)
      BY <2>4 DEF SyncSkip, SyncSend
    <2>5. CASE SettlePosted(q) \/ SettleFailed(q)
      BY <2>5 DEF SettlePosted, SettleFailed, Settle
    <2> QED
      BY <1>3, <2>1, <2>2, <2>3, <2>4, <2>5
      DEF Work, SetDeposit, AllocateRefused, AllocateConclude, SyncRefused, FinalizeCommit
  <1>4. CASE Crash(q)
    BY <1>1, <1>4 DEF Crash
  <1> QED BY <1>1, <1>2, <1>3, <1>4 DEF Steps

-----------------------------------------------------------------------------
\* The amounts of components change only when a plan is committed, for a charge that
\* had none, and when the deposit of a receipt without attempts is set.
LEMMA ShareFrame == ASSUME [Next]_vars
                    PROVE  share' = share \/ \E q \in Requests : PlanCommit(q) \/ SetDeposit(q)
  <1>1. ASSUME NEW q \in Requests, Ask(q)
        PROVE  share' = share
    BY <1>1 DEF Ask, CreateReceipt, RecordPayment, FormLoad, FinalizeBegin, AllocateBegin
  <1>2. ASSUME NEW q \in Requests, Work(q), ~PlanCommit(q), ~SetDeposit(q)
        PROVE  share' = share
    BY <1>2 DEF Work, FormSave, AllocateRefused, PlanCharge, AllocateConclude, AllocateBegin, SyncStart,
                SyncRefused, SyncSkip, SyncSend, SettlePosted, SettleFailed, Settle, FinalizeCommit
  <1>3. ASSUME NEW q \in Requests, Crash(q)
        PROVE  share' = share
    BY <1>3 DEF Crash
  <1>4. CASE LedgerBooks \/ Administer \/ UNCHANGED vars
    BY <1>4 DEF LedgerBooks, Administer, VoidReceipt, ApproveCharge, ArchiveCharge, ChangeMapping, vars
  <1> QED BY <1>1, <1>2, <1>3, <1>4 DEF Next

\* The two ways an amount changes: a plan gives a charge its first amount, and the deposit of
\* an editable, unlocked receipt is set.
LEMMA ShareMoves ==
  ASSUME TypeOK, JobShape, [Next]_vars, NEW k \in Component, share'[k] # share[k]
  PROVE  \/ \E q \in Requests : /\ PlanCommit(q) /\ k[1] = on[q] /\ k[2] \in Charges
                                /\ share[k] = 0 /\ share'[k] > 0
         \/ \E q \in Requests : /\ SetDeposit(q) /\ k = <<on[q], Deposit>>
                                /\ ~ReceiptLocked(on[q]) /\ Editable(on[q])
  <1>1. PICK q \in Requests : PlanCommit(q) \/ SetDeposit(q)
    BY ShareFrame
  <1>2. CASE PlanCommit(q)
    <2>1. k[1] = on[q] /\ k[2] \in Charges /\ plan[q][k[2]] > 0 /\ share'[k] = plan[q][k[2]]
      BY <1>2 DEF PlanCommit
    <2>2. share[<<on[q], k[2]>>] = 0
      BY <1>2, <2>1 DEF PlanCommit, JobShape, Shape
    <2> QED BY <1>2, <2>1, <2>2 DEF Component
  <1>3. CASE SetDeposit(q)
    <2>1. share \in [Component -> 0..MaxAmount] BY DEF TypeOK
    <2> QED BY <1>3, <2>1 DEF SetDeposit
  <1> QED BY <1>1, <1>2, <1>3

\* A receipt, once recorded, stays on file.
LEMMA ReceiptStays == ASSUME TypeOK, JobShape, [Next]_vars, NEW r \in Receipts, receipt[r] # None
                      PROVE  receipt'[r] # None
  <1> USE DEF Begin, Goto
  <1>a. receipt \in [Receipts -> Rows \cup {None}] BY DEF TypeOK
  <1>1. ASSUME NEW q \in Requests, NEW s \in Receipts, NEW d \in Dates, NEW a \in Amounts,
               CreateReceipt(q, s, d, a) \/ \E c \in Charges : RecordPayment(q, s, c, d, a)
        PROVE  receipt'[r] # None
    BY <1>1, <1>a DEF CreateReceipt, RecordPayment
  <1>2. ASSUME NEW q \in Requests, NEW s \in Receipts,
               FormLoad(q, s) \/ FinalizeBegin(q, s) \/ AllocateBegin(q, s)
        PROVE  receipt' = receipt
    BY <1>2 DEF FormLoad, FinalizeBegin, AllocateBegin
  <1>3. ASSUME NEW q \in Requests, FormSave(q)
        PROVE  receipt'[r] # None
    <2>1. form[q].row \in Rows
      BY <1>3, Form1 DEF FormSave
    <2> QED BY <1>3, <1>a, <2>1 DEF FormSave
  <1>4. ASSUME NEW q \in Requests, AllocateConclude(q) \/ FinalizeCommit(q)
        PROVE  receipt'[r] # None
    <2>1. on[q] \in Receipts /\ receipt[on[q]] \in Rows
      BY <1>4, Rows1 DEF AllocateConclude, FinalizeCommit
    <2>2. \A st : [receipt[on[q]] EXCEPT !.status = st] # None \/ st \notin {"draft", "ready_to_sync", "allocated", "posted"}
      BY <2>1 DEF Rows
    <2>3. \A st \in {"posted", "ready_to_sync"} : [receipt[on[q]] EXCEPT !.status = st, !.linked = TRUE] # None
      BY <2>1 DEF Rows
    <2>4. ReceiptStatus(on[q]) \in {"draft", "ready_to_sync", "allocated"}
      BY DEF ReceiptStatus
    <2>5. CASE AllocateConclude(q)
      BY <2>5, <1>a, <2>1, <2>2, <2>4 DEF AllocateConclude
    <2>6. CASE FinalizeCommit(q)
      BY <2>6, <1>a, <2>1, <2>3 DEF FinalizeCommit
    <2> QED BY <1>4, <2>5, <2>6
  <1>5. ASSUME NEW q \in Requests, Work(q), ~FormSave(q), ~AllocateConclude(q), ~FinalizeCommit(q)
        PROVE  receipt' = receipt
    BY <1>5 DEF Work, SetDeposit, AllocateRefused, PlanCharge, PlanCommit, AllocateBegin, SyncStart,
                SyncRefused, SyncSkip, SyncSend, SettlePosted, SettleFailed, Settle
  <1>6. ASSUME NEW q \in Requests, Crash(q)
        PROVE  receipt' = receipt
    BY <1>6 DEF Crash
  <1>7. ASSUME NEW s \in Receipts, VoidReceipt(s)
        PROVE  receipt'[r] # None
    <2>1. [receipt[s] EXCEPT !.status = "voided"] # None
      BY <1>7, <1>a DEF VoidReceipt, Rows
    <2> QED BY <1>7, <1>a, <2>1 DEF VoidReceipt
  <1>8. CASE LedgerBooks \/ UNCHANGED vars
    BY <1>8 DEF LedgerBooks, vars
  <1>9. CASE Administer
    BY <1>7, <1>9 DEF Administer, ApproveCharge, ArchiveCharge, ChangeMapping
  <1>10. ASSUME NEW q \in Requests, Ask(q)
         PROVE  receipt'[r] # None
    BY <1>10, <1>1, <1>2 DEF Ask
  <1>11. ASSUME NEW q \in Requests, Work(q)
         PROVE  receipt'[r] # None
    BY <1>11, <1>3, <1>4, <1>5
  <1> QED BY <1>6, <1>8, <1>9, <1>10, <1>11 DEF Next
-----------------------------------------------------------------------------
\* A request that does not step keeps its shape: other requests cannot take away the
\* components it plans or syncs, whose receipt or rows it has locked.
LEMMA ShapeKept == ASSUME TypeOK, JobShape, Locking, [Next]_vars, NEW o \in Requests, Same(o)
                   PROVE  Shape(o)'
  <1>1. on[o] # None => on[o] \in Receipts /\ receipt'[on[o]] # None
    <2>1. on[o] # None => on[o] \in Receipts
      BY DEF TypeOK
    <2> QED BY <2>1, ReceiptStays DEF JobShape, Shape
  <1>2. ASSUME NEW q \in Requests, PlanCommit(q) \/ SetDeposit(q)
        PROVE  q # o
    <2>1. pc'[q] # pc[q]
      BY <1>2 DEF TypeOK, PlanCommit, SetDeposit, Finish, Begin, Goto
    <2> QED BY <2>1 DEF Same
  <1>3. ASSUME NEW p \in Parts, pc[o] \in {"plan", "finalize"}, on[o] \in Receipts,
               share'[<<on[o], p>>] # share[<<on[o], p>>]
        PROVE  pc[o] = "plan" /\ p = Deposit
    <2> DEFINE k == <<on[o], p>>
    <2>1. k \in Component
      BY <1>3 DEF Component
    <2>2. ASSUME NEW q \in Requests, PlanCommit(q), on[q] = on[o]
          PROVE  FALSE
      BY <2>2, <1>2, <1>3 DEF PlanCommit, Locking, Exclusive, JobShape, Shape
    <2>3. ASSUME NEW q \in Requests, SetDeposit(q), on[q] = on[o], ~ReceiptLocked(on[q])
          PROVE  FALSE
      BY <2>3, <1>3 DEF ReceiptLocked
    <2> QED BY <1>3, <2>1, <2>2, <2>3, ShareMoves
  <1>4. ASSUME NEW c \in Charges, on[o] \in Receipts, share[<<on[o], c>>] > 0
        PROVE  share'[<<on[o], c>>] > 0
    <2>1. <<on[o], c>> \in Component /\ c # Deposit
      BY <1>4 DEF Component, Parts
    <2> QED BY <1>4, <2>1, ShareMoves
  <1>5. pc[o] = "plan" => \A c \in Charges : c \in todo[o] \/ plan[o][c] > 0 => share'[<<on[o], c>>] = 0
    <2>1. SUFFICES ASSUME pc[o] = "plan", NEW c \in Charges, c \in todo[o] \/ plan[o][c] > 0
                   PROVE  share'[<<on[o], c>>] = 0
      OBVIOUS
    <2>2. share[<<on[o], c>>] = 0 /\ on[o] # None
      BY <2>1 DEF JobShape, Shape
    <2>3. c \in Parts /\ c # Deposit
      BY DEF Parts
    <2> QED BY <2>1, <2>2, <2>3, <1>1, <1>3
  <1>6. ASSUME NEW p \in Parts, pc[o] \in {"post", "finalize"}, share[<<on[o], p>>] > 0,
               pc[o] = "post" => p # Deposit
        PROVE  share'[<<on[o], p>>] > 0
    <2>1. on[o] \in Receipts
      BY <1>1, <1>6 DEF JobShape, Shape
    <2> QED BY <2>1, <1>3, <1>4, <1>6 DEF Parts
  <1>7. pc[o] \in {"post", "finalize"} =>
          /\ \A p \in todo[o] : share'[<<on[o], p>>] > 0
          /\ sync[o] # None => share'[<<on[o], sync[o].part>>] > 0
    <2>1. todo[o] \subseteq Parts /\ (sync[o] # None => sync[o].part \in Parts)
      BY DEF TypeOK, Snapshots
    <2>2. Shape(o)
      BY DEF JobShape
    <2> QED BY <2>1, <2>2, <1>6 DEF Shape
  <1>8. Shape(o)
    BY DEF JobShape
  <1> QED BY <1>1, <1>5, <1>7, <1>8 DEF Shape, Same

\* A request that steps has the shape its next pc asks for.
LEMMA ShapeOwn == ASSUME TypeOK, JobShape, [Next]_vars, NEW q \in Requests, Steps(q)
                  PROVE  Shape(q)'
  <1> USE DEF Begin, Goto, planVars, syncVars
  <1>a. Shape(q) BY DEF JobShape
  <1>b. JobTypes BY DEF TypeOK, JobTypes
  <1>c. receipt \in [Receipts -> Rows \cup {None}] BY DEF TypeOK
  <1>d. TypeOK' BY TypeStep
  <1>e. \A r \in Receipts : receipt[r] # None => receipt'[r] # None BY ReceiptStays
  <1>1. CASE Finish(q)
    BY <1>1, <1>b, Answered
  <1>2. ASSUME NEW r \in Receipts, NEW d \in Dates, NEW a \in Amounts, CreateReceipt(q, r, d, a)
        PROVE  Shape(q)'
    <2>1. NewRow(d, a) \in Rows
      BY DEF NewRow, Rows
    <2>2. receipt'[r] # None
      BY <1>2, <1>c, <2>1 DEF CreateReceipt
    <2>3. form'[q] # None
      <3>1. PICK dep \in DepositChoices(a) : form' = [form EXCEPT ![q] = [row |-> None, deposit |-> dep]]
        BY <1>2 DEF CreateReceipt
      <3>2. [row |-> None, deposit |-> dep] \in Forms
        BY DEF DepositChoices, Amounts, Forms
      <3> QED BY <3>1, <3>2, <1>b DEF JobTypes
    <2> QED BY <1>2, <1>a, <1>b, <2>2, <2>3 DEF CreateReceipt, Shape, JobTypes
  <1>3. ASSUME NEW r \in Receipts, NEW c \in Charges, NEW d \in Dates, NEW a \in Amounts,
               RecordPayment(q, r, c, d, a)
        PROVE  Shape(q)'
    <2>1. NewRow(d, a) \in Rows
      BY DEF NewRow, Rows
    <2>2. receipt'[r] # None
      BY <1>3, <1>c, <2>1 DEF RecordPayment
    <2> QED BY <1>3, <1>a, <1>b, <2>2 DEF RecordPayment, Shape, JobTypes
  <1>4. ASSUME NEW r \in Receipts, FormLoad(q, r)
        PROVE  Shape(q)'
    <2>1. receipt[r] \in Rows /\ share[<<r, Deposit>>] \in 0..MaxAmount
      BY <1>4, <1>c DEF FormLoad, TypeOK, Component, Parts
    <2>2. \A d \in Dates, a \in Amounts : [receipt[r] EXCEPT !.date = d, !.amount = a] \in Rows
      BY <2>1 DEF Rows
    <2>3. \A a \in Amounts : DepositChoices(a) \subseteq 0..MaxAmount
      BY DEF DepositChoices, Amounts
    <2>4. \E row \in Rows, dep \in 0..MaxAmount : form' = [form EXCEPT ![q] = [row |-> row, deposit |-> dep]]
      BY <1>4, <2>1, <2>2, <2>3 DEF FormLoad
    <2>5. \A row \in Rows, dep \in 0..MaxAmount : [row |-> row, deposit |-> dep] \in Forms
      BY DEF Forms
    <2>6. form'[q] # None /\ form'[q].row # None
      BY <2>4, <2>5, <1>b DEF JobTypes
    <2>7. pc[q] = "idle" /\ receipt[r] # None /\ Begin(q, "form", r)
      BY <1>4 DEF FormLoad
    <2>8. pc'[q] = "form" /\ on'[q] = r
      BY <2>7, <1>b DEF JobTypes
    <2>9. UNCHANGED <<receipt, share, plan, todo, sync, sending, held, locks>>
      BY <1>4 DEF FormLoad
    <2> QED BY <1>a, <2>6, <2>7, <2>8, <2>9 DEF Shape
  <1>5. ASSUME NEW r \in Receipts, FinalizeBegin(q, r)
        PROVE  Shape(q)'
    BY <1>5, <1>a, <1>b DEF FinalizeBegin, PartsOf, Shape, JobTypes
  <1>6. ASSUME NEW r \in Receipts, AllocateBegin(q, r)
        PROVE  Shape(q)'
    BY <1>6, <1>a, <1>b DEF AllocateBegin, NoPlan, Parts, Shape, JobTypes
  <1>7. CASE FormSave(q)
    <2>1. form[q] \in Forms /\ on[q] \in Receipts /\ receipt[on[q]] # None
      BY <1>7, Form1, Rows1 DEF FormSave
    <2>2. [form[q] EXCEPT !.row = None] \in Forms
      BY <2>1 DEF Forms
    <2>3. form'[q] = [form[q] EXCEPT !.row = None]
      BY <1>7, <1>b DEF FormSave, JobTypes
    <2>4. form'[q] # None
      BY <2>2, <2>3
    <2> QED BY <1>7, <1>a, <1>b, <1>e, <2>1, <2>4 DEF FormSave, Shape, JobTypes
  <1>8. CASE PlanCharge(q)
    <2>1. PICK c \in todo[q] : /\ todo' = [todo EXCEPT ![q] = @ \ {c}]
                              /\ \/ \E a \in Amounts : plan' = [plan EXCEPT ![q][c] = a]
                                 \/ UNCHANGED plan
      BY <1>8 DEF PlanCharge
    <2>2. c \in Charges
      BY <1>8, <2>1, <1>a, <1>b DEF PlanCharge, JobTypes, Parts, Shape
    <2>3. \A e \in Charges : e \in todo'[q] \/ plan'[q][e] > 0 => e \in todo[q] \/ plan[q][e] > 0
      BY <2>1, <2>2, <1>b DEF JobTypes
    <2>4. UNCHANGED <<receipt, share, pc, on, sync, sending, held, locks, form>> /\ pc[q] = "plan"
      BY <1>8 DEF PlanCharge
    <2>5. todo'[q] \subseteq todo[q]
      BY <2>1, <1>b DEF JobTypes
    <2> QED BY <2>3, <2>4, <2>5, <1>a DEF Shape
  <1>9. CASE PlanCommit(q)
    <2>1. /\ pc'[q] = "post" /\ on'[q] = on[q] /\ plan'[q] = NoPlan
          /\ todo'[q] = {c \in Charges : share'[<<on[q], c>>] > 0}
      BY <1>9, <1>b DEF PlanCommit, JobTypes
    <2>2. UNCHANGED <<receipt, sync, sending, held, locks, form>> /\ pc[q] = "plan"
      BY <1>9 DEF PlanCommit
    <2> QED BY <2>1, <2>2, <1>a DEF Shape, Parts
  <1>10. ASSUME NEW p \in Parts, SyncStart(q, p)
         PROVE  Shape(q)'
    <2> DEFINE s == [part |-> p, row |-> receipt[on[q]], ready |-> ready[p], record |-> record[<<on[q], p>>]]
    <2>1. sync'[q] = s /\ todo'[q] = todo[q] \ {p}
      BY <1>10, <1>b DEF SyncStart, JobTypes
    <2>2. s.part = p
      OBVIOUS
    <2>3. sync'[q].part = p
      BY <2>1, <2>2
    <2>4. p \in todo[q] /\ pc[q] \in {"post", "finalize"} /\ sending[q] = None
      BY <1>10 DEF SyncStart
    <2>5. UNCHANGED <<receipt, share, pc, on, plan, sending, held, locks, form>>
      BY <1>10 DEF SyncStart
    <2> HIDE DEF s
    <2> QED BY <2>1, <2>3, <2>4, <2>5, <1>a DEF Shape
  <1>11. CASE SyncSkip(q)
    BY <1>11, <1>a, <1>b DEF SyncSkip, HasLock, Shape, JobTypes
  <1>12. CASE SyncSend(q)
    <2> DEFINE s == [part |-> sync[q].part, body |-> Current(q)]
    <2>1. sync[q] # None
      BY <1>12 DEF SyncSend, HasLock
    <2>2. s.part = sync[q].part
      OBVIOUS
    <2>3. sending'[q] = s /\ sync'[q] = None /\ locks'[q] = locks[q] \cup {sync[q].part}
      BY <1>12, <1>b DEF SyncSend, JobTypes
    <2>4. sending'[q].part = sync[q].part
      BY <2>2, <2>3
    <2>5. sending'[q] # None
      <3>1. sync[q].part \in Parts /\ Current(q) \in Bodies
        BY <2>1, Current1, Sync1 DEF Snapshots
      <3>2. s \in Requested
        BY <3>1 DEF Requested
      <3> QED BY <2>3, <3>2
    <2>6. UNCHANGED <<receipt, share, pc, on, plan, todo, held, form>>
      BY <1>12 DEF SyncSend
    <2>7. pc[q] \in {"post", "finalize"} /\ sending[q] = None
      BY <2>1, <1>a DEF Shape
    <2> HIDE DEF s
    <2> QED BY <2>1, <2>3, <2>4, <2>5, <2>6, <2>7, <1>a DEF Shape
  <1>13. CASE SettlePosted(q) \/ SettleFailed(q)
    <2>1. /\ sending[q] # None /\ sending'[q] = None
          /\ \/ pc[q] = "post" /\ locks'[q] = {} /\ held' = held
             \/ pc[q] = "finalize"
      BY <1>13, <1>b DEF SettlePosted, SettleFailed, Settle, JobTypes
    <2>2. UNCHANGED <<receipt, share, pc, on, plan, todo, sync, form>>
      BY <1>13 DEF SettlePosted, SettleFailed, Settle
    <2> QED BY <2>1, <2>2, <1>a DEF Shape
  <1>14. CASE Ask(q)
    BY <1>14, <1>2, <1>3, <1>4, <1>5, <1>6 DEF Ask
  <1>15. CASE Work(q)
    <2>1. pc[q] = "recorded" => on[q] \in Receipts
      BY Rows1
    <2> QED
      BY <1>15, <1>1, <1>6, <1>7, <1>8, <1>9, <1>10, <1>11, <1>12, <1>13, <2>1
      DEF Work, SetDeposit, AllocateRefused, AllocateConclude, SyncRefused, FinalizeCommit
  <1>16. CASE Crash(q)
    BY <1>1, <1>16 DEF Crash
  <1> QED BY <1>14, <1>15, <1>16 DEF Steps

\* Who steps: a request, LedgerOS or an administrator.
LEMMA WhoSteps == ASSUME TypeOK, [Next]_vars
                  PROVE  \/ \E q \in Requests : Steps(q) /\ \A o \in Requests \ {q} : Same(o)
                         \/ UNCHANGED job /\ \A o \in Requests : Same(o)
  <1>1. JobTypes
    BY DEF TypeOK, JobTypes
  <1>2. ASSUME NEW q \in Requests, Steps(q)
        PROVE  \A o \in Requests \ {q} : Same(o)
    BY <1>1, <1>2, OthersSame
  <1>3. CASE LedgerBooks \/ Administer \/ UNCHANGED vars
    <2>1. UNCHANGED job
      BY <1>3 DEF LedgerBooks, Administer, VoidReceipt, ApproveCharge, ArchiveCharge, ChangeMapping, vars
    <2> QED BY <2>1 DEF job, planVars, syncVars, Same
  <1> QED BY <1>2, <1>3 DEF Next, Steps

\* Every step keeps the shape of every request.
LEMMA ShapeStep == ASSUME TypeOK, JobShape, Locking, [Next]_vars PROVE JobShape'
  BY WhoSteps, ShapeOwn, ShapeKept DEF JobShape
-----------------------------------------------------------------------------
\* Steps of a request that touch neither locks nor attempts; a receipt is locked only
\* when no other request has it locked.
LEMMA CalmSteps ==
  ASSUME JobTypes, NEW q \in Requests, Steps(q), ~Finish(q),
         ~SyncSkip(q), ~SyncSend(q), ~SettlePosted(q), ~SettleFailed(q)
  PROVE  /\ UNCHANGED <<sending, held, locks, frozen, record, wire, ledger, lost>>
         /\ on'[q] = on[q] \/ pc[q] = "idle"
         /\ pc'[q] \in {"plan", "finalize"} =>
              (pc[q] = pc'[q] /\ on'[q] = on[q]) \/ ~ReceiptLocked(on'[q])
  <1> USE DEF JobTypes, Begin, Goto, syncVars, planVars, records, outside
  <1>1. CASE Ask(q)
    <2>1. ASSUME NEW r \in Receipts, NEW d \in Dates, NEW a \in Amounts, CreateReceipt(q, r, d, a)
          PROVE  pc[q] = "idle" /\ pc'[q] = "deposit" /\ UNCHANGED <<sending, held, locks, frozen, record, wire, ledger, lost>>
      BY <2>1 DEF CreateReceipt
    <2>2. ASSUME NEW r \in Receipts, NEW c \in Charges, NEW d \in Dates, NEW a \in Amounts,
                 RecordPayment(q, r, c, d, a)
          PROVE  pc[q] = "idle" /\ pc'[q] = "recorded" /\ UNCHANGED <<sending, held, locks, frozen, record, wire, ledger, lost>>
      BY <2>2 DEF RecordPayment
    <2>3. ASSUME NEW r \in Receipts, FormLoad(q, r)
          PROVE  pc[q] = "idle" /\ pc'[q] = "form" /\ UNCHANGED <<sending, held, locks, frozen, record, wire, ledger, lost>>
      BY <2>3 DEF FormLoad
    <2>4. ASSUME NEW r \in Receipts, FinalizeBegin(q, r) \/ AllocateBegin(q, r)
          PROVE  on'[q] = r /\ ~ReceiptLocked(r) /\ UNCHANGED <<sending, held, locks, frozen, record, wire, ledger, lost>>
      BY <2>4 DEF FinalizeBegin, AllocateBegin
    <2>5. ASSUME NEW r \in Receipts, FinalizeBegin(q, r) \/ (pc[q] = "idle" /\ AllocateBegin(q, r))
          PROVE  pc[q] = "idle"
      BY <2>5 DEF FinalizeBegin
    <2> QED BY <1>1, <2>1, <2>2, <2>3, <2>4, <2>5 DEF Ask
  <1>2. CASE Work(q)
    <2>1. CASE FormSave(q) \/ PlanCommit(q) \/ PlanCharge(q) \/ \E p \in Parts : SyncStart(q, p)
      BY <2>1 DEF FormSave, PlanCommit, PlanCharge, SyncStart
    <2>2. CASE AllocateBegin(q, on[q])
      BY <2>2 DEF AllocateBegin
    <2> QED
      BY <1>2, <2>1, <2>2
      DEF Work, SetDeposit, AllocateRefused, AllocateConclude, SyncRefused, FinalizeCommit
  <1>3. CASE Crash(q)
    BY <1>3 DEF Crash
  <1> QED BY <1>1, <1>2, <1>3 DEF Steps

\* A request that steps keeps its attempts under its own locks, once per component.
LEMMA OwnLocksKept == ASSUME JobTypes, JobShape, NEW q \in Requests, OwnLocks(q), Steps(q)
                      PROVE  OwnLocks(q)'
  <1>a. Shape(q) BY DEF JobShape
  <1>1. CASE Finish(q)
    BY <1>1 DEF JobTypes, Finish, OwnLocks
  <1>2. CASE SyncSkip(q)
    BY <1>2 DEF JobTypes, SyncSkip, OwnLocks
  <1>3. CASE SyncSend(q)
    <2> DEFINE p == sync[q].part
               s == [part |-> p, body |-> Current(q)]
    <2>1. p \notin locks[q] /\ held' = held
      BY <1>3 DEF SyncSend, HasLock, PartLocked
    <2>2. sending'[q] = s /\ locks'[q] = locks[q] \cup {p}
      BY <1>3 DEF SyncSend, JobTypes
    <2>3. s.part = p
      OBVIOUS
    <2>4. sending'[q].part = p
      BY <2>2, <2>3
    <2> HIDE DEF s, p
    <2> QED BY <2>1, <2>2, <2>4 DEF OwnLocks
  <1>4. CASE SettlePosted(q) \/ SettleFailed(q)
    <2>1. PICK status : sending[q] # None /\ Settle(q, status)
      BY <1>4 DEF SettlePosted, SettleFailed
    <2> DEFINE a == [part |-> sending[q].part, record |-> [status |-> status, body |-> sending[q].body]]
    <2>2. sending'[q] = None
      BY <2>1 DEF Settle, JobTypes
    <2>3. CASE pc[q] = "post"
      BY <1>a, <2>1, <2>2, <2>3 DEF Settle, JobTypes, OwnLocks, Shape
    <2>4. CASE pc[q] = "finalize"
      <3>1. held'[q] = held[q] \cup {a} /\ locks' = locks
        BY <2>1, <2>4 DEF Settle, JobTypes
      <3>2. a.part = sending[q].part
        OBVIOUS
      <3> HIDE DEF a
      <3> QED BY <2>1, <2>2, <3>1, <3>2 DEF OwnLocks
    <2> QED BY <2>1, <2>3, <2>4 DEF Settle
  <1>5. CASE ~(Finish(q) \/ SyncSkip(q) \/ SyncSend(q) \/ SettlePosted(q) \/ SettleFailed(q))
    BY <1>5, CalmSteps DEF OwnLocks
  <1> QED BY <1>1, <1>2, <1>3, <1>4, <1>5

\* A request that steps takes no lock another request holds.
LEMMA ExclusiveKept ==
  ASSUME JobTypes, JobShape, NEW q \in Requests, NEW o \in Requests \ {q},
         Exclusive(q, o), Steps(q), Same(o)
  PROVE  Exclusive(q, o)'
  <1>a. Shape(q) BY DEF JobShape
  <1>1. CASE Finish(q)
    BY <1>1 DEF JobTypes, Finish, Begin, Exclusive
  <1>2. CASE SyncSkip(q) \/ SyncSend(q)
    <2>1. on' = on /\ pc' = pc /\ ~PartLocked(on[q], sync[q].part)
      BY <1>2 DEF SyncSkip, SyncSend, HasLock
    <2>2. locks'[q] \subseteq locks[q] \cup {sync[q].part}
      BY <1>2 DEF SyncSkip, SyncSend, JobTypes
    <2>3. on[o] = on[q] => sync[q].part \notin locks[o]
      BY <2>1 DEF PartLocked
    <2> QED BY <2>1, <2>2, <2>3 DEF Exclusive, Same
  <1>3. CASE SettlePosted(q) \/ SettleFailed(q)
    <2>1. on' = on /\ pc' = pc /\ locks'[q] \subseteq locks[q]
      BY <1>3 DEF SettlePosted, SettleFailed, Settle, JobTypes
    <2> QED BY <2>1 DEF Exclusive, Same
  <1>4. CASE ~(Finish(q) \/ SyncSkip(q) \/ SyncSend(q) \/ SettlePosted(q) \/ SettleFailed(q))
    <2>1. /\ locks' = locks
          /\ on'[q] = on[q] \/ pc[q] = "idle"
          /\ pc'[q] \in {"plan", "finalize"} =>
               (pc[q] = pc'[q] /\ on'[q] = on[q]) \/ ~ReceiptLocked(on'[q])
      BY <1>4, CalmSteps
    <2>2. pc[q] = "idle" => locks[q] = {}
      BY <1>a DEF Shape
    <2>3. on'[o] = on'[q] /\ ~ReceiptLocked(on'[q]) => pc'[o] \notin {"plan", "finalize"}
      BY DEF ReceiptLocked, Same
    <2> QED BY <2>1, <2>2, <2>3 DEF Exclusive, Same
  <1> QED BY <1>1, <1>2, <1>3, <1>4

\* Every step keeps the row locks exclusive.
LEMMA LockStep == ASSUME TypeOK, JobShape, Locking, [Next]_vars PROVE Locking'
  <1>a. JobTypes BY DEF TypeOK, JobTypes
  <1>1. CASE \E q \in Requests : Steps(q) /\ \A o \in Requests \ {q} : Same(o)
    <2>1. PICK q \in Requests : Steps(q) /\ \A o \in Requests \ {q} : Same(o)
      BY <1>1
    <2>2. ASSUME NEW o \in Requests
          PROVE  OwnLocks(o)'
      <3>1. CASE o = q
        BY <1>a, <2>1, <3>1, OwnLocksKept DEF Locking
      <3>2. CASE o # q
        BY <2>1, <3>2 DEF Same, OwnLocks, Locking
      <3> QED BY <3>1, <3>2
    <2>3. ASSUME NEW o \in Requests, NEW x \in Requests \ {o}
          PROVE  Exclusive(o, x)'
      <3>1. CASE o = q
        BY <1>a, <2>1, <3>1, ExclusiveKept DEF Locking
      <3>2. CASE x = q
        <4>1. Exclusive(q, o)'
          BY <1>a, <2>1, <3>2, ExclusiveKept DEF Locking
        <4> QED BY <3>2, <4>1 DEF Exclusive
      <3>3. CASE o # q /\ x # q
        BY <2>1, <3>3 DEF Same, Exclusive, Locking
      <3> QED BY <3>1, <3>2, <3>3
    <2> QED BY <2>2, <2>3 DEF Locking
  <1>2. CASE UNCHANGED job
    BY <1>2 DEF job, planVars, syncVars, Locking, OwnLocks, Exclusive
  <1> QED BY <1>1, <1>2, WhoSteps
-----------------------------------------------------------------------------
\* Requests sent, posted and lost are never forgotten.
LEMMA OutsideGrows == ASSUME [Next]_vars
                      PROVE  wire \subseteq wire' /\ ledger \subseteq ledger' /\ lost \subseteq lost'
  <1> USE DEF outside
  <1>1. ASSUME NEW q \in Requests, Ask(q)
        PROVE  UNCHANGED outside
    BY <1>1 DEF Ask, CreateReceipt, RecordPayment, FormLoad, FinalizeBegin, AllocateBegin
  <1>2. ASSUME NEW q \in Requests, Work(q), ~SyncRefused(q), ~SyncSend(q)
        PROVE  UNCHANGED outside
    BY <1>2 DEF Work, FormSave, SetDeposit, AllocateRefused, PlanCharge, PlanCommit, AllocateConclude,
                AllocateBegin, SyncStart, SyncSkip, SettlePosted, SettleFailed, Settle, FinalizeCommit
  <1>3. ASSUME NEW q \in Requests, SyncRefused(q) \/ SyncSend(q) \/ Crash(q)
        PROVE  wire \subseteq wire' /\ ledger \subseteq ledger' /\ lost \subseteq lost'
    BY <1>3 DEF SyncRefused, SyncSend, Crash
  <1>4. CASE LedgerBooks
    BY <1>4 DEF LedgerBooks
  <1>5. CASE Administer \/ UNCHANGED vars
    BY <1>5 DEF Administer, VoidReceipt, ApproveCharge, ArchiveCharge, ChangeMapping, vars
  <1> QED BY <1>1, <1>2, <1>3, <1>4, <1>5 DEF Next

\* An attempt is made by a request that works on the receipt, under the component's lock.
LEMMA AttemptLocked ==
  ASSUME TypeOK, JobShape, NEW q \in Requests, OwnLocks(q),
         NEW k \in Component, NEW b \in Bodies, Attempt(q, k, b)
  PROVE  /\ on[q] = k[1] /\ on[q] # None /\ k[2] \in locks[q]
         /\ pc[q] \in {"post", "finalize"}
         /\ pc[q] = "post" => k[2] # Deposit /\ held[q] = {}
  <1>1. k[1] \in Receipts /\ k[2] \in Parts
    BY DEF Component
  <1>2. [part |-> k[2], body |-> b].part = k[2]
    OBVIOUS
  <1>3. [part |-> k[2], body |-> b] \in Requested
    BY <1>1 DEF Requested
  <1>4. CASE sending[q] = [part |-> k[2], body |-> b]
    <2>1. sending[q] # None /\ sending[q].part = k[2]
      BY <1>2, <1>3, <1>4
    <2> QED BY <1>1, <2>1 DEF Attempt, OwnLocks, JobShape, Shape
  <1>5. CASE \E a \in held[q] : a.part = k[2] /\ a.record.body = b
    BY <1>1, <1>5 DEF Attempt, OwnLocks, JobShape, Shape
  <1> QED BY <1>4, <1>5 DEF Attempt

\* Two requests never attempt the same component at the same time.
LEMMA AttemptAlone ==
  ASSUME TypeOK, JobShape, Locking, NEW q \in Requests, NEW o \in Requests,
         NEW k \in Component, NEW b \in Bodies, NEW x \in Bodies, Attempt(q, k, b), Attempt(o, k, x)
  PROVE  q = o
  <1>1. k[2] \in locks[q] /\ on[q] = k[1] /\ on[q] # None
    BY AttemptLocked DEF Locking
  <1>2. k[2] \in locks[o] /\ on[o] = k[1]
    BY AttemptLocked DEF Locking
  <1> QED BY <1>1, <1>2 DEF Locking, Exclusive

\* A new attempt is one just sent.
LEMMA AttemptMoves ==
  ASSUME TypeOK, JobShape, [Next]_vars, NEW q \in Requests, NEW k \in Component, NEW b \in Bodies,
         Attempt(q, k, b)'
  PROVE  \/ Attempt(q, k, b)
         \/ SyncSend(q) /\ k = <<on[q], sync[q].part>> /\ b = Current(q)
  <1>a. JobTypes BY DEF TypeOK, JobTypes
  <1>b. Shape(q) BY DEF JobShape
  <1>c. [part |-> k[2], body |-> b] \in Requested
    BY DEF Component, Requested
  <1>1. CASE Same(q)
    BY <1>1 DEF Same, Attempt
  <1>2. CASE Steps(q)
    <2>1. CASE Finish(q)
      <3>1. sending'[q] = None /\ held'[q] = {}
        BY <2>1, <1>a DEF Finish, JobTypes
      <3> QED BY <3>1, <1>c DEF Attempt
    <2>2. CASE SyncSkip(q)
      BY <2>2 DEF SyncSkip, Attempt
    <2>3. CASE SyncSend(q)
      <3> DEFINE s == [part |-> sync[q].part, body |-> Current(q)]
      <3>1. sending'[q] = s /\ held' = held /\ on' = on
        BY <2>3, <1>a DEF SyncSend, JobTypes
      <3>2. on[q] = k[1]
        BY <3>1 DEF Attempt
      <3>3. CASE s = [part |-> k[2], body |-> b]
        <4>1. s.part = k[2] /\ s.body = b
          BY <3>3
        <4> QED BY <2>3, <3>2, <4>1 DEF Component
      <3>4. CASE \E a \in held[q] : a.part = k[2] /\ a.record.body = b
        BY <3>2, <3>4 DEF Attempt
      <3> HIDE DEF s
      <3> QED BY <3>1, <3>3, <3>4 DEF Attempt
    <2>4. CASE SettlePosted(q) \/ SettleFailed(q)
      <3>1. PICK status : sending[q] # None /\ Settle(q, status)
        BY <2>4 DEF SettlePosted, SettleFailed
      <3> DEFINE a == [part |-> sending[q].part, record |-> [status |-> status, body |-> sending[q].body]]
      <3>2. sending'[q] = None /\ on' = on
        BY <3>1, <1>a DEF Settle, JobTypes
      <3>3. held'[q] \subseteq held[q] \cup {a}
        BY <3>1, <1>a DEF Settle, JobTypes
      <3>4. PICK h \in held'[q] : h.part = k[2] /\ h.record.body = b
        BY <3>2, <1>c DEF Attempt
      <3>5. CASE h \in held[q]
        BY <3>2, <3>4, <3>5 DEF Attempt
      <3>6. CASE h = a
        <4>1. sending[q].part = k[2] /\ sending[q].body = b
          BY <3>4, <3>6
        <4>2. sending[q] \in Requested
          BY <3>1, Sending1
        <4>3. sending[q] = [part |-> k[2], body |-> b]
          BY <4>1, <4>2 DEF Requested
        <4> QED BY <4>3, <3>2 DEF Attempt
      <3> QED BY <3>3, <3>5, <3>6
    <2>5. CASE ~(Finish(q) \/ SyncSkip(q) \/ SyncSend(q) \/ SettlePosted(q) \/ SettleFailed(q))
      <3>1. /\ sending' = sending /\ held' = held
            /\ on'[q] = on[q] \/ pc[q] = "idle"
        BY <2>5, <1>2, <1>a, CalmSteps
      <3>2. pc[q] = "idle" => sending[q] = None /\ held[q] = {}
        BY <1>b DEF Shape
      <3> QED BY <3>1, <3>2, <1>c DEF Attempt
    <2> QED BY <2>1, <2>2, <2>3, <2>4, <2>5
  <1> QED BY <1>1, <1>2, WhoSteps

\* The amount of a component does not change while it is being attempted.
LEMMA AttemptShare ==
  ASSUME TypeOK, JobShape, Locking, InFlight, [Next]_vars,
         NEW q \in Requests, NEW k \in Component, NEW b \in Bodies, Attempt(q, k, b)
  PROVE  share'[k] = share[k]
  <1>1. share[k] > 0
    <2>1. b.amount = share[k]
      BY DEF InFlight
    <2>2. b.amount \in 1..MaxAmount
      BY DEF Bodies, Amounts
    <2> QED BY <2>1, <2>2
  <1>2. /\ on[q] = k[1] /\ pc[q] \in {"post", "finalize"}
        /\ pc[q] = "post" => k[2] # Deposit
    BY AttemptLocked DEF Locking
  <1>3. ASSUME NEW o \in Requests, SetDeposit(o), k = <<on[o], Deposit>>, ~ReceiptLocked(on[o])
        PROVE  FALSE
    BY <1>2, <1>3 DEF ReceiptLocked
  <1> QED BY <1>1, <1>3, ShareMoves
-----------------------------------------------------------------------------
\* The commit of the outcome st of q's attempt to send b for component k.
Commits(q, k, b, st) ==
  /\ Attempt(q, k, b)
  /\ frozen'[k] = b /\ record'[k] = [status |-> st, body |-> b]
  /\ st = "succeeded" => <<k, b>> \in ledger
  /\ \A x \in Bodies : ~Attempt(q, k, x)'

\* An allocation commits the one attempt it has settled.
LEMMA SettleCommits ==
  ASSUME TypeOK, JobShape, NEW q \in Requests, SettlePosted(q) \/ SettleFailed(q), pc[q] = "post",
         NEW k \in Component
  PROVE  \/ frozen'[k] = frozen[k] /\ record'[k] = record[k] /\ k # <<on[q], sending[q].part>>
         \/ /\ k = <<on[q], sending[q].part>>
            /\ \E st \in {"failed", "succeeded"} : Commits(q, k, sending[q].body, st)
  <1>1. PICK st \in {"failed", "succeeded"} :
          /\ sending[q] # None /\ Settle(q, st)
          /\ st = "succeeded" => <<<<on[q], sending[q].part>>, sending[q].body>> \in ledger
    BY DEF SettlePosted, SettleFailed
  <1> DEFINE c == <<on[q], sending[q].part>>
             rec == [status |-> st, body |-> sending[q].body]
  <1>2. sending[q] \in Requested /\ c \in Component
    BY <1>1, Sending1
  <1>3. sending[q] = [part |-> sending[q].part, body |-> sending[q].body]
    BY <1>2 DEF Requested
  <1>4. frozen' = [frozen EXCEPT ![c] = sending[q].body] /\ record' = [record EXCEPT ![c] = rec]
    BY <1>1 DEF Settle
  <1>5. sending'[q] = None /\ held'[q] = {}
    <2>1. sending' = [sending EXCEPT ![q] = None] /\ held' = held
      BY <1>1 DEF Settle
    <2>2. q \in DOMAIN sending
      BY DEF TypeOK
    <2>3. held[q] = {}
      BY DEF JobShape, Shape
    <2> QED BY <2>1, <2>2, <2>3
  <1>6. CASE k # c
    BY <1>4, <1>6 DEF TypeOK
  <1>7. CASE k = c
    <2>1. frozen'[k] = sending[q].body /\ record'[k] = rec
      BY <1>2, <1>4, <1>7 DEF TypeOK
    <2>2. Attempt(q, k, sending[q].body)
      BY <1>3, <1>7 DEF Attempt
    <2>3. \A x \in Bodies : ~Attempt(q, k, x)'
      BY <1>5 DEF Attempt, Component, Requested
    <2> QED BY <1>1, <1>7, <2>1, <2>2, <2>3 DEF Commits
  <1> QED BY <1>6, <1>7

\* A finalization commits every attempt it holds.
LEMMA FinalizeCommits ==
  ASSUME TypeOK, JobShape, InFlight, NEW q \in Requests, FinalizeCommit(q), NEW k \in Component
  PROVE  \/ frozen'[k] = frozen[k] /\ record'[k] = record[k] /\ Held(q, k) = {}
         \/ /\ Held(q, k) # {}
            /\ \E a \in Held(q, k) : Commits(q, k, a.record.body, a.record.status)
  <1>1. CASE Held(q, k) = {}
    BY <1>1 DEF FinalizeCommit
  <1>2. CASE Held(q, k) # {}
    <2> DEFINE a == CHOOSE x \in Held(q, k) : TRUE
    <2>1. a \in Held(q, k)
      BY <1>2
    <2>2. a \in held[q] /\ k = <<on[q], a.part>>
      BY <2>1 DEF Held
    <2>3. a \in Attempts
      BY <2>2 DEF TypeOK
    <2>4. a.record \in Records /\ a.part = k[2] /\ on[q] = k[1]
      BY <2>2, <2>3 DEF Attempts
    <2>5. a.record = [status |-> a.record.status, body |-> a.record.body]
      BY <2>4 DEF Records
    <2>6. frozen'[k] = a.record.body /\ record'[k] = a.record
      BY <1>2 DEF FinalizeCommit, Outcome
    <2>7. a.record.status = "succeeded" => <<k, a.record.body>> \in ledger
      BY <2>2 DEF InFlight
    <2>8. Attempt(q, k, a.record.body)
      BY <2>2, <2>4 DEF Attempt
    <2>9. sending'[q] = None /\ held'[q] = {}
      BY DEF FinalizeCommit, Finish, TypeOK
    <2>10. \A x \in Bodies : ~Attempt(q, k, x)'
      BY <2>9 DEF Attempt, Component, Requested
    <2> HIDE DEF a
    <2>11. Commits(q, k, a.record.body, a.record.status)
      BY <2>5, <2>6, <2>7, <2>8, <2>10 DEF Commits
    <2> QED BY <1>2, <2>1, <2>11
  <1> QED BY <1>1, <1>2

\* Only such commits change what is on file.
LEMMA FileFrame ==
  ASSUME TypeOK, JobShape, [Next]_vars
  PROVE  \/ UNCHANGED <<frozen, record>>
         \/ \E q \in Requests : (SettlePosted(q) \/ SettleFailed(q)) /\ pc[q] = "post"
         \/ \E q \in Requests : FinalizeCommit(q)
  <1> USE DEF records
  <1>1. ASSUME NEW q \in Requests, Ask(q)
        PROVE  UNCHANGED <<frozen, record>>
    BY <1>1 DEF Ask, CreateReceipt, RecordPayment, FormLoad, FinalizeBegin, AllocateBegin
  <1>2. ASSUME NEW q \in Requests, Work(q), ~SettlePosted(q), ~SettleFailed(q), ~FinalizeCommit(q)
        PROVE  UNCHANGED <<frozen, record>>
    BY <1>2 DEF Work, FormSave, SetDeposit, AllocateRefused, PlanCharge, PlanCommit, AllocateConclude,
                AllocateBegin, SyncStart, SyncRefused, SyncSkip, SyncSend
  <1>3. ASSUME NEW q \in Requests, SettlePosted(q) \/ SettleFailed(q), pc[q] # "post"
        PROVE  UNCHANGED <<frozen, record>>
    BY <1>3 DEF SettlePosted, SettleFailed, Settle
  <1>4. ASSUME NEW q \in Requests, Crash(q)
        PROVE  UNCHANGED <<frozen, record>>
    BY <1>4 DEF Crash
  <1>5. CASE LedgerBooks \/ Administer \/ UNCHANGED vars
    BY <1>5 DEF LedgerBooks, Administer, VoidReceipt, ApproveCharge, ArchiveCharge, ChangeMapping, vars
  <1> QED BY <1>1, <1>2, <1>3, <1>4, <1>5 DEF Next

\* What is on file for a component changes only by the commit of an attempt on it.
LEMMA FileMoves ==
  ASSUME TypeOK, JobShape, InFlight, [Next]_vars, NEW k \in Component
  PROVE  \/ frozen'[k] = frozen[k] /\ record'[k] = record[k]
         \/ \E q \in Requests, b \in Bodies, st \in {"failed", "succeeded"} : Commits(q, k, b, st)
  <1>1. ASSUME NEW q \in Requests, (SettlePosted(q) \/ SettleFailed(q)) /\ pc[q] = "post"
        PROVE  \/ frozen'[k] = frozen[k] /\ record'[k] = record[k]
               \/ \E b \in Bodies, st \in {"failed", "succeeded"} : Commits(q, k, b, st)
    <2>1. sending[q].body \in Bodies
      BY <1>1, Sending1 DEF SettlePosted, SettleFailed, Requested
    <2> QED BY <1>1, <2>1, SettleCommits
  <1>2. ASSUME NEW q \in Requests, FinalizeCommit(q)
        PROVE  \/ frozen'[k] = frozen[k] /\ record'[k] = record[k]
               \/ \E b \in Bodies, st \in {"failed", "succeeded"} : Commits(q, k, b, st)
    <2>1. \A a \in Held(q, k) : a.record.body \in Bodies /\ a.record.status \in {"failed", "succeeded"}
      BY DEF Held, TypeOK, Attempts, Records
    <2> QED BY <1>2, <2>1, FinalizeCommits
  <1> QED BY <1>1, <1>2, FileFrame
-----------------------------------------------------------------------------
\* Every step keeps the files consistent with what was sent, posted and allocated.
LEMMA FileStep ==
  ASSUME TypeOK, JobShape, Locking, OnFile, InFlight, [Next]_vars
  PROVE  OnFile'
  <1> SUFFICES ASSUME NEW k \in Component
               PROVE  /\ record'[k] = None <=> frozen'[k] = None
                      /\ record'[k] # None =>
                           /\ record'[k].body = frozen'[k] /\ frozen'[k].amount = share'[k]
                           /\ <<k, frozen'[k]>> \in wire'
                           /\ record'[k].status = "succeeded" => <<k, frozen'[k]>> \in ledger'
    BY DEF OnFile
  <1>1. CASE frozen'[k] = frozen[k] /\ record'[k] = record[k]
    <2>1. ASSUME record[k] # None
          PROVE  share'[k] = share[k]
      <3>1. share[k] = frozen[k].amount /\ frozen[k] \in Bodies
        BY <2>1 DEF OnFile, TypeOK
      <3>2. share[k] > 0
        BY <3>1 DEF Bodies, Amounts
      <3>3. ASSUME NEW q \in Requests, k = <<on[q], Deposit>>, Editable(on[q])
            PROVE  FALSE
        BY <2>1, <3>3 DEF Editable, Parts
      <3> QED BY <3>2, <3>3, ShareMoves
    <2> QED BY <1>1, <2>1, OutsideGrows DEF OnFile
  <1>2. ASSUME NEW q \in Requests, NEW b \in Bodies, NEW st \in {"failed", "succeeded"}, Commits(q, k, b, st)
        PROVE  /\ frozen'[k] # None /\ record'[k] # None
               /\ record'[k].body = frozen'[k] /\ frozen'[k].amount = share'[k]
               /\ <<k, frozen'[k]>> \in wire'
               /\ record'[k].status = "succeeded" => <<k, frozen'[k]>> \in ledger'
    <2>1. Attempt(q, k, b) /\ frozen'[k] = b /\ record'[k] = [status |-> st, body |-> b]
      BY <1>2 DEF Commits
    <2>2. <<k, b>> \in wire /\ b.amount = share[k]
      BY <2>1 DEF InFlight
    <2>3. share'[k] = share[k]
      BY <2>1, AttemptShare
    <2>4. [status |-> st, body |-> b] \in Records
      BY DEF Records
    <2>5. record'[k].status = st /\ record'[k].body = b
      BY <2>1
    <2>6. st = "succeeded" => <<k, b>> \in ledger
      BY <1>2 DEF Commits
    <2> QED BY <2>1, <2>2, <2>3, <2>4, <2>5, <2>6, OutsideGrows
  <1> QED BY <1>1, <1>2, FileMoves

\* What is sent agrees with what is on file and with the amount allocated.
LEMMA SendAgrees ==
  ASSUME TypeOK, JobShape, NEW q \in Requests, SyncSend(q), NEW k \in Component,
         k = <<on[q], sync[q].part>>
  PROVE  /\ Current(q) \in Bodies
         /\ <<k, Current(q)>> \in wire'
         /\ frozen[k] \in {None, Current(q)}
         /\ Current(q).amount = share[k]
         /\ UNCHANGED <<share, frozen>>
  <1>1. sync[q] # None /\ ~Changed(q)
    BY DEF SyncSend, HasLock, Refused
  <1>2. Current(q) \in Bodies /\ Current(q).amount = share[k]
    BY <1>1, Current1
  <1>3. frozen[k] \in {None, Current(q)}
    BY <1>1 DEF Changed
  <1> QED BY <1>2, <1>3 DEF SyncSend, records

\* Every step keeps the attempts in flight consistent with the files and the amounts.
LEMMA FlightStep ==
  ASSUME TypeOK, JobShape, Locking, OnFile, InFlight, [Next]_vars
  PROVE  InFlight'
  <1>a. JobTypes BY DEF TypeOK, JobTypes
  <1>1. ASSUME NEW q \in Requests, NEW k \in Component, NEW b \in Bodies, Attempt(q, k, b)'
        PROVE  <<k, b>> \in wire' /\ frozen'[k] \in {None, b} /\ b.amount = share'[k]
    <2>1. CASE Attempt(q, k, b)
      <3>1. <<k, b>> \in wire /\ frozen[k] \in {None, b} /\ b.amount = share[k]
        BY <2>1 DEF InFlight
      <3>2. share'[k] = share[k]
        BY <2>1, AttemptShare
      <3>3. ASSUME NEW o \in Requests, NEW x \in Bodies, NEW st, Commits(o, k, x, st)
            PROVE  FALSE
        <4>1. Attempt(o, k, x) /\ ~Attempt(o, k, b)'
          BY <3>3 DEF Commits
        <4>2. o = q
          BY <4>1, <2>1, AttemptAlone
        <4> QED BY <1>1, <4>1, <4>2
      <3>4. frozen'[k] = frozen[k]
        BY <3>3, FileMoves
      <3> QED BY <3>1, <3>2, <3>4, OutsideGrows
    <2>2. CASE SyncSend(q) /\ k = <<on[q], sync[q].part>> /\ b = Current(q)
      BY <2>2, SendAgrees
    <2> QED BY <1>1, <2>1, <2>2, AttemptMoves
  <1>2. ASSUME NEW q \in Requests, NEW a \in held'[q], a.record.status = "succeeded"
        PROVE  <<<<on'[q], a.part>>, a.record.body>> \in ledger'
    <2>1. CASE a \in held[q] /\ on'[q] = on[q]
      <3>1. <<<<on[q], a.part>>, a.record.body>> \in ledger
        BY <1>2, <2>1 DEF InFlight
      <3> QED BY <2>1, <3>1, OutsideGrows
    <2>2. CASE Same(q)
      BY <1>2, <2>1, <2>2 DEF Same
    <2>3. CASE Steps(q)
      <3>1. CASE Finish(q)
        BY <1>2, <3>1, <1>a DEF Finish, JobTypes
      <3>2. CASE SyncSkip(q) \/ SyncSend(q)
        BY <1>2, <2>1, <3>2 DEF SyncSkip, SyncSend
      <3>3. CASE SettlePosted(q) \/ SettleFailed(q)
        <4>1. PICK st \in {"failed", "succeeded"} :
                /\ Settle(q, st)
                /\ st = "succeeded" => <<<<on[q], sending[q].part>>, sending[q].body>> \in ledger
          BY <3>3 DEF SettlePosted, SettleFailed
        <4> DEFINE h == [part |-> sending[q].part, record |-> [status |-> st, body |-> sending[q].body]]
        <4>2. held'[q] \subseteq held[q] \cup {h} /\ on' = on /\ ledger' = ledger
          BY <4>1, <1>a DEF Settle, JobTypes, outside
        <4>3. CASE a = h
          <5>1. a.part = sending[q].part /\ a.record.status = st /\ a.record.body = sending[q].body
            BY <4>3
          <5> QED BY <1>2, <4>1, <4>2, <5>1
        <4> QED BY <1>2, <2>1, <4>2, <4>3
      <3>4. CASE ~(Finish(q) \/ SyncSkip(q) \/ SyncSend(q) \/ SettlePosted(q) \/ SettleFailed(q))
        <4>1. held' = held /\ (on'[q] = on[q] \/ pc[q] = "idle")
          BY <2>3, <3>4, <1>a, CalmSteps
        <4>2. pc[q] = "idle" => held[q] = {}
          BY DEF JobShape, Shape
        <4> QED BY <1>2, <2>1, <4>1, <4>2
      <3> QED BY <3>1, <3>2, <3>3, <3>4
    <2> QED BY <2>2, <2>3, WhoSteps
  <1> QED BY <1>1, <1>2 DEF InFlight
-----------------------------------------------------------------------------
\* An attempt that ends is committed, or rolled back: then it was a retry of what is
\* on file, or its component is one of the lost ones.
LEMMA AttemptEnds ==
  ASSUME TypeOK, JobShape, Locking, InFlight, [Next]_vars,
         NEW q \in Requests, NEW k \in Component, NEW b \in Bodies, Attempt(q, k, b)
  PROVE  \/ Attempt(q, k, b)' \/ k \in lost' \/ frozen'[k] = b
  <1>a. JobTypes BY DEF TypeOK, JobTypes
  <1>b. Shape(q) BY DEF JobShape
  <1>c. /\ on[q] = k[1] /\ pc[q] \in {"post", "finalize"}
        /\ pc[q] = "post" => held[q] = {}
    BY AttemptLocked DEF Locking
  <1>d. k = <<on[q], k[2]>> /\ k[2] \in Parts
    BY <1>c DEF Component
  <1>e. [part |-> k[2], body |-> b] \in Requested
    BY <1>d DEF Requested
  <1>f. [part |-> k[2], body |-> b].part = k[2] /\ [part |-> k[2], body |-> b].body = b
    OBVIOUS
  <1>g. (\E a \in held[q] : a.part = k[2] /\ a.record.body = b) \/ sending[q] = [part |-> k[2], body |-> b]
    BY DEF Attempt
  <1>1. CASE Same(q)
    BY <1>1 DEF Same, Attempt
  <1>2. CASE SyncSkip(q)
    BY <1>2 DEF SyncSkip, Attempt
  <1>3. CASE SyncSend(q)
    <2>1. sending[q] = None
      BY <1>3, <1>b DEF SyncSend, HasLock, Shape
    <2> QED BY <1>3, <1>e, <2>1 DEF SyncSend, Attempt
  <1>4. CASE SettlePosted(q) \/ SettleFailed(q)
    <2>1. CASE pc[q] = "post"
      <3>1. sending[q].part = k[2] /\ sending[q].body = b
        BY <1>c, <1>f, <1>g, <2>1
      <3>2. \E st \in {"failed", "succeeded"} : Commits(q, k, b, st)
        BY <1>4, <1>d, <2>1, <3>1, SettleCommits
      <3> QED BY <3>2 DEF Commits
    <2>2. CASE pc[q] = "finalize"
      <3>1. PICK st : Settle(q, st)
        BY <1>4 DEF SettlePosted, SettleFailed
      <3> DEFINE h == [part |-> sending[q].part, record |-> [status |-> st, body |-> sending[q].body]]
      <3>2. held'[q] = held[q] \cup {h} /\ on' = on
        BY <2>2, <3>1, <1>a DEF Settle, JobTypes
      <3>3. CASE sending[q] = [part |-> k[2], body |-> b]
        <4>1. h.part = k[2] /\ h.record.body = b
          BY <1>f, <3>3
        <4> QED BY <1>c, <3>2, <4>1 DEF Attempt
      <3>4. CASE \E a \in held[q] : a.part = k[2] /\ a.record.body = b
        BY <1>c, <3>2, <3>4 DEF Attempt
      <3> QED BY <1>g, <3>3, <3>4
    <2> QED BY <1>c, <2>1, <2>2
  <1>5. CASE FinalizeCommit(q)
    <2>1. sending[q] = None
      BY <1>5 DEF FinalizeCommit, Drained
    <2>2. PICK a \in held[q] : a.part = k[2] /\ a.record.body = b
      BY <1>e, <1>g, <2>1
    <2>3. a \in Held(q, k)
      BY <1>d, <2>2 DEF Held
    <2>4. PICK h \in Held(q, k) : Commits(q, k, h.record.body, h.record.status)
      BY <1>5, <2>3, FinalizeCommits
    <2>5. h \in held[q] /\ h.part = k[2]
      BY <2>4, <1>d DEF Held
    <2>6. h = a
      BY <2>2, <2>5 DEF Locking, OwnLocks
    <2> QED BY <2>2, <2>4, <2>6 DEF Commits
  <1>6. CASE SyncRefused(q) \/ Crash(q)
    <2>1. lost' = lost \cup Forgotten(q) /\ frozen' = frozen
      BY <1>6 DEF SyncRefused, Crash, records
    <2>2. k[2] \in Open(q)
      <3>1. CASE sending[q] = [part |-> k[2], body |-> b]
        BY <1>e, <1>f, <3>1 DEF Open
      <3>2. CASE \E a \in held[q] : a.part = k[2] /\ a.record.body = b
        BY <3>2 DEF Open
      <3> QED BY <1>g, <3>1, <3>2
    <2>3. frozen[k] \in {None, b}
      BY DEF InFlight
    <2> QED BY <1>c, <2>1, <2>2, <2>3 DEF Forgotten
  <1>7. ~SetDeposit(q) /\ ~AllocateRefused(q)
    BY <1>c DEF SetDeposit, AllocateRefused
  <1>8. ~AllocateConclude(q)
    BY <1>c, <1>e, <1>g DEF AllocateConclude, Drained
  <1>9. ASSUME Steps(q), ~SyncRefused(q), ~Crash(q), ~FinalizeCommit(q),
               ~SyncSkip(q), ~SyncSend(q), ~SettlePosted(q), ~SettleFailed(q)
        PROVE  Attempt(q, k, b)'
    <2>1. pc'[q] # "idle"
      <3>1. CASE Ask(q)
        BY <1>c, <3>1 DEF Ask, CreateReceipt, RecordPayment, FormLoad, FinalizeBegin
      <3>2. CASE Work(q)
        BY <1>9, <1>7, <1>8, <1>a, <1>c, <3>2
        DEF Work, FormSave, PlanCharge, PlanCommit, AllocateBegin, SyncStart, JobTypes, Goto, Begin
      <3> QED BY <1>9, <3>1, <3>2 DEF Steps
    <2>2. ~Finish(q)
      BY <2>1, <1>a DEF Finish, Begin, Goto, JobTypes
    <2>3. UNCHANGED <<sending, held>> /\ (on'[q] = on[q] \/ pc[q] = "idle")
      BY <1>9, <1>a, <2>2, CalmSteps
    <2> QED BY <1>c, <2>3 DEF Attempt
  <1> QED BY <1>1, <1>2, <1>3, <1>4, <1>5, <1>6, <1>9, WhoSteps

\* Only sending a component puts a request on the wire.
LEMMA WireMoves ==
  ASSUME TypeOK, JobShape, [Next]_vars
  PROVE  \/ wire' = wire
         \/ \E q \in Requests : SyncSend(q) /\ wire' = wire \cup {<<<<on[q], sync[q].part>>, Current(q)>>}
  <1> USE DEF outside
  <1>1. ASSUME NEW q \in Requests, Ask(q)
        PROVE  wire' = wire
    BY <1>1 DEF Ask, CreateReceipt, RecordPayment, FormLoad, FinalizeBegin, AllocateBegin
  <1>2. ASSUME NEW q \in Requests, Work(q), ~SyncSend(q)
        PROVE  wire' = wire
    BY <1>2 DEF Work, FormSave, SetDeposit, AllocateRefused, PlanCharge, PlanCommit, AllocateConclude, SyncRefused,
                AllocateBegin, SyncStart, SyncSkip, SettlePosted, SettleFailed, Settle, FinalizeCommit
  <1>3. ASSUME NEW q \in Requests, SyncSend(q)
        PROVE  wire' = wire \cup {<<<<on[q], sync[q].part>>, Current(q)>>}
    BY <1>3 DEF SyncSend
  <1>4. ASSUME NEW q \in Requests, Crash(q)
        PROVE  wire' = wire
    BY <1>4 DEF Crash
  <1>5. CASE LedgerBooks \/ Administer \/ UNCHANGED vars
    BY <1>5 DEF LedgerBooks, Administer, VoidReceipt, ApproveCharge, ArchiveCharge, ChangeMapping, vars
  <1> QED BY <1>1, <1>2, <1>3, <1>4, <1>5 DEF Next

\* Every step accounts for all requests ever sent.
LEMMA AccountStep ==
  ASSUME TypeOK, JobShape, Locking, OnFile, InFlight, Accounted, [Next]_vars
  PROVE  Accounted'
  <1> SUFFICES ASSUME NEW k \in Component, NEW b \in Bodies, <<k, b>> \in wire'
               PROVE  k \in lost' \/ frozen'[k] = b \/ \E q \in Requests : Attempt(q, k, b)'
    BY DEF Accounted
  <1>1. CASE <<k, b>> \in wire
    <2>1. CASE k \in lost
      BY <2>1, OutsideGrows
    <2>2. CASE frozen[k] = b
      <3>1. ASSUME NEW q \in Requests, NEW x \in Bodies, NEW st, Commits(q, k, x, st)
            PROVE  frozen'[k] = b
        BY <2>2, <3>1 DEF Commits, InFlight
      <3> QED BY <2>2, <3>1, FileMoves
    <2>3. CASE \E q \in Requests : Attempt(q, k, b)
      BY <2>3, AttemptEnds
    <2> QED BY <1>1, <2>1, <2>2, <2>3 DEF Accounted
  <1>2. CASE <<k, b>> \notin wire
    <2>1. PICK q \in Requests : SyncSend(q) /\ <<k, b>> = <<<<on[q], sync[q].part>>, Current(q)>>
      BY <1>2, WireMoves
    <2>2. k = <<on[q], sync[q].part>> /\ b = Current(q)
      BY <2>1
    <2>3. k[1] = on[q] /\ k[2] = sync[q].part
      BY <2>2
    <2>4. sending'[q] = [part |-> k[2], body |-> b] /\ on'[q] = k[1]
      BY <2>1, <2>2, <2>3 DEF SyncSend, TypeOK
    <2> QED BY <2>4 DEF Attempt
  <1> QED BY <1>1, <1>2
-----------------------------------------------------------------------------
\* The conjuncts of the invariant are kept together by every step.
LEMMA Inductive == ASSUME IInv, [Next]_vars PROVE IInv'
  <1>1. TypeOK /\ JobShape /\ Locking /\ OnFile /\ InFlight /\ Accounted
    BY DEF IInv, Aligned
  <1> QED BY <1>1, TypeStep, ShapeStep, LockStep, FileStep, FlightStep, AccountStep DEF IInv, Aligned

\* The invariant holds before the first request.
LEMMA Initially == ASSUME Init PROVE IInv
  <1>1. TypeOK
    BY DEF Init, TypeOK, NoPlan
  <1>2. JobShape
    BY DEF Init, JobShape, Shape
  <1>3. Locking
    BY DEF Init, Locking, OwnLocks, Exclusive
  <1>4. OnFile
    BY DEF Init, OnFile
  <1>5. InFlight
    <2>1. \A q \in Requests : on[q] = None /\ held[q] = {}
      BY DEF Init
    <2>2. \A k \in Component : k[1] # None
      BY DEF Component
    <2> QED BY <2>1, <2>2 DEF InFlight, Attempt
  <1>6. Accounted
    BY DEF Init, Accounted
  <1> QED BY <1>1, <1>2, <1>3, <1>4, <1>5, <1>6 DEF IInv, Aligned

\* In every reachable state the types hold, and requests in flight, locks, frozen
\* payloads and sync records agree: the invariant all other results are drawn from.
THEOREM Invariance == Spec => [](TypeOK /\ Aligned)
  <1>1. Init => IInv
    BY Initially
  <1>2. IInv /\ [Next]_vars => IInv'
    BY Inductive
  <1> QED BY <1>1, <1>2, PTL DEF Spec, IInv

\* However requests interleave, time out or die, every variable keeps its type, and
\* LedgerOS posts only what it was sent.
THEOREM TypeCorrect == Spec => []TypeOK
  <1> QED BY Invariance, PTL

\* The local record of a success is never ahead of LedgerOS.
THEOREM Confirmation == Spec => []ConfirmedIsBooked
  <1>1. TypeOK /\ Aligned => ConfirmedIsBooked
    BY DEF Aligned, OnFile, ConfirmedIsBooked, Succeeded
  <1> QED BY <1>1, Invariance, PTL

\* What was frozen is what the receipt allocates.
THEOREM FrozenAmounts == Spec => []FrozenMatchesShare
  <1>1. TypeOK /\ Aligned => FrozenMatchesShare
    BY DEF Aligned, OnFile, FrozenMatchesShare
  <1> QED BY <1>1, Invariance, PTL

\* One request does not attempt a component with two bodies.
LEMMA AttemptOnce ==
  ASSUME TypeOK, JobShape, NEW q \in Requests, OwnLocks(q), NEW k \in Component,
         NEW b \in Bodies, NEW x \in Bodies, Attempt(q, k, b), Attempt(q, k, x)
  PROVE  b = x
  <1>1. \A y \in Bodies : /\ [part |-> k[2], body |-> y] \in Requested
                          /\ [part |-> k[2], body |-> y].part = k[2]
                          /\ [part |-> k[2], body |-> y].body = y
    BY DEF Component, Requested
  <1>2. CASE sending[q] = [part |-> k[2], body |-> b]
    <2>1. sending[q] # None /\ sending[q].part = k[2] /\ sending[q].body = b
      BY <1>1, <1>2
    <2>2. \A a \in held[q] : a.part # k[2]
      BY <2>1 DEF OwnLocks
    <2> QED BY <1>1, <2>1, <2>2 DEF Attempt
  <1>3. CASE sending[q] = [part |-> k[2], body |-> x]
    <2>1. sending[q] # None /\ sending[q].part = k[2] /\ sending[q].body = x
      BY <1>1, <1>3
    <2>2. \A a \in held[q] : a.part # k[2]
      BY <2>1 DEF OwnLocks
    <2> QED BY <1>1, <2>1, <2>2 DEF Attempt
  <1>4. CASE \E a \in held[q], h \in held[q] : /\ a.part = k[2] /\ a.record.body = b
                                               /\ h.part = k[2] /\ h.record.body = x
    BY <1>4 DEF OwnLocks
  <1> QED BY <1>2, <1>3, <1>4 DEF Attempt

\* Without a rollback, a component is sent with one body only, so under one key.
THEOREM OneRequest == Spec => []SentOnceUnlessLost
  <1>1. ASSUME TypeOK, Aligned
        PROVE  SentOnceUnlessLost
    <2> USE <1>1 DEF Aligned
    <2>1. SUFFICES ASSUME NEW j \in wire, NEW i \in wire, j[1] = i[1], j[1] \notin lost
                   PROVE  j = i
      BY DEF SentOnceUnlessLost
    <2> DEFINE k == j[1]
               b == j[2]
               x == i[2]
    <2>2. k \in Component /\ b \in Bodies /\ x \in Bodies /\ j = <<k, b>> /\ i = <<k, x>>
      BY <2>1 DEF TypeOK
    <2>3. frozen[k] = b \/ \E q \in Requests : Attempt(q, k, b)
      BY <2>1, <2>2 DEF Accounted
    <2>4. frozen[k] = x \/ \E q \in Requests : Attempt(q, k, x)
      BY <2>1, <2>2 DEF Accounted
    <2> HIDE DEF k, b, x
    <2>5. b # None /\ x # None
      BY <2>2
    <2>6. CASE frozen[k] = b
      BY <2>2, <2>4, <2>5, <2>6 DEF InFlight
    <2>7. CASE frozen[k] = x
      BY <2>2, <2>3, <2>5, <2>7 DEF InFlight
    <2>8. ASSUME NEW q \in Requests, NEW o \in Requests, Attempt(q, k, b), Attempt(o, k, x)
          PROVE  b = x
      <3>1. q = o
        BY <2>2, <2>8, AttemptAlone
      <3> QED BY <2>2, <2>8, <3>1, AttemptOnce DEF Locking
    <2> QED BY <2>2, <2>3, <2>4, <2>6, <2>7, <2>8
  <1> QED BY <1>1, Invariance, PTL
-----------------------------------------------------------------------------
\* The refinement: sending, booking and committing map to the steps of the abstract
\* specification of the same name, everything else to a stutter.

\* Commits of the attempts on the components of cs, and nothing else.
LEMMA CommitRefines ==
  ASSUME TypeOK, TypeOK', InFlight, UNCHANGED <<wire, ledger>>, NEW cs \in SUBSET Component,
         \A k \in cs : \E q \in Requests, b \in Bodies, st \in {"failed", "succeeded"} : Commits(q, k, b, st),
         \A k \in Component \ cs : frozen'[k] = frozen[k] /\ record'[k] = record[k]
  PROVE  Posting!PostingNext
  <1> DEFINE choice == [k \in cs |-> frozen'[k]]
  <1>1. ASSUME NEW k \in cs
        PROVE  /\ frozen'[k] \in Bodies
               /\ frozen[k] \in {None, frozen'[k]} /\ <<k, frozen'[k]>> \in wire
               /\ Succeeded(k)' => <<k, frozen'[k]>> \in ledger
    <2>1. PICK q \in Requests, b \in Bodies, st \in {"failed", "succeeded"} : Commits(q, k, b, st)
      OBVIOUS
    <2>2. k \in Component /\ Attempt(q, k, b) /\ frozen'[k] = b /\ record'[k] = [status |-> st, body |-> b]
      BY <2>1 DEF Commits
    <2>3. frozen[k] \in {None, b} /\ <<k, b>> \in wire
      BY <2>2 DEF InFlight
    <2>4. record'[k].status = st
      BY <2>2
    <2>5. Succeeded(k)' => st = "succeeded"
      BY <2>4 DEF Succeeded
    <2> QED BY <2>1, <2>2, <2>3, <2>5 DEF Commits
  <1>2. /\ choice \in [cs -> Bodies]
        /\ \A k \in cs : frozen[k] \in {None, choice[k]} /\ <<k, choice[k]>> \in wire
    BY <1>1
  <1>3. frozen' = [k \in Component |-> IF k \in cs THEN choice[k] ELSE frozen[k]]
    BY DEF TypeOK
  <1>4. \A k \in Component \ cs : Succeeded(k)' <=> Succeeded(k)
    BY DEF Succeeded
  <1>5. {k \in Component : Succeeded(k)}' \subseteq
          {k \in Component : Succeeded(k)} \cup {k \in cs : <<k, frozen'[k]>> \in ledger}
    BY <1>1, <1>4
  <1>6. {k \in Component : Succeeded(k)} \ cs \subseteq {k \in Component : Succeeded(k)}'
    BY <1>4
  <1> HIDE DEF choice
  <1>7. Posting!Settle(cs)
    BY <1>2, <1>3, <1>5, <1>6 DEF Posting!Settle
  <1> QED BY <1>7 DEF Posting!PostingNext

\* Every step of the receipts is a step of idempotent posting, or a stutter.
LEMMA PostingStep == ASSUME IInv, [Next]_vars PROVE [Posting!PostingNext]_(Posting!postingVars)
  <1>a. TypeOK /\ JobShape /\ InFlight
    BY DEF IInv, Aligned
  <1>b. TypeOK'
    BY Inductive DEF IInv
  <1>1. ASSUME NEW q \in Requests, SyncSend(q)
        PROVE  Posting!PostingNext
    <2> DEFINE k == <<on[q], sync[q].part>>
    <2>1. sync[q] # None
      BY <1>1 DEF SyncSend, HasLock
    <2>2. k \in Component
      BY <1>a, <2>1, Sync1 DEF Snapshots, Component
    <2>3. Current(q) \in Bodies /\ frozen[k] \in {None, Current(q)}
      BY <1>a, <1>1, <2>2, SendAgrees
    <2>4. wire' = wire \cup {<<k, Current(q)>>} /\ UNCHANGED <<ledger, frozen, record>>
      BY <1>1 DEF SyncSend, records
    <2>5. {c \in Component : Succeeded(c)}' = {c \in Component : Succeeded(c)}
      BY <2>4 DEF Succeeded
    <2> HIDE DEF k
    <2> QED BY <2>2, <2>3, <2>4, <2>5 DEF Posting!PostingNext, Posting!Send
  <1>2. CASE LedgerBooks
    <2>1. PICK j \in wire : ledger' = ledger \cup {j}
      BY <1>2 DEF LedgerBooks
    <2>2. UNCHANGED <<wire, frozen, record>>
      BY <1>2 DEF LedgerBooks, records
    <2>3. {c \in Component : Succeeded(c)}' = {c \in Component : Succeeded(c)}
      BY <2>2 DEF Succeeded
    <2> QED BY <2>1, <2>2, <2>3 DEF Posting!PostingNext, Posting!Book
  <1>3. ASSUME NEW q \in Requests, SettlePosted(q) \/ SettleFailed(q), pc[q] = "post"
        PROVE  Posting!PostingNext
    <2> DEFINE c == <<on[q], sending[q].part>>
    <2>1. sending[q] # None /\ UNCHANGED <<wire, ledger>>
      BY <1>3 DEF SettlePosted, SettleFailed, Settle, outside
    <2>2. c \in Component /\ sending[q].body \in Bodies
      BY <1>a, <2>1, Sending1 DEF Requested
    <2>3. \A k \in Component \ {c} : frozen'[k] = frozen[k] /\ record'[k] = record[k]
      BY <1>a, <1>3, SettleCommits
    <2>4. \E b \in Bodies, st \in {"failed", "succeeded"} : Commits(q, c, b, st)
      BY <1>a, <1>3, <2>2, SettleCommits
    <2> HIDE DEF c
    <2> DEFINE cs == {c}
    <2>5. /\ cs \in SUBSET Component
          /\ \A k \in cs : \E o \in Requests, b \in Bodies, st \in {"failed", "succeeded"} : Commits(o, k, b, st)
          /\ \A k \in Component \ cs : frozen'[k] = frozen[k] /\ record'[k] = record[k]
      BY <2>2, <2>3, <2>4
    <2> HIDE DEF cs
    <2> QED BY <1>a, <1>b, <2>1, <2>5, CommitRefines
  <1>4. ASSUME NEW q \in Requests, FinalizeCommit(q)
        PROVE  Posting!PostingNext
    <2> DEFINE cs == {k \in Component : Held(q, k) # {}}
    <2>1. UNCHANGED <<wire, ledger>>
      BY <1>4 DEF FinalizeCommit, outside
    <2>2. \A k \in Component \ cs : frozen'[k] = frozen[k] /\ record'[k] = record[k]
      BY <1>4 DEF FinalizeCommit
    <2>3. ASSUME NEW k \in cs
          PROVE  \E b \in Bodies, st \in {"failed", "succeeded"} : Commits(q, k, b, st)
      <3>1. \A a \in Held(q, k) : a.record.body \in Bodies /\ a.record.status \in {"failed", "succeeded"}
        BY <1>a DEF Held, TypeOK, Attempts, Records
      <3> QED BY <1>a, <1>4, <3>1, FinalizeCommits
    <2> HIDE DEF cs
    <2>4. cs \in SUBSET Component
      BY DEF cs
    <2> QED BY <1>a, <1>b, <2>1, <2>2, <2>3, <2>4, CommitRefines
  <1>5. ASSUME UNCHANGED <<wire, ledger, frozen, record>>
        PROVE  UNCHANGED Posting!postingVars
    BY <1>5 DEF Posting!postingVars, Succeeded
  <1>6. ledger' = ledger \/ LedgerBooks
    <2> USE DEF outside
    <2>1. ASSUME NEW q \in Requests, Ask(q)
          PROVE  ledger' = ledger
      BY <2>1 DEF Ask, CreateReceipt, RecordPayment, FormLoad, FinalizeBegin, AllocateBegin
    <2>2. ASSUME NEW q \in Requests, Work(q)
          PROVE  ledger' = ledger
      BY <2>2 DEF Work, FormSave, SetDeposit, AllocateRefused, PlanCharge, PlanCommit, AllocateConclude,
                  SyncRefused, SyncSend, AllocateBegin, SyncStart, SyncSkip, SettlePosted, SettleFailed,
                  Settle, FinalizeCommit
    <2>3. ASSUME NEW q \in Requests, Crash(q)
          PROVE  ledger' = ledger
      BY <2>3 DEF Crash
    <2>4. CASE Administer \/ UNCHANGED vars
      BY <2>4 DEF Administer, VoidReceipt, ApproveCharge, ArchiveCharge, ChangeMapping, vars
    <2> QED BY <2>1, <2>2, <2>3, <2>4 DEF Next
  <1> QED BY <1>a, <1>1, <1>2, <1>3, <1>4, <1>5, <1>6, FileFrame, WireMoves

\* The receipts implement the abstract specification of idempotent posting: whatever
\* they send, settle and confirm, they keep its promises to LedgerOS.
THEOREM Implements == Spec => PostsIdempotently
  <1>1. Init => Posting!PostingInit
    BY DEF Init, Posting!PostingInit, Succeeded
  <1>2. TypeOK /\ Aligned /\ [Next]_vars => [Posting!PostingNext]_(Posting!postingVars)
    BY PostingStep DEF IInv
  <1> QED BY <1>1, <1>2, Invariance, PTL DEF Spec, PostsIdempotently, Posting!PostingSpec
-----------------------------------------------------------------------------
\* The amounts of a receipt's components add up, as sums over finitely many rows.
PartKeys(r) == {<<r, p>> : p \in Parts}

\* A receipt is split into finitely many parts.
LEMMA PartsFinite == ASSUME NEW r PROVE IsFiniteSet(PartKeys(r))
  <1>1. IsFiniteSet(Parts)
    BY FS_AddElement DEF Parts
  <1> DEFINE h == [p \in Parts |-> <<r, p>>]
  <1>2. ImageOf(h, Parts) = PartKeys(r)
    BY DEF ImageOf, PartKeys
  <1>3. IsFiniteSet(ImageOf(h, Parts))
    BY <1>1, FiniteImage
  <1> QED BY <1>2, <1>3

\* What a receipt has allocated and has left are numbers.
LEMMA RemainingType ==
  ASSUME TypeOK, NEW r \in Receipts
  PROVE  Allocated(r) \in Nat /\ (receipt[r] # None => Remaining(r) \in Int)
  <1>1. \A k \in PartKeys(r) : share[k] \in Nat
    BY DEF TypeOK, Component, PartKeys
  <1>2. IsFiniteSet(PartKeys(r))
    BY PartsFinite
  <1>3. Allocated(r) = SumFunctionOnSet(share, PartKeys(r))
    BY DEF Allocated, PartKeys
  <1>4. Allocated(r) \in Nat
    BY <1>1, <1>2, <1>3, SumType
  <1>5. receipt[r] # None => receipt[r].amount \in Int
    BY DEF TypeOK, Rows, Amounts
  <1> QED BY <1>4, <1>5 DEF Remaining

\* The amount of a receipt on file changes only when a form is saved.
LEMMA AmountStays ==
  ASSUME IInv, [Next]_vars, NEW r \in Receipts, receipt[r] # None
  PROVE  \/ receipt'[r].amount = receipt[r].amount
         \/ \E q \in Requests : FormSave(q) /\ on[q] = r
  <1> USE DEF Begin, Goto, IInv
  <1>a. receipt \in [Receipts -> Rows \cup {None}] BY DEF TypeOK
  <1>1. ASSUME NEW q \in Requests, NEW s \in Receipts, NEW d \in Dates, NEW a \in Amounts,
               CreateReceipt(q, s, d, a) \/ \E c \in Charges : RecordPayment(q, s, c, d, a)
        PROVE  receipt'[r] = receipt[r]
    BY <1>1, <1>a DEF CreateReceipt, RecordPayment
  <1>2. ASSUME NEW q \in Requests, NEW s \in Receipts,
               FormLoad(q, s) \/ FinalizeBegin(q, s) \/ AllocateBegin(q, s)
        PROVE  receipt' = receipt
    BY <1>2 DEF FormLoad, FinalizeBegin, AllocateBegin
  <1>3. ASSUME NEW q \in Requests, FormSave(q), on[q] # r
        PROVE  receipt'[r] = receipt[r]
    BY <1>3, <1>a DEF FormSave
  <1>4. ASSUME NEW q \in Requests, AllocateConclude(q) \/ FinalizeCommit(q)
        PROVE  receipt'[r].amount = receipt[r].amount
    <2>1. on[q] \in Receipts /\ receipt[on[q]] \in Rows /\ receipt[r] \in Rows
      BY <1>4, <1>a, Rows1 DEF AllocateConclude, FinalizeCommit, Aligned
    <2>2. CASE AllocateConclude(q)
      BY <2>2, <1>a, <2>1 DEF AllocateConclude, Rows
    <2>3. CASE FinalizeCommit(q)
      BY <2>3, <1>a, <2>1 DEF FinalizeCommit, Rows
    <2> QED BY <1>4, <2>2, <2>3
  <1>5. ASSUME NEW q \in Requests, Work(q), ~FormSave(q), ~AllocateConclude(q), ~FinalizeCommit(q)
        PROVE  receipt' = receipt
    BY <1>5 DEF Work, SetDeposit, AllocateRefused, PlanCharge, PlanCommit, AllocateBegin, SyncStart,
                SyncRefused, SyncSkip, SyncSend, SettlePosted, SettleFailed, Settle
  <1>6. ASSUME NEW q \in Requests, Crash(q)
        PROVE  receipt' = receipt
    BY <1>6 DEF Crash
  <1>7. ASSUME NEW s \in Receipts, VoidReceipt(s)
        PROVE  receipt'[r].amount = receipt[r].amount
    <2>1. receipt[s] \in Rows /\ receipt[r] \in Rows
      BY <1>7, <1>a DEF VoidReceipt
    <2> QED BY <1>7, <1>a, <2>1 DEF VoidReceipt, Rows
  <1>8. CASE LedgerBooks \/ UNCHANGED vars
    BY <1>8 DEF LedgerBooks, vars
  <1>9. CASE Administer
    BY <1>7, <1>9 DEF Administer, ApproveCharge, ArchiveCharge, ChangeMapping
  <1>10. ASSUME NEW q \in Requests, Ask(q)
         PROVE  receipt'[r].amount = receipt[r].amount
    BY <1>10, <1>1, <1>2 DEF Ask
  <1>11. ASSUME NEW q \in Requests, Work(q)
         PROVE  receipt'[r].amount = receipt[r].amount \/ (FormSave(q) /\ on[q] = r)
    BY <1>11, <1>3, <1>4, <1>5
  <1> QED BY <1>6, <1>8, <1>9, <1>10, <1>11 DEF Next

\* While an allocation or a finalization has locked a receipt, nobody else changes its amount
\* or what its components take.
LEMMA LockedStays ==
  ASSUME IInv, [Next]_vars, NEW o \in Requests, NEW r \in Receipts, on[o] = r,
         pc[o] \in {"plan", "finalize"}, ~PlanCommit(o)
  PROVE  /\ receipt[r] # None /\ receipt'[r].amount = receipt[r].amount
         /\ \A p \in Parts : share'[<<r, p>>] = share[<<r, p>>]
         /\ Remaining(r)' = Remaining(r) /\ PartsOf(r)' = PartsOf(r)
  <1> USE DEF IInv, Aligned
  <1>1. ReceiptLocked(r)
    BY DEF ReceiptLocked
  <1>2. receipt[r] # None
    BY DEF JobShape, Shape, TypeOK
  <1>3. receipt'[r].amount = receipt[r].amount
    BY <1>1, <1>2, AmountStays DEF FormSave
  <1>4. ASSUME NEW p \in Parts PROVE share'[<<r, p>>] = share[<<r, p>>]
    <2>1. <<r, p>> \in Component /\ <<r, p>>[1] = r
      BY DEF Component
    <2>2. ASSUME NEW q \in Requests, PlanCommit(q), on[q] = r PROVE FALSE
      <3>1. q # o
        BY <2>2
      <3>2. pc[q] = "plan"
        BY <2>2 DEF PlanCommit
      <3> QED BY <2>2, <3>1, <3>2 DEF Locking, Exclusive, TypeOK
    <2> QED BY <1>1, <2>1, <2>2, ShareMoves
  <1>5. \A k \in PartKeys(r) : share'[k] = share[k]
    BY <1>4 DEF PartKeys
  <1>6. /\ Allocated(r) = SumFunctionOnSet(share, PartKeys(r))
        /\ Allocated(r)' = SumFunctionOnSet(share', PartKeys(r))
    BY DEF Allocated, PartKeys
  <1>7. Allocated(r)' = Allocated(r)
    BY <1>5, <1>6, PartsFinite, SumSame
  <1>8. PartsOf(r)' = PartsOf(r)
    BY <1>4 DEF PartsOf
  <1> QED BY <1>2, <1>3, <1>4, <1>7, <1>8 DEF Remaining
-----------------------------------------------------------------------------
\* What allocation gives.

\* A plan that gives nothing adds up to nothing; any plan adds up to a number.
LEMMA PlannedType ==
  ASSUME TypeOK, NEW q \in Requests
  PROVE  Planned(q) \in Nat /\ (plan[q] = NoPlan => Planned(q) = 0)
  <1>1. \A c \in Charges : plan[q][c] \in Nat
    BY DEF TypeOK
  <1>2. Planned(q) \in Nat
    BY <1>1, SumType DEF Planned
  <1>3. ASSUME plan[q] = NoPlan PROVE Planned(q) = 0
    <2>1. \A c \in Charges : plan[q][c] = 0
      BY <1>3 DEF NoPlan
    <2> QED BY <2>1, SumZero DEF Planned
  <1> QED BY <1>2, <1>3

\* Giving a charge its amount adds at most that amount to the plan.
LEMMA PlannedGrows ==
  ASSUME TypeOK, NEW q \in Requests, NEW c \in Charges, NEW a \in Nat, plan' = [plan EXCEPT ![q][c] = a]
  PROVE  Planned(q)' <= Planned(q) + a
  <1> DEFINE f == plan[q]
             g == plan'[q]
             rest == Charges \ {c}
  <1>1. f \in [Charges -> 0..MaxAmount] /\ plan' = [plan EXCEPT ![q] = [plan[q] EXCEPT ![c] = a]]
    BY DEF TypeOK
  <1>2. g = [f EXCEPT ![c] = a]
    BY <1>1 DEF TypeOK
  <1>3. /\ \A d \in Charges : f[d] \in Nat /\ g[d] \in Nat
        /\ \A d \in rest : g[d] = f[d]
        /\ g[c] = a
    BY <1>1, <1>2
  <1>4. IsFiniteSet(rest) /\ rest \subseteq Charges
    BY FS_RemoveElement
  <1>5. Planned(q) = SumFunctionOnSet(f, Charges) /\ Planned(q)' = SumFunctionOnSet(g, Charges)
    BY DEF Planned
  <1> HIDE DEF f, g
  <1>6. /\ SumFunctionOnSet(f, Charges) = f[c] + SumFunctionOnSet(f, rest)
        /\ SumFunctionOnSet(g, Charges) = g[c] + SumFunctionOnSet(g, rest)
    <2>1. IsFiniteSet(Charges)
      OBVIOUS
    <2>2. \A d \in Charges : f[d] \in Int
      BY <1>3
    <2>3. \A d \in Charges : g[d] \in Int
      BY <1>3
    <2>4. Split(f, Charges, c)
      BY <2>1, <2>2, SumSplit, Zenon
    <2>5. Split(g, Charges, c)
      BY <2>1, <2>3, SumSplit, Zenon
    <2> QED BY <2>4, <2>5, Zenon DEF Split
  <1> HIDE DEF rest
  <1>7. SumFunctionOnSet(g, rest) = SumFunctionOnSet(f, rest)
    BY <1>3, <1>4, SumSame
  <1>8. SumFunctionOnSet(f, rest) \in Nat /\ f[c] \in Nat
    BY <1>3, <1>4, SumType
  <1> QED BY <1>3, <1>5, <1>6, <1>7, <1>8

\* What is applied to a charge is a number.
LEMMA AppliedType ==
  ASSUME TypeOK, NEW c \in Charges
  PROVE  Applied(c) \in Nat
  <1> DEFINE h == [r \in Receipts |-> <<r, c>>]
             K == {<<r, c>> : r \in Receipts}
  <1>1. ImageOf(h, Receipts) = K
    BY DEF ImageOf
  <1>2. IsFiniteSet(ImageOf(h, Receipts))
    BY FiniteImage
  <1>3. \A k \in K : share[k] \in Nat
    BY DEF TypeOK, Component, Parts
  <1>4. Applied(c) = SumFunctionOnSet(share, K)
    BY DEF Applied
  <1> HIDE DEF K
  <1> QED BY <1>1, <1>2, <1>3, <1>4, SumType

\* A request is in its plan because it planned already, or began with nothing planned.
LEMMA PlanOwn ==
  ASSUME TypeOK, JobShape, NEW q \in Requests, Steps(q), pc'[q] = "plan"
  PROVE  \/ PlanCharge(q)
         \/ plan'[q] = NoPlan
  <1>a. JobTypes BY DEF TypeOK, JobTypes
  <1> USE DEF JobTypes, Begin, Goto, planVars, syncVars
  <1>1. CASE Finish(q)
    BY <1>1, <1>a, Answered
  <1>2. CASE Ask(q)
    <2>1. ASSUME NEW r \in Receipts, NEW d \in Dates, NEW a \in Amounts, CreateReceipt(q, r, d, a)
          PROVE  FALSE
      BY <2>1, <1>a DEF CreateReceipt
    <2>2. ASSUME NEW r \in Receipts, NEW c \in Charges, NEW d \in Dates, NEW a \in Amounts,
                 RecordPayment(q, r, c, d, a)
          PROVE  FALSE
      BY <2>2, <1>a DEF RecordPayment
    <2>3. ASSUME NEW r \in Receipts, FormLoad(q, r) \/ FinalizeBegin(q, r)
          PROVE  FALSE
      BY <2>3, <1>a DEF FormLoad, FinalizeBegin
    <2>4. ASSUME NEW r \in Receipts, pc[q] = "idle", AllocateBegin(q, r)
          PROVE  plan'[q] = NoPlan
      BY <2>4 DEF AllocateBegin, JobShape, Shape
    <2> QED BY <1>2, <2>1, <2>2, <2>3, <2>4 DEF Ask
  <1>3. CASE Work(q) /\ ~Finish(q)
    <2>1. CASE FormSave(q) \/ PlanCommit(q)
      BY <2>1, <1>a DEF FormSave, PlanCommit
    <2>2. CASE pc[q] = "recorded" /\ AllocateBegin(q, on[q])
      BY <2>2 DEF AllocateBegin, JobShape, Shape
    <2>3. CASE \E p \in Parts : SyncStart(q, p)
      BY <2>3 DEF SyncStart
    <2>4. CASE SyncSkip(q) \/ SyncSend(q)
      BY <2>4 DEF SyncSkip, SyncSend, HasLock, JobShape, Shape
    <2>5. CASE SettlePosted(q) \/ SettleFailed(q)
      BY <2>5 DEF SettlePosted, SettleFailed, Settle
    <2> QED
      BY <1>3, <2>1, <2>2, <2>3, <2>4, <2>5
      DEF Work, SetDeposit, AllocateRefused, AllocateConclude, SyncRefused, FinalizeCommit
  <1>4. CASE Crash(q)
    BY <1>1, <1>4 DEF Crash
  <1> QED BY <1>1, <1>2, <1>3, <1>4 DEF Steps

\* Every step keeps plans within what their receipts have left.
LEMMA PlanStep == ASSUME IInv, PlanCovered, [Next]_vars PROVE PlanCovered'
  <1>a. TypeOK /\ JobShape
    BY DEF IInv, Aligned
  <1>b. TypeOK'
    BY Inductive DEF IInv
  <1> SUFFICES ASSUME NEW q \in Requests, pc'[q] = "plan"
               PROVE  Planned(q)' = 0 \/ Planned(q)' <= Remaining(on[q])'
    BY DEF PlanCovered
  <1>1. CASE Same(q)
    <2>0. PICK r \in Receipts : r = on[q]
      <3>1. pc[q] # "idle"
        BY <1>1 DEF Same
      <3> QED BY <3>1, <1>a, Rows1
    <2>1. pc[q] = "plan" /\ on[q] = r /\ on'[q] = r /\ ~PlanCommit(q)
      <3>1. pc[q] = "plan" /\ on'[q] = on[q]
        BY <1>1 DEF Same
      <3>2. ~PlanCommit(q)
        BY <3>1, <1>a DEF PlanCommit, Goto, TypeOK
      <3> QED BY <3>1, <3>2, <2>0
    <2>2. Planned(q)' = Planned(q)
      BY <1>1 DEF Same, Planned
    <2>3. Planned(q) = 0 \/ Planned(q) <= Remaining(r)
      BY <2>1 DEF PlanCovered
    <2>4. Remaining(on[q])' = Remaining(r)'
      BY <2>1 DEF Remaining, Allocated
    <2>5. Remaining(r)' = Remaining(r)
      BY <2>1, LockedStays
    <2> QED BY <2>2, <2>3, <2>4, <2>5
  <1>2. CASE PlanCharge(q)
    <2> DEFINE r == on[q]
    <2>1. pc[q] = "plan" /\ on'[q] = r /\ r \in Receipts /\ UNCHANGED <<receipt, share>>
      BY <1>2, <1>a, Rows1 DEF PlanCharge
    <2>2. Remaining(on[q])' = Remaining(r)
      BY <2>1 DEF Remaining, Allocated
    <2>3. Planned(q) = 0 \/ Planned(q) <= Remaining(r)
      BY <2>1 DEF PlanCovered
    <2>4. Planned(q) \in Nat /\ Planned(q)' \in Nat
      <3>1. \A c \in Charges : plan'[q][c] \in Nat
        BY <1>b DEF TypeOK
      <3>2. Planned(q)' \in Nat
        BY <3>1, SumType DEF Planned
      <3> QED BY <1>a, <3>2, PlannedType
    <2>5. Remaining(r) \in Int
      BY <1>a, <2>1, RemainingType, Rows1
    <2>6. ASSUME NEW c \in todo[q], NEW a \in Amounts, a = Offer(q, c), plan' = [plan EXCEPT ![q][c] = a]
          PROVE  Planned(q)' <= Remaining(r)
      <3>1. c \in Charges /\ a \in Nat /\ a > 0
        <4>1. c \in Parts /\ Deposit \notin todo[q]
          BY <1>a, <2>1 DEF TypeOK, JobShape, Shape
        <4> QED BY <2>6, <4>1 DEF Parts, Amounts
      <3>2. a <= Remaining(r) - Planned(q)
        <4>1. Applied(c) \in Nat /\ ChargeAmount[c] \in Nat
          BY <1>a, <3>1, AppliedType
        <4> QED BY <2>4, <2>5, <2>6, <4>1 DEF Offer, Least
      <3>3. Planned(q)' <= Planned(q) + a
        BY <1>a, <2>6, <3>1, PlannedGrows
      <3> QED BY <2>4, <2>5, <3>1, <3>2, <3>3
    <2>7. ASSUME plan' = plan PROVE Planned(q)' = Planned(q)
      BY <2>7 DEF Planned
    <2>8. plan' = plan \/ \E c \in todo[q], a \in Amounts : a = Offer(q, c) /\ plan' = [plan EXCEPT ![q][c] = a]
      BY <1>2 DEF PlanCharge
    <2> HIDE DEF r
    <2> QED BY <2>2, <2>3, <2>6, <2>7, <2>8
  <1>3. CASE plan'[q] = NoPlan
    <2>1. Planned(q)' = 0
      <3>1. \A c \in Charges : plan'[q][c] = 0
        BY <1>3 DEF NoPlan
      <3> QED BY <3>1, SumZero DEF Planned
    <2> QED BY <2>1
  <1> QED BY <1>a, <1>1, <1>2, <1>3, WhoSteps, PlanOwn

\* A committed plan adds to what the receipt has allocated exactly what it planned, and
\* leaves every other amount alone.
LEMMA PlanAdds ==
  ASSUME IInv, NEW q \in Requests, PlanCommit(q), NEW r \in Receipts, r = on[q]
  PROVE  /\ Allocated(r)' = Allocated(r) + Planned(q)
         /\ \A k \in Component :
              (k[1] # r \/ k[2] \notin Charges \/ plan[q][k[2]] = 0) => share'[k] = share[k]
         /\ \A c \in Charges : plan[q][c] > 0 => share[<<r, c>>] = 0
  <1> DEFINE part == [p \in Parts |-> <<r, p>>]
             given == [p \in Parts |-> IF p \in Charges THEN plan[q][p] ELSE 0]
             old == [p \in Parts |-> share[<<r, p>>]]
             new == [p \in Parts |-> share'[<<r, p>>]]
  <1>a. TypeOK /\ JobShape
    BY DEF IInv, Aligned
  <1>1. share \in [Component -> 0..MaxAmount] /\ plan[q] \in [Charges -> 0..MaxAmount]
    BY <1>a DEF TypeOK
  <1>2. \A c \in Charges : plan[q][c] > 0 => share[<<r, c>>] = 0
    BY <1>a DEF PlanCommit, JobShape, Shape
  <1>3. share' = [k \in Component |-> IF k[1] = r /\ k[2] \in Charges /\ plan[q][k[2]] > 0
                                      THEN plan[q][k[2]] ELSE share[k]]
    BY DEF PlanCommit
  <1>4. \A p \in Parts : /\ old[p] \in Int /\ given[p] \in Int /\ new[p] \in Int
                         /\ new[p] = old[p] + given[p]
    BY <1>1, <1>2, <1>3 DEF Component
  <1>5. \A k \in Component :
          (k[1] # r \/ k[2] \notin Charges \/ plan[q][k[2]] = 0) => share'[k] = share[k]
    BY <1>1, <1>3
  <1>6. /\ ImageOf(part, Parts) = PartKeys(r)
        /\ \A p \in Parts : share[part[p]] = old[p] /\ share'[part[p]] = new[p]
        /\ \A p \in Parts, o \in Parts : part[p] = part[o] => p = o
    BY DEF ImageOf, PartKeys
  <1>7. \A c \in Charges : given[c] = plan[q][c] /\ given[c] \in Int
    BY <1>1 DEF Parts
  <1>8. given[Deposit] = 0 /\ Charges \ {Deposit} = Charges /\ Parts \ {Deposit} = Charges /\ Deposit \in Parts
    BY DEF Parts
  <1>9. IsFiniteSet(Charges) /\ IsFiniteSet(Parts)
    BY FS_AddElement DEF Parts
  <1> HIDE DEF part, given, old, new
  <1>10. SumFunctionOnSet(share, PartKeys(r)) = SumFunctionOnSet(old, Parts)
    BY <1>4, <1>6, <1>9, SumRenamed
  <1>11. SumFunctionOnSet(share', PartKeys(r)) = SumFunctionOnSet(new, Parts)
    BY <1>4, <1>6, <1>9, SumRenamed
  <1>12. SumFunctionOnSet(new, Parts) = SumFunctionOnSet(old, Parts) + SumFunctionOnSet(given, Parts)
    BY <1>4, <1>9, SumPlus
  <1>13. SumFunctionOnSet(given, Parts) = given[Deposit] + SumFunctionOnSet(given, Charges)
    <2>1. \A p \in Parts : given[p] \in Int
      BY <1>4
    <2>2. Split(given, Parts, Deposit)
      BY <1>8, <1>9, <2>1, SumSplit, Zenon
    <2> QED BY <1>8, <2>2 DEF Split
  <1>14. SumFunctionOnSet(given, Charges) = Planned(q)
    BY <1>7, <1>9, SumSame DEF Planned
  <1>15. Planned(q) \in Nat
    BY <1>a, PlannedType
  <1>16. /\ Allocated(r) = SumFunctionOnSet(share, PartKeys(r))
         /\ Allocated(r)' = SumFunctionOnSet(share', PartKeys(r))
    BY DEF Allocated, PartKeys
  <1>17. Allocated(r)' = Allocated(r) + Planned(q)
    BY <1>8, <1>10, <1>11, <1>12, <1>13, <1>14, <1>15, <1>16
  <1> QED BY <1>2, <1>5, <1>17
-----------------------------------------------------------------------------
\* What finalization confirms.

\* A request that was ever frozen for a component is never replaced by another one.
LEMMA FrozenStays ==
  ASSUME IInv, [Next]_vars, NEW k \in Component, frozen[k] # None
  PROVE  frozen'[k] = frozen[k]
  <1> USE DEF IInv, Aligned
  <1>1. ASSUME NEW q \in Requests, NEW b \in Bodies, NEW st \in {"failed", "succeeded"}, Commits(q, k, b, st)
        PROVE  frozen'[k] = frozen[k]
    <2>1. Attempt(q, k, b) /\ frozen'[k] = b
      BY <1>1 DEF Commits
    <2>2. frozen[k] \in {None, b}
      BY <2>1 DEF InFlight
    <2> QED BY <2>1, <2>2
  <1> QED BY <1>1, FileMoves

\* A request finalizes because it just began, or because it syncs the receipt's components.
LEMMA FinalizeOwn ==
  ASSUME TypeOK, JobShape, NEW q \in Requests, Steps(q), pc'[q] = "finalize"
  PROVE  \/ \E r \in Receipts : FinalizeBegin(q, r)
         \/ /\ pc[q] = "finalize" /\ on' = on
            /\ \/ \E p \in Parts : SyncStart(q, p)
               \/ SyncSkip(q) \/ SyncSend(q) \/ SettlePosted(q) \/ SettleFailed(q)
  <1>a. JobTypes BY DEF TypeOK, JobTypes
  <1> USE DEF JobTypes, Begin, Goto, planVars, syncVars
  <1>1. CASE Finish(q)
    BY <1>1, <1>a, Answered
  <1>2. CASE Ask(q)
    <2>1. ASSUME NEW r \in Receipts, NEW d \in Dates, NEW a \in Amounts,
                 CreateReceipt(q, r, d, a) \/ \E c \in Charges : RecordPayment(q, r, c, d, a)
          PROVE  FALSE
      BY <2>1, <1>a DEF CreateReceipt, RecordPayment
    <2>2. ASSUME NEW r \in Receipts, FormLoad(q, r) \/ AllocateBegin(q, r)
          PROVE  FALSE
      BY <2>2, <1>a DEF FormLoad, AllocateBegin
    <2> QED BY <1>2, <2>1, <2>2 DEF Ask
  <1>3. CASE Work(q) /\ ~Finish(q)
    <2>1. CASE FormSave(q) \/ PlanCommit(q) \/ AllocateBegin(q, on[q])
      BY <2>1, <1>a DEF FormSave, PlanCommit, AllocateBegin
    <2>2. CASE PlanCharge(q)
      BY <2>2 DEF PlanCharge
    <2>3. CASE \E p \in Parts : SyncStart(q, p)
      BY <2>3 DEF SyncStart
    <2>4. CASE SyncSkip(q) \/ SyncSend(q)
      BY <2>4 DEF SyncSkip, SyncSend
    <2>5. CASE SettlePosted(q) \/ SettleFailed(q)
      BY <2>5 DEF SettlePosted, SettleFailed, Settle
    <2> QED
      BY <1>3, <2>1, <2>2, <2>3, <2>4, <2>5
      DEF Work, SetDeposit, AllocateRefused, AllocateConclude, SyncRefused, FinalizeCommit
  <1>4. CASE Crash(q)
    BY <1>1, <1>4 DEF Crash
  <1> QED BY <1>1, <1>2, <1>3, <1>4 DEF Steps

\* A request waits for a component's lock because it waited already, or just read the rows.
LEMMA SyncOwn ==
  ASSUME TypeOK, JobShape, NEW q \in Requests, Steps(q), sync'[q] # None
  PROVE  \/ sync'[q] = sync[q] /\ on'[q] = on[q]
         \/ \E p \in Parts : SyncStart(q, p)
  <1>a. JobTypes BY DEF TypeOK, JobTypes
  <1> USE DEF JobTypes, Begin, Goto, planVars, syncVars
  <1>1. CASE Finish(q)
    BY <1>1, <1>a DEF Finish
  <1>2. CASE Ask(q)
    <2>1. sync' = sync /\ pc[q] = "idle"
      <3>1. ASSUME NEW r \in Receipts, NEW d \in Dates, NEW a \in Amounts,
                   CreateReceipt(q, r, d, a) \/ \E c \in Charges : RecordPayment(q, r, c, d, a)
            PROVE  sync' = sync /\ pc[q] = "idle"
        BY <3>1 DEF CreateReceipt, RecordPayment
      <3>2. ASSUME NEW r \in Receipts,
                   FormLoad(q, r) \/ FinalizeBegin(q, r) \/ (pc[q] = "idle" /\ AllocateBegin(q, r))
            PROVE  sync' = sync /\ pc[q] = "idle"
        BY <3>2 DEF FormLoad, FinalizeBegin, AllocateBegin
      <3> QED BY <1>2, <3>1, <3>2 DEF Ask
    <2>2. sync[q] = None
      BY <2>1 DEF JobShape, Shape
    <2> QED BY <2>1, <2>2
  <1>3. CASE Work(q) /\ ~Finish(q)
    <2>1. CASE FormSave(q) \/ PlanCommit(q) \/ PlanCharge(q)
      BY <2>1 DEF FormSave, PlanCommit, PlanCharge
    <2>2. CASE pc[q] = "recorded" /\ AllocateBegin(q, on[q])
      BY <2>2, <1>a DEF AllocateBegin, JobShape, Shape
    <2>3. CASE SyncSkip(q) \/ SyncSend(q)
      BY <2>3, <1>a DEF SyncSkip, SyncSend
    <2>4. CASE SettlePosted(q) \/ SettleFailed(q)
      BY <2>4 DEF SettlePosted, SettleFailed, Settle
    <2> QED
      BY <1>3, <2>1, <2>2, <2>3, <2>4
      DEF Work, SetDeposit, AllocateRefused, AllocateConclude, SyncRefused, FinalizeCommit
  <1>4. CASE Crash(q)
    BY <1>1, <1>4 DEF Crash
  <1> QED BY <1>1, <1>2, <1>3, <1>4 DEF Steps

\* Every step keeps the rows that requests have read true to what LedgerOS posted.
LEMMA SnapshotStep == ASSUME IInv, SnapshotsTrue, [Next]_vars PROVE SnapshotsTrue'
  <1> USE DEF IInv, Aligned
  <1> SUFFICES ASSUME NEW q \in Requests, sync'[q] # None, sync'[q].record # None
               PROVE  /\ frozen'[<<on'[q], sync'[q].part>>] # None
                      /\ sync'[q].record.status = "succeeded"
                           => <<<<on'[q], sync'[q].part>>, sync'[q].record.body>> \in ledger'
    BY DEF SnapshotsTrue
  <1>1. CASE sync'[q] = sync[q] /\ on'[q] = on[q]
    <2> DEFINE k == <<on[q], sync[q].part>>
    <2>1. k \in Component
      BY <1>1, Sync1 DEF Component, Snapshots
    <2>2. /\ frozen[k] # None
          /\ sync[q].record.status = "succeeded" => <<k, sync[q].record.body>> \in ledger
      BY <1>1 DEF SnapshotsTrue
    <2>3. frozen'[k] = frozen[k]
      BY <2>1, <2>2, FrozenStays
    <2> HIDE DEF k
    <2>4. frozen'[k] # None /\ (sync[q].record.status = "succeeded" => <<k, sync[q].record.body>> \in ledger')
      BY <2>2, <2>3, OutsideGrows
    <2> QED BY <1>1, <2>4 DEF k
  <1>2. ASSUME NEW p \in Parts, SyncStart(q, p)
        PROVE  /\ frozen'[<<on'[q], sync'[q].part>>] # None
               /\ sync'[q].record.status = "succeeded"
                    => <<<<on'[q], sync'[q].part>>, sync'[q].record.body>> \in ledger'
    <2>1. PICK r \in Receipts : r = on[q]
      BY <1>2, Rows1 DEF SyncStart
    <2> DEFINE k == <<r, p>>
    <2>2. k \in Component
      BY <2>1 DEF Component
    <2>3. on' = on /\ UNCHANGED <<frozen, record, ledger>>
      BY <1>2 DEF SyncStart, records, outside
    <2>4. sync'[q].part = p /\ sync'[q].record = record[k]
      BY <1>2, <2>1 DEF SyncStart, TypeOK
    <2>5. /\ frozen[k] # None /\ record[k].body = frozen[k]
          /\ record[k].status = "succeeded" => <<k, frozen[k]>> \in ledger
      BY <2>2, <2>4 DEF OnFile
    <2> HIDE DEF k
    <2> QED BY <2>1, <2>3, <2>4, <2>5 DEF k
  <1>3. CASE Same(q)
    BY <1>1, <1>3 DEF Same
  <1>4. CASE Steps(q)
    BY <1>1, <1>2, <1>4, SyncOwn
  <1> QED BY <1>3, <1>4, WhoSteps

\* A component that a finalization skips is posted as it is frozen.
LEMMA SkippedIsPosted ==
  ASSUME IInv, SnapshotsTrue, NEW q \in Requests, SyncSkip(q), NEW k, k = <<on[q], sync[q].part>>
  PROVE  frozen[k] # None /\ <<k, frozen[k]>> \in ledger
  <1>1. /\ sync[q] # None /\ sync[q].record # None /\ sync[q].record.status = "succeeded"
        /\ ~Changed(q)
    BY DEF SyncSkip, HasLock, Refused, Confirmed
  <1>2. frozen[k] # None /\ <<k, sync[q].record.body>> \in ledger
    BY <1>1 DEF SnapshotsTrue
  <1>3. frozen[k] = Current(q) /\ sync[q].record.body = Current(q)
    BY <1>1, <1>2 DEF Changed
  <1> QED BY <1>2, <1>3

\* What a finalization covers stays covered, whoever steps.
LEMMA CoversStep ==
  ASSUME IInv, SnapshotsTrue, [Next]_vars, NEW q \in Requests, NEW p \in Parts,
         pc[q] = "finalize", pc'[q] = "finalize", Covers(q, p)
  PROVE  Covers(q, p)'
  <1> USE DEF IInv, Aligned
  <1>a. JobTypes /\ JobShape BY DEF TypeOK, JobTypes
  <1>b. Shape(q) BY DEF JobShape
  <1>1. PICK r \in Receipts : r = on[q]
    BY Rows1
  <1> DEFINE k == <<r, p>>
             posted == frozen[k] # None /\ <<k, frozen[k]>> \in ledger
             posted2 == frozen'[k] # None /\ <<k, frozen'[k]>> \in ledger'
  <1>2. k \in Component
    BY DEF Component
  <1>3. posted => posted2
    BY <1>2, FrozenStays, OutsideGrows
  <1>4. /\ on'[q] = r
        /\ \/ Same(q)
           \/ \E o \in Parts : SyncStart(q, o)
           \/ SyncSkip(q) \/ SyncSend(q) \/ SettlePosted(q) \/ SettleFailed(q)
    <2>1. CASE Same(q)
      BY <1>1, <2>1 DEF Same
    <2>2. CASE Steps(q)
      <3>1. ASSUME NEW s \in Receipts PROVE ~FinalizeBegin(q, s)
        BY DEF FinalizeBegin
      <3> QED BY <1>1, <2>2, <3>1, FinalizeOwn
    <2> QED BY <2>1, <2>2, WhoSteps
  <1>5. Covers(q, p) <=> \/ p \in todo[q]
                         \/ sync[q] # None /\ sync[q].part = p
                         \/ sending[q] # None /\ sending[q].part = p
                         \/ \E a \in held[q] : a.part = p
                         \/ posted
    BY <1>1 DEF Covers
  <1>6. Covers(q, p)' <=> \/ p \in todo'[q]
                          \/ sync'[q] # None /\ sync'[q].part = p
                          \/ sending'[q] # None /\ sending'[q].part = p
                          \/ \E a \in held'[q] : a.part = p
                          \/ posted2
    BY <1>4 DEF Covers
  <1>7. CASE Same(q)
    <2> HIDE DEF posted, posted2
    <2> QED BY <1>3, <1>5, <1>6, <1>7 DEF Same
  <1>8. ASSUME NEW o \in Parts, SyncStart(q, o)
        PROVE  Covers(q, p)'
    <2>1. /\ todo'[q] = todo[q] \ {o} /\ sending' = sending /\ held' = held
          /\ sync[q] = None /\ sync'[q].part = o /\ sync'[q] \in Snapshots
      <3>1. UNCHANGED <<sending, held>> /\ sync[q] = None /\ todo'[q] = todo[q] \ {o}
        BY <1>8, <1>a DEF SyncStart, JobTypes
      <3>2. sync'[q].part = o
        BY <1>8, <1>a DEF SyncStart, JobTypes
      <3>3. sync'[q] # None
        <4>1. TypeOK'
          BY Inductive
        <4>2. receipt[r] \in Rows /\ ready[o] \in BOOLEAN /\ record[<<r, o>>] \in Records \cup {None}
          BY <1>1, <1>a, Rows1 DEF TypeOK, Component
        <4>3. sync'[q] = [part |-> o, row |-> receipt[r], ready |-> ready[o], record |-> record[<<r, o>>]]
          BY <1>1, <1>8, <1>a DEF SyncStart, JobTypes
        <4>4. sync'[q] \in Snapshots
          BY <4>2, <4>3 DEF Snapshots
        <4> QED BY <4>4
      <3>4. sync'[q] \in Snapshots \cup {None}
        BY Inductive DEF TypeOK
      <3> QED BY <3>1, <3>2, <3>3, <3>4
    <2>2. sync'[q] # None
      BY <2>1
    <2> HIDE DEF posted, posted2
    <2> QED BY <1>3, <1>5, <1>6, <2>1, <2>2
  <1>9. CASE SyncSkip(q)
    <2>1. /\ todo' = todo /\ sending' = sending /\ held' = held
          /\ UNCHANGED <<frozen, ledger>>
      BY <1>9 DEF SyncSkip, records, outside
    <2>2. sync[q].part = p => posted
      BY <1>1, <1>9, SkippedIsPosted
    <2> HIDE DEF posted, posted2
    <2> QED BY <1>3, <1>5, <1>6, <2>1, <2>2
  <1>10. CASE SyncSend(q)
    <2>1. /\ todo' = todo /\ held' = held /\ sync[q] # None
          /\ sending'[q] = [part |-> sync[q].part, body |-> Current(q)]
      BY <1>10, <1>a DEF SyncSend, JobTypes, HasLock
    <2>2. sending'[q].part = sync[q].part
      BY <2>1
    <2>3. sending'[q] # None
      <3>1. sync[q].part \in Parts /\ Current(q) \in Bodies
        BY <2>1, Sync1, Current1 DEF Snapshots
      <3>2. sending'[q] \in Requested
        BY <2>1, <3>1 DEF Requested
      <3> QED BY <3>2
    <2>4. sending[q] = None
      BY <2>1, <1>b DEF Shape
    <2> HIDE DEF posted, posted2
    <2> QED BY <1>3, <1>5, <1>6, <2>1, <2>2, <2>3, <2>4
  <1>11. CASE SettlePosted(q) \/ SettleFailed(q)
    <2>1. PICK st \in {"failed", "succeeded"} : Settle(q, st)
      BY <1>11 DEF SettlePosted, SettleFailed
    <2> DEFINE a == [part |-> sending[q].part, record |-> [status |-> st, body |-> sending[q].body]]
    <2>2. todo' = todo /\ sync' = sync
      BY <2>1 DEF Settle
    <2>3. held'[q] = held[q] \cup {a}
      BY <2>1, <1>a DEF Settle, JobTypes
    <2>4. a.part = sending[q].part
      OBVIOUS
    <2> HIDE DEF posted, posted2, a
    <2> QED BY <1>3, <1>5, <1>6, <2>2, <2>3, <2>4
  <1> HIDE DEF posted, posted2
  <1> QED BY <1>4, <1>7, <1>8, <1>9, <1>10, <1>11

\* Every step keeps each finalization on a receipt that is fully allocated, with all its
\* parts covered.
LEMMA FinalizeStep == ASSUME IInv, SnapshotsTrue, FinalizesAll, [Next]_vars PROVE FinalizesAll'
  <1> USE DEF IInv, Aligned
  <1> SUFFICES ASSUME NEW q \in Requests, pc'[q] = "finalize"
               PROVE  Remaining(on[q])' = 0 /\ \A p \in PartsOf(on[q])' : Covers(q, p)'
    BY DEF FinalizesAll
  <1>1. CASE pc[q] = "finalize" /\ on'[q] = on[q]
    <2>1. PICK r \in Receipts : r = on[q]
      BY <1>1, Rows1
    <2>2. ~PlanCommit(q)
      BY <1>1 DEF PlanCommit
    <2>3. Remaining(r)' = Remaining(r) /\ PartsOf(r)' = PartsOf(r)
      BY <1>1, <2>1, <2>2, LockedStays
    <2>4. Remaining(r) = 0 /\ \A p \in PartsOf(r) : Covers(q, p)
      BY <1>1, <2>1 DEF FinalizesAll
    <2>5. PartsOf(r) \subseteq Parts
      BY DEF PartsOf
    <2>6. \A p \in PartsOf(r) : Covers(q, p)'
      BY <1>1, <2>4, <2>5, CoversStep
    <2>7. Remaining(on[q])' = Remaining(r)' /\ PartsOf(on[q])' = PartsOf(r)'
      BY <1>1, <2>1 DEF Remaining, Allocated, PartsOf
    <2> QED BY <2>3, <2>4, <2>6, <2>7
  <1>2. ASSUME NEW r \in Receipts, FinalizeBegin(q, r)
        PROVE  Remaining(on[q])' = 0 /\ \A p \in PartsOf(on[q])' : Covers(q, p)'
    <2>1. on'[q] = r /\ todo'[q] = PartsOf(r) /\ UNCHANGED <<receipt, share>> /\ Remaining(r) = 0
      BY <1>2 DEF FinalizeBegin, Begin, TypeOK
    <2>2. Remaining(on[q])' = Remaining(r) /\ PartsOf(on[q])' = PartsOf(r)
      BY <2>1 DEF Remaining, Allocated, PartsOf
    <2>3. \A p \in PartsOf(r) : Covers(q, p)'
      BY <2>1 DEF Covers
    <2> QED BY <2>1, <2>2, <2>3
  <1>3. CASE Same(q)
    BY <1>1, <1>3 DEF Same
  <1>4. CASE Steps(q)
    BY <1>1, <1>2, <1>4, FinalizeOwn
  <1> QED BY <1>3, <1>4, WhoSteps

\* Only the end of a finalization writes the sync record of a receipt.
LEMMA SummaryMoves ==
  ASSUME TypeOK, JobShape, [Next]_vars, NEW r \in Receipts, summary'[r] # summary[r]
  PROVE  \E q \in Requests : FinalizeCommit(q) /\ on[q] = r
  <1> USE DEF records
  <1>1. ASSUME NEW q \in Requests, Ask(q)
        PROVE  summary' = summary
    BY <1>1 DEF Ask, CreateReceipt, RecordPayment, FormLoad, FinalizeBegin, AllocateBegin
  <1>2. ASSUME NEW q \in Requests, Work(q), ~FinalizeCommit(q)
        PROVE  summary' = summary
    BY <1>2 DEF Work, FormSave, SetDeposit, AllocateRefused, PlanCharge, PlanCommit, AllocateConclude,
                AllocateBegin, SyncStart, SyncRefused, SyncSkip, SyncSend, SettlePosted, SettleFailed, Settle
  <1>3. ASSUME NEW q \in Requests, FinalizeCommit(q), on[q] # r
        PROVE  summary'[r] = summary[r]
    BY <1>3 DEF FinalizeCommit, TypeOK
  <1>4. ASSUME NEW q \in Requests, Crash(q)
        PROVE  summary' = summary
    BY <1>4 DEF Crash
  <1>5. CASE LedgerBooks \/ Administer \/ UNCHANGED vars
    BY <1>5 DEF LedgerBooks, Administer, VoidReceipt, ApproveCharge, ArchiveCharge, ChangeMapping, vars
  <1> QED BY <1>1, <1>2, <1>3, <1>4, <1>5 DEF Next

\* A finalization that ends with the receipt posted leaves each part it covered frozen as posted.
LEMMA FinalizePosts ==
  ASSUME IInv, [Next]_vars, NEW q \in Requests, FinalizeCommit(q), ~Errors(q),
         NEW p \in Parts, Covers(q, p)
  PROVE  <<<<on[q], p>>, frozen'[<<on[q], p>>]>> \in ledger
  <1> USE DEF IInv, Aligned
  <1>1. PICK r \in Receipts : r = on[q]
    BY Rows1 DEF FinalizeCommit
  <1> DEFINE k == <<r, p>>
  <1>2. k \in Component
    BY DEF Component
  <1>3. \/ \E a \in held[q] : a.part = p
        \/ frozen[k] # None /\ <<k, frozen[k]>> \in ledger
    BY <1>1 DEF Covers, FinalizeCommit, Drained
  <1>4. CASE Held(q, k) # {}
    <2>1. PICK a \in Held(q, k) : Commits(q, k, a.record.body, a.record.status)
      BY <1>2, <1>4, FinalizeCommits
    <2>2. a \in held[q] /\ a \in Attempts
      BY DEF Held, TypeOK
    <2>3. a.record.status = "succeeded"
      BY <2>2 DEF Errors, Attempts, Records
    <2> QED BY <1>1, <2>1, <2>3 DEF Commits
  <1>5. CASE Held(q, k) = {}
    <2>1. frozen[k] # None /\ <<k, frozen[k]>> \in ledger
      BY <1>1, <1>3, <1>5 DEF Held
    <2>2. frozen'[k] = frozen[k]
      BY <1>2, <2>1, FrozenStays
    <2> QED BY <1>1, <2>1, <2>2
  <1> QED BY <1>4, <1>5

\* The whole invariant holds: plans keep to their receipts, the rows read say what LedgerOS
\* posted, and each finalization covers all parts of its receipt.
THEOREM Consistency == Spec => []Consistent
  <1> DEFINE Inv == PlanCovered /\ SnapshotsTrue /\ FinalizesAll
  <1>1. Init => Inv
    BY DEF Init, PlanCovered, SnapshotsTrue, FinalizesAll
  <1>2. TypeOK /\ Aligned /\ Inv /\ [Next]_vars => Inv'
    BY PlanStep, SnapshotStep, FinalizeStep DEF IInv
  <1>3. Aligned /\ Inv => Consistent
    BY DEF Consistent
  <1> HIDE DEF Inv
  <1> QED BY <1>1, <1>2, <1>3, Invariance, PTL DEF Spec

\* Allocation keeps to what the receipt has: a step of allocate_payment that gives amounts to
\* invoices gives no more than was left, and changes nothing that was given before.
THEOREM AllocationKeepsWithin == Spec => AllocationWithinReceipt
  <1>1. TypeOK /\ Consistent /\ [Next]_vars
          => [\A r \in Receipts :
                (\E c \in Charges : share'[<<r, c>>] # share[<<r, c>>])
                  => /\ Allocated(r)' <= receipt[r].amount
                     /\ \A p \in PartsOf(r) : share'[<<r, p>>] = share[<<r, p>>]]_vars
    <2> SUFFICES ASSUME TypeOK, Consistent, [Next]_vars, NEW r \in Receipts, NEW c \in Charges,
                        share'[<<r, c>>] # share[<<r, c>>]
                 PROVE  /\ Allocated(r)' <= receipt[r].amount
                        /\ \A p \in PartsOf(r) : share'[<<r, p>>] = share[<<r, p>>]
      OBVIOUS
    <2> DEFINE k == <<r, c>>
    <2>1. k \in Component /\ k[1] = r /\ k[2] = c /\ c # Deposit
      BY DEF Component, Parts
    <2>2. IInv /\ JobShape /\ PlanCovered
      BY DEF IInv, Consistent, Aligned
    <2>3. PICK q \in Requests : PlanCommit(q) /\ r = on[q]
      BY <2>1, <2>2, ShareMoves DEF IInv
    <2>4. /\ Allocated(r)' = Allocated(r) + Planned(q)
          /\ \A j \in Component :
               (j[1] # r \/ j[2] \notin Charges \/ plan[q][j[2]] = 0) => share'[j] = share[j]
          /\ \A d \in Charges : plan[q][d] > 0 => share[<<r, d>>] = 0
      BY <2>2, <2>3, PlanAdds
    <2>5. ASSUME Planned(q) = 0 PROVE FALSE
      <3>1. \A d \in Charges : plan[q][d] \in Nat
        BY DEF TypeOK
      <3>2. plan[q][c] <= Planned(q)
        <4>1. Split(plan[q], Charges, c)
          <5>1. IsFiniteSet(Charges)
            OBVIOUS
          <5>2. \A d \in Charges : plan[q][d] \in Int
            BY <3>1
          <5> QED BY <5>1, <5>2, SumSplit, Zenon
        <4>2. IsFiniteSet(Charges \ {c})
          BY FS_RemoveElement
        <4>3. SumFunctionOnSet(plan[q], Charges \ {c}) \in Nat
          BY <3>1, <4>2, SumType
        <4> QED BY <3>1, <4>1, <4>3 DEF Planned, Split
      <3>3. plan[q][c] = 0
        BY <2>5, <3>1, <3>2
      <3> QED BY <2>1, <2>4, <3>3
    <2>6. Planned(q) <= Remaining(r)
      BY <2>2, <2>3, <2>5 DEF PlanCovered, PlanCommit
    <2>7. Planned(q) \in Nat /\ Allocated(r) \in Nat
      BY PlannedType, RemainingType
    <2>8. receipt[r].amount \in Int
      BY <2>2, <2>3, Rows1 DEF PlanCommit, Rows, Amounts
    <2>9. Allocated(r)' <= receipt[r].amount
      BY <2>4, <2>6, <2>7, <2>8 DEF Remaining
    <2>10. ASSUME NEW p \in PartsOf(r) PROVE share'[<<r, p>>] = share[<<r, p>>]
      <3>1. p \in Parts /\ share[<<r, p>>] > 0 /\ <<r, p>> \in Component
        BY DEF PartsOf, Component
      <3>2. p \in Charges => plan[q][p] = 0
        BY <2>4, <3>1 DEF TypeOK
      <3> QED BY <2>4, <3>1, <3>2
    <2> QED BY <2>9, <2>10
  <1> QED BY <1>1, TypeCorrect, Consistency, PTL DEF Spec, AllocationWithinReceipt

\* sync_payment calls a receipt posted only when all of its amount is allocated and LedgerOS
\* has posted every allocation and the deposit, each exactly as it is on file.
THEOREM Finalization == Spec => FinalizedIsComplete
  <1>1. TypeOK /\ Consistent /\ [Next]_vars
          => [\A r \in Receipts :
                receipt'[r] # None /\ receipt'[r].status = "posted" /\ summary[r] # summary'[r]
                  => /\ Remaining(r) = 0
                     /\ \A p \in PartsOf(r) : <<<<r, p>>, frozen'[<<r, p>>]>> \in ledger]_vars
    <2> SUFFICES ASSUME TypeOK, Consistent, [Next]_vars, NEW r \in Receipts,
                        receipt'[r].status = "posted", summary[r] # summary'[r]
                 PROVE  /\ Remaining(r) = 0
                        /\ \A p \in PartsOf(r) : <<<<r, p>>, frozen'[<<r, p>>]>> \in ledger
      OBVIOUS
    <2>1. IInv /\ JobShape /\ FinalizesAll
      BY DEF IInv, Consistent, Aligned
    <2>2. PICK q \in Requests : FinalizeCommit(q) /\ on[q] = r
      BY <2>1, SummaryMoves
    <2>3. pc[q] = "finalize"
      BY <2>2 DEF FinalizeCommit
    <2>4. ~Errors(q)
      <3>1. receipt[r] \in Rows
        BY <2>1, <2>2, <2>3, Rows1
      <3> DEFINE st == IF ~Errors(q) THEN "posted" ELSE "ready_to_sync"
                 new == [[receipt[r] EXCEPT !.status = st] EXCEPT !.linked = TRUE]
      <3>2. receipt' = [receipt EXCEPT ![r] = new]
        BY <2>2 DEF FinalizeCommit, TypeOK
      <3>3. new.status = st
        BY <3>1 DEF Rows
      <3> HIDE DEF new
      <3>4. receipt'[r] = new
        BY <3>2 DEF TypeOK
      <3> QED BY <3>3, <3>4
    <2>5. Remaining(r) = 0 /\ \A p \in PartsOf(r) : Covers(q, p)
      BY <2>1, <2>2, <2>3 DEF FinalizesAll
    <2>6. PartsOf(r) \subseteq Parts
      BY DEF PartsOf
    <2>7. ASSUME NEW p \in PartsOf(r) PROVE <<<<r, p>>, frozen'[<<r, p>>]>> \in ledger
      <3>1. p \in Parts /\ Covers(q, p)
        BY <2>5, <2>6
      <3>2. <<<<on[q], p>>, frozen'[<<on[q], p>>]>> \in ledger
        BY <2>1, <2>2, <2>4, <3>1, FinalizePosts
      <3> QED BY <2>2, <3>2
    <2> QED BY <2>5, <2>7
  <1> QED BY <1>1, TypeCorrect, Consistency, PTL DEF Spec, FinalizedIsComplete
=============================================================================
