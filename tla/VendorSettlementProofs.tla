----------------------- MODULE VendorSettlementProofs -----------------------
(***************************************************************************)
(* Proofs about VendorSettlement: types, the inductive invariant, that a   *)
(* posted payment is booked as it shows, that the journals of the earlier  *)
(* release are not posted again, that no request leaves unchecked under a  *)
(* new key, and that payments are posted idempotently.                     *)
(***************************************************************************)
EXTENDS VendorSettlement, SumTheorems, TLAPS

\* The two parts of the invariant.
IInv == TypeOK /\ Aligned

-----------------------------------------------------------------------------
\* A component is a payment and a way to pay.
LEMMA Components ==
  ASSUME NEW p \in Payments, NEW m \in Methods
  PROVE  <<p, m>> \in Component
  BY DEF Component

\* A row that is sent is no None, and neither is its request, which is of its type.
LEMMA BodyType ==
  ASSUME SettlementAssumption, SettlementNone, TypeOK, NEW p \in Payments, NEW r \in Rows
  PROVE  /\ Body(p, r) \in Bodies /\ Body(p, r) # None
         /\ <<<<p, r.method>>, Body(p, r)>> \in Requests
         /\ Body(p, r).amount = r.amount
         /\ r \in Rows /\ r # None /\ r.method \in Methods /\ r.amount \in Amounts
  <1>1. r.method \in Methods /\ r.amount \in Amounts
    BY DEF Rows
  <1>2. account \in Accounts /\ account # None
    BY SettlementNone DEF TypeOK
  <1>3. Body(p, r) \in Bodies
    BY <1>1, <1>2 DEF Body, Bodies
  <1>4. <<p, r.method>> \in Component
    BY <1>1, Components
  <1>5. (r.method = Card <=> Body(p, r).account # None) /\ (Body(p, r).existing => r.method = Card)
    BY <1>2 DEF Body, NamesAccount
  <1>6. <<<<p, r.method>>, Body(p, r)>> \in Requests
    BY <1>3, <1>4, <1>5 DEF Requests
  <1> QED BY <1>1, <1>3, <1>6, SettlementNone DEF Body

\* What RowConsistent says of a row stands while attempts keep their request.
LEMMA RowKept ==
  ASSUME NEW p \in Payments, NEW r \in Rows, RowConsistent(p, r), journal' = journal,
         \A c \in Component : record[c] # None => record'[c] # None /\ record'[c].body = record[c].body,
         ledger \subseteq ledger'
  PROVE  RowConsistent(p, r)'
  <1>1. r.record \in Methods => <<p, r.record>> \in Component
    BY Components
  <1> QED BY <1>1 DEF RowConsistent

\* The row, or the one on its way, is x in the next state.
LEMMA NextRow ==
  ASSUME NEW p, NEW x, RowConsistent(p, x)'
  PROVE  /\ x = row'[p] => RowConsistent(p, row[p])'
         /\ x = sending'[p].row => RowConsistent(p, sending[p].row)'
         /\ x = checking'[p].row => RowConsistent(p, checking[p].row)'
  BY DEF RowConsistent, Confirmed

-----------------------------------------------------------------------------
\* The initial states satisfy the invariant.
LEMMA Initially ==
  ASSUME SettlementAssumption, SettlementNone, Init
  PROVE  IInv
  <1>1. TypeOK
    BY DEF Init, TypeOK, Requests, Component, Forms, Records, Sends, Checks, Orders
  <1>2. \A p \in Payments :
          /\ row[p] # None => RowConsistent(p, row[p])
          /\ journal[p] # "none" => row[p] # None
    <2> TAKE p \in Payments
    <2>1. LegacyRow(p) /\ journal[p] \in {"none", "known", "unclear"}
      BY DEF Init
    <2>2. CASE journal[p] = "none"
      <3>1. row[p] # None => row[p].record = None /\ row[p].status = "draft"
        BY <2>1, <2>2 DEF LegacyRow
      <3> QED BY <2>2, <3>1, SettlementNone, SettlementAssumption DEF RowConsistent
    <2>3. CASE journal[p] # "none"
      <3>1. row[p] \in [amount : Amounts, method : {Card}, record : {Legacy},
                        status : {IF journal[p] = "known" THEN "posted" ELSE "ready_to_sync"}]
        BY <2>1, <2>3 DEF LegacyRow
      <3>2. row[p] \in Rows
        BY <3>1 DEF Rows, Methods
      <3> QED BY <2>3, <3>1, <3>2, SettlementNone, SettlementAssumption DEF RowConsistent
    <2> QED BY <2>2, <2>3
  <1>3. RowsConsistent
    BY <1>2 DEF RowsConsistent, Init
  <1>4. OnFile
    BY DEF OnFile, Init, Confirmed
  <1> QED BY <1>1, <1>3, <1>4 DEF IInv, Aligned

-----------------------------------------------------------------------------
\* A row of the payments is a row, and so is one that is on its way or in a form.
LEMMA RowTypes ==
  ASSUME SettlementNone, TypeOK, NEW p \in Payments
  PROVE  /\ row[p] # None => row[p] \in Rows
         /\ \A f \in forms[p] : f \in Forms /\ f.row \in Rows
         /\ checking[p] # None => checking[p] \in Checks /\ checking[p].row \in Rows
         /\ sending[p] # None => /\ sending[p] \in Sends /\ sending[p].row \in Rows
                                 /\ sending[p].body \in Bodies
                                 /\ sending[p].row.method \in Methods
  BY DEF TypeOK, Forms, Sends, Checks, Rows

\* A new payment is a draft that points to no record.
LEMMA PaySafe ==
  ASSUME SettlementAssumption, SettlementNone, IInv, Pay
  PROVE  IInv'
  <1> USE DEF IInv, Aligned
  <1>0. PICK order \in Orders : order = paying /\ paying # None
    BY DEF Pay, TypeOK
  <1> DEFINE p == order.payment
             r == [amount |-> order.amount, method |-> order.method, status |-> "draft", record |-> None]
  <1>1. r \in Rows /\ r # None /\ p \in Payments
    BY SettlementNone DEF Rows, Orders
  <1>2. row' = [row EXCEPT ![p] = r] /\ row[p] = None
    BY <1>0, <1>1 DEF Pay, RowsConsistent
  <1>3. /\ UNCHANGED <<record, sending, wire, ledger, lost, forms, journal>>
        /\ UNCHANGED <<approved, mapped, account, upsets, checking>> /\ paying' = None
    BY DEF Pay, posting, context
  <1>4. TypeOK'
    BY <1>1, <1>2, <1>3 DEF TypeOK
  <1> HIDE DEF p
  <1>5. \A q \in Payments, x \in Rows : RowConsistent(q, x) => RowConsistent(q, x)'
    BY <1>3, RowKept
  <1>6. RowsConsistent'
    <2> SUFFICES ASSUME NEW q \in Payments
                 PROVE  /\ row'[q] # None => RowConsistent(q, row[q])'
                        /\ journal[q] # "none" => row'[q] # None
                        /\ \A f \in forms[q] : row'[q] # None /\ RowConsistent(q, f.row)'
                        /\ checking[q] # None => sending[q] = None /\ row'[q] # None /\ RowConsistent(q, checking[q].row)'
                        /\ sending[q] # None => row'[q] # None /\ RowConsistent(q, sending[q].row)'
      BY <1>3 DEF RowsConsistent
    <2>1. CASE q = p
      <3>1. journal[p] = "none" /\ forms[p] = {} /\ checking[p] = None /\ sending[p] = None
        BY <1>1, <1>2 DEF RowsConsistent
      <3>2. row'[p] = r
        BY <1>1, <1>2 DEF TypeOK
      <3>3. RowConsistent(p, row[p])'
        BY <3>1, <3>2, <1>3, SettlementNone, SettlementAssumption DEF RowConsistent
      <3> QED BY <1>1, <2>1, <3>1, <3>2, <3>3
    <2>2. CASE q # p
      <3>1. row'[q] = row[q]
        BY <1>1, <1>2, <2>2 DEF TypeOK
      <3> QED BY <3>1, <1>3, <1>5, NextRow, RowTypes DEF RowsConsistent
    <2> QED BY <2>1, <2>2
  <1>7. OnFile'
    BY <1>3 DEF OnFile, Confirmed
  <1> QED BY <1>4, <1>6, <1>7

\* Checks under a row's lock keep to consistent rows, and change nothing else.
LEMMA CheckSafe ==
  ASSUME SettlementNone, IInv,
         UNCHANGED <<record, sending, wire, ledger, lost, row, journal>>,
         UNCHANGED <<approved, mapped, account, upsets, paying>>,
         forms' \in [Payments -> SUBSET Forms], \A q \in Payments : forms'[q] \subseteq forms[q],
         checking' \in [Payments -> Checks \cup {None}],
         \A q \in Payments : checking'[q] # None => sending'[q] = None /\ row[q] # None /\ RowConsistent(q, checking'[q].row)
  PROVE  IInv'
  <1> USE DEF IInv, Aligned
  <1>1. TypeOK'
    BY DEF TypeOK
  <1>2. \A q \in Payments, x \in Rows : RowConsistent(q, x) => RowConsistent(q, x)'
    BY RowKept
  <1>3. \A q \in Payments : checking'[q] # None => checking'[q].row \in Rows
    BY DEF Checks
  <1>4. ASSUME NEW q \in Payments
        PROVE  /\ row'[q] # None => RowConsistent(q, row[q])'
               /\ journal'[q] # "none" => row'[q] # None
               /\ \A f \in forms'[q] : row'[q] # None /\ RowConsistent(q, f.row)'
               /\ checking'[q] # None => sending'[q] = None /\ row'[q] # None /\ RowConsistent(q, checking[q].row)'
               /\ sending'[q] # None => row'[q] # None /\ RowConsistent(q, sending[q].row)'
               /\ paying' # None /\ paying'.payment = q => row'[q] = None
    <2>1. \A f \in forms'[q] : row'[q] # None /\ RowConsistent(q, f.row)'
      BY <1>2, RowTypes DEF RowsConsistent
    <2>2. checking'[q] # None => sending'[q] = None /\ row'[q] # None /\ RowConsistent(q, checking[q].row)'
      BY <1>2, <1>3, NextRow
    <2> QED BY <1>2, <2>1, <2>2, NextRow, RowTypes DEF RowsConsistent
  <1>5. OnFile'
    BY DEF OnFile, Confirmed
  <1> QED BY <1>1, <1>4, <1>5 DEF RowsConsistent

\* The row that is locked is a consistent one.
LEMMA BeginSafe ==
  ASSUME SettlementNone, IInv, NEW p \in Payments, NEW r \in Rows,
         row[p] # None, RowConsistent(p, r), Begin(p, r), row' = row,
         forms' \in [Payments -> SUBSET Forms], \A q \in Payments : forms'[q] \subseteq forms[q]
  PROVE  IInv'
  <1> DEFINE stage == IF Asked(r) THEN "asked" ELSE "attempted"
             seen == IF Asked(r) THEN ledger ELSE {}
             k == [row |-> r, stage |-> stage, seen |-> seen]
  <1>1. ledger \subseteq Requests
    BY DEF IInv, TypeOK
  <1>2. k \in Checks /\ k # None /\ k.row = r
    BY <1>1, SettlementNone DEF Checks
  <1>3. /\ checking' = [checking EXCEPT ![p] = k]
        /\ UNCHANGED <<record, sending, wire, ledger, lost, journal>>
        /\ UNCHANGED <<approved, mapped, account, upsets, paying>>
    BY DEF Begin, posting, context
  <1> HIDE DEF k
  <1>4. /\ checking' \in [Payments -> Checks \cup {None}]
        /\ \A q \in Payments : checking'[q] = IF q = p THEN k ELSE checking[q]
    BY <1>2, <1>3 DEF IInv, TypeOK
  <1>04. sending[p] = None
    BY DEF Begin, Locked, Waiting
  <1>5. \A q \in Payments : checking'[q] # None => sending'[q] = None /\ row[q] # None /\ RowConsistent(q, checking'[q].row)
    BY <1>2, <1>3, <1>4, <1>04 DEF IInv, Aligned, RowsConsistent
  <1> QED BY <1>3, <1>4, <1>5, CheckSafe

\* The checks go on with the row they began with, or are dropped.
LEMMA GoesOn ==
  ASSUME SettlementNone, IInv, NEW p \in Payments, Review(p) \/ Drop(p)
  PROVE  /\ IInv' /\ UNCHANGED <<row, forms, record, sending, wire, ledger, journal, approved>>
         /\ \A q \in Payments : checking'[q] # None =>
              /\ checking[q] # None /\ checking'[q].row = checking[q].row
              /\ checking'[q].seen = checking[q].seen
              /\ \/ checking'[q].stage = checking[q].stage
                 \/ checking[q].stage = "asked" /\ checking'[q].stage = "reviewed" /\ Review(p)
  <1>1. checking[p] # None /\ checking[p] \in Checks
    BY RowTypes DEF Review, Drop, IInv
  <1>2. PICK k \in Checks \cup {None} :
          /\ checking' = [checking EXCEPT ![p] = k]
          /\ k # None => /\ k.row = checking[p].row /\ k.seen = checking[p].seen
                         /\ checking[p].stage = "asked" /\ k.stage = "reviewed" /\ Review(p)
    <2> DEFINE n == [checking[p] EXCEPT !.stage = "reviewed"]
    <2>1. n \in Checks /\ n.row = checking[p].row /\ n.seen = checking[p].seen /\ n.stage = "reviewed"
      BY <1>1 DEF Checks
    <2>2. CASE Review(p)
      <3>1. checking' = [checking EXCEPT ![p] = n] /\ checking[p].stage = "asked"
        BY <2>2 DEF Review
      <3> HIDE DEF n
      <3> QED BY <2>1, <2>2, <3>1
    <2>3. CASE Drop(p)
      BY <2>3 DEF Drop
    <2> QED BY <2>2, <2>3
  <1>4. /\ UNCHANGED <<record, sending, wire, ledger, lost, row, forms, journal>>
        /\ UNCHANGED <<approved, mapped, account, upsets, paying>>
    BY DEF Review, Drop, posting, context, local
  <1>5. /\ checking' \in [Payments -> Checks \cup {None}]
        /\ \A q \in Payments : checking'[q] = IF q = p THEN k ELSE checking[q]
    BY <1>2 DEF IInv, TypeOK
  <1>6. \A q \in Payments : checking'[q] # None =>
              /\ checking[q] # None /\ checking'[q].row = checking[q].row
              /\ checking'[q].seen = checking[q].seen
              /\ \/ checking'[q].stage = checking[q].stage
                 \/ checking[q].stage = "asked" /\ checking'[q].stage = "reviewed" /\ Review(p)
    BY <1>1, <1>2, <1>5
  <1>7. \A q \in Payments : checking'[q] # None => sending'[q] = None /\ row[q] # None /\ RowConsistent(q, checking'[q].row)
    BY <1>4, <1>6 DEF IInv, Aligned, RowsConsistent
  <1>8. IInv'
    BY <1>4, <1>5, <1>7, CheckSafe DEF IInv, TypeOK
  <1> QED BY <1>4, <1>6, <1>8

\* A request that leaves is for a consistent row, and is that on file if there is one.
LEMMA SendSafe ==
  ASSUME SettlementAssumption, SettlementNone, IInv, NEW p \in Payments, Send(p)
  PROVE  IInv'
  <1> USE DEF IInv, Aligned
  <1>0. PICK r \in Rows : r = checking[p].row /\ RowConsistent(p, r) /\ row[p] # None
    BY RowTypes DEF Send, RowsConsistent
  <1> DEFINE b == Body(p, r)
             s == [row |-> r, body |-> b]
  <1>1. b \in Bodies /\ b # None /\ <<<<p, r.method>>, b>> \in Requests /\ b.amount = r.amount
        /\ r.method \in Methods /\ <<p, r.method>> \in Component
    BY BodyType, Components
  <1>2. s \in Sends /\ s # None
    BY <1>1, SettlementNone DEF Sends
  <1>3. /\ sending' = [sending EXCEPT ![p] = s]
        /\ checking' = [checking EXCEPT ![p] = None]
        /\ wire' = wire \cup {<<<<p, r.method>>, b>>}
        /\ record[<<p, r.method>>] # None => record[<<p, r.method>>].body = b
    BY <1>0 DEF Send, Sendable
  <1>03. sending[p] = None
    BY DEF Send, RowsConsistent
  <1>4. /\ UNCHANGED <<record, ledger, lost, row, forms, journal, approved, mapped, account>>
        /\ UNCHANGED <<upsets, paying>>
    BY DEF Send, context, local
  <1>5. TypeOK'
    BY <1>1, <1>2, <1>3, <1>4 DEF TypeOK
  <1>6. \A q \in Payments : /\ sending'[q] = IF q = p THEN s ELSE sending[q]
                            /\ checking'[q] = IF q = p THEN None ELSE checking[q]
    <2>1. sending \in [Payments -> Sends \cup {None}] /\ checking \in [Payments -> Checks \cup {None}]
      BY DEF TypeOK
    <2> HIDE DEF s
    <2> QED BY <1>3, <2>1
  <1>06. s.row = r
    OBVIOUS
  <1>7. \A q \in Payments, x \in Rows : RowConsistent(q, x) => RowConsistent(q, x)'
    BY <1>4, RowKept
  <1>8. RowsConsistent'
    <2> HIDE DEF s
    <2> SUFFICES ASSUME NEW q \in Payments
                 PROVE  /\ row'[q] # None => RowConsistent(q, row[q])'
                        /\ journal'[q] # "none" => row'[q] # None
                        /\ \A f \in forms'[q] : row'[q] # None /\ RowConsistent(q, f.row)'
                        /\ checking'[q] # None => sending'[q] = None /\ row'[q] # None /\ RowConsistent(q, checking[q].row)'
                        /\ sending'[q] # None => row'[q] # None /\ RowConsistent(q, sending[q].row)'
                        /\ paying' # None /\ paying'.payment = q => row'[q] = None
      BY DEF RowsConsistent
    <2>1. RowConsistent(q, sending'[q].row) => RowConsistent(q, sending[q].row)'
      BY <1>4 DEF RowConsistent, Confirmed
    <2>2. sending'[q] # None => row[q] # None /\ RowConsistent(q, sending'[q].row)
      BY <1>0, <1>06, <1>6 DEF RowsConsistent
    <2>3. row[q] # None => RowConsistent(q, row[q])'
      BY <1>4 DEF RowsConsistent, RowConsistent, Confirmed
    <2>4. \A f \in forms'[q] : row[q] # None /\ RowConsistent(q, f.row)'
      BY <1>4, <1>7, RowTypes DEF RowsConsistent
    <2>5. checking'[q] # None => sending'[q] = None /\ row'[q] # None /\ RowConsistent(q, checking[q].row)'
      <3>1. CASE checking'[q] = None
        BY <3>1
      <3>2. CASE checking'[q] # None
        <4>1. q # p /\ checking'[q] = checking[q] /\ sending'[q] = sending[q]
          BY <1>6, <3>2
        <4>2. sending[q] = None /\ row[q] # None /\ RowConsistent(q, checking[q].row) /\ checking[q].row \in Rows
          BY <3>2, <4>1, RowTypes DEF RowsConsistent
        <4> QED BY <1>4, <1>7, <4>1, <4>2, NextRow
      <3> QED BY <3>1, <3>2
    <2> QED BY <2>1, <2>2, <2>3, <2>4, <2>5, <1>4 DEF RowsConsistent
  <1>9. OnFile'
    <2>1. \A c \in Component : /\ record'[c] # None => <<c, record'[c].body>> \in wire'
                               /\ Confirmed(c)' => <<c, record'[c].body>> \in ledger'
      BY <1>3, <1>4 DEF OnFile, Confirmed
    <2>2. \A q \in Payments : sending'[q] # None =>
            LET c == <<q, sending'[q].row.method>> IN
            /\ <<c, sending'[q].body>> \in wire'
            /\ sending'[q].body.amount = sending'[q].row.amount
            /\ record'[c] # None => record'[c].body = sending'[q].body
      BY <1>1, <1>3, <1>4, <1>6 DEF OnFile
    <2>3. \A j \in wire' :
            \/ j[1] \in lost'
            \/ record'[j[1]] # None /\ record'[j[1]].body = j[2]
            \/ /\ sending'[j[1][1]] # None
               /\ j = <<<<j[1][1], sending'[j[1][1]].row.method>>, sending'[j[1][1]].body>>
      <3> TAKE j \in wire'
      <3>1. CASE j = <<<<p, r.method>>, b>>
        BY <1>2, <1>6, <3>1
      <3>2. CASE j \in wire
        <4>1. j[1][1] \in Payments
          BY <3>2 DEF TypeOK, Requests, Component
        <4> QED BY <1>03, <1>3, <1>4, <1>6, <3>2, <4>1 DEF OnFile
      <3> QED BY <1>3, <3>1, <3>2
    <2> QED BY <2>1, <2>2, <2>3 DEF OnFile
  <1> QED BY <1>5, <1>8, <1>9

\* An answer puts on file what was sent, and the row that was sent points to it.
LEMMA AnswerSafe ==
  ASSUME SettlementAssumption, SettlementNone, IInv, NEW p \in Payments, Waiting(p),
         NEW outcome \in {"failed", "succeeded"}, NEW status \in {"ready_to_sync", "posted"},
         Answered(p, outcome, status),
         outcome = "succeeded" \/ status = "posted" =>
           <<<<p, sending[p].row.method>>, sending[p].body>> \in ledger
  PROVE  IInv'
  <1> USE DEF IInv, Aligned
  <1>0. PICK s \in Sends : s = sending[p]
    BY RowTypes DEF Waiting
  <1> DEFINE r == s.row
             b == s.body
             c == <<p, r.method>>
             rec == [status |-> outcome, body |-> b]
             new == [r EXCEPT !.status = status, !.record = r.method]
  <1>1. /\ sending[p] # None /\ r \in Rows /\ b \in Bodies /\ r.method \in Methods
        /\ c \in Component
    BY <1>0, RowTypes, Components DEF Waiting
  <1>2. rec \in Records /\ rec # None
    BY <1>1, SettlementNone DEF Records
  <1>3. /\ new \in Rows /\ new # None /\ new.status = status /\ new.record = r.method
        /\ new.method = r.method /\ new.amount = r.amount
    BY <1>1, SettlementNone DEF Rows
  <1>4. /\ record' = [record EXCEPT ![c] = rec] /\ row' = [row EXCEPT ![p] = new]
        /\ sending' = [sending EXCEPT ![p] = None]
        /\ UNCHANGED <<wire, ledger, lost, forms, journal, approved, mapped, account, upsets, paying, checking>>
    BY <1>0 DEF Answered, context
  <1>5. TypeOK'
    BY <1>1, <1>2, <1>3, <1>4 DEF TypeOK
  <1>6. /\ \A q \in Payments : sending'[q] = IF q = p THEN None ELSE sending[q]
        /\ \A q \in Payments : row'[q] = IF q = p THEN new ELSE row[q]
        /\ \A d \in Component : record'[d] = IF d = c THEN rec ELSE record[d]
    BY <1>4 DEF TypeOK
  <1>7. <<c, b>> \in wire /\ b.amount = r.amount /\ (record[c] # None => record[c].body = b)
    BY <1>0, <1>1 DEF OnFile
  <1>8. \A d \in Component : record[d] # None => record'[d] # None /\ record'[d].body = record[d].body
    BY <1>2, <1>6, <1>7
  <1>9. \A q \in Payments, x \in Rows : RowConsistent(q, x) => RowConsistent(q, x)'
    BY <1>4, <1>8, RowKept
  <1>10. RowConsistent(p, new)'
    <2>1. RowConsistent(p, r)
      BY <1>0, <1>1 DEF RowsConsistent
    <2>2. journal[p] # "none" => r.method = Card
      BY <2>1 DEF RowConsistent
    <2>3. record'[c] = rec /\ rec.body = b /\ b.amount = r.amount
      BY <1>1, <1>6, <1>7
    <2>4. status = "posted" => <<c, b>> \in ledger'
      BY <1>0, <1>4
    <2> QED BY <1>1, <1>2, <1>3, <1>4, <2>2, <2>3, <2>4, SettlementNone, SettlementAssumption
          DEF RowConsistent
  <1>11. RowsConsistent'
    <2> SUFFICES ASSUME NEW q \in Payments
                 PROVE  /\ row'[q] # None => RowConsistent(q, row[q])'
                        /\ journal'[q] # "none" => row'[q] # None
                        /\ \A f \in forms'[q] : row'[q] # None /\ RowConsistent(q, f.row)'
                        /\ checking'[q] # None => sending'[q] = None /\ row'[q] # None /\ RowConsistent(q, checking[q].row)'
                        /\ sending'[q] # None => row'[q] # None /\ RowConsistent(q, sending[q].row)'
                        /\ paying' # None /\ paying'.payment = q => row'[q] = None
      BY DEF RowsConsistent
    <2>1. \A f \in forms[q] : RowConsistent(q, f.row) => RowConsistent(q, f.row)'
      BY <1>9, RowTypes
    <2>2. CASE q = p
      <3>1. row'[q] = new /\ row[q] # None /\ sending'[q] = None /\ checking[q] = None
        BY <1>0, <1>1, <1>6, <2>2 DEF RowsConsistent
      <3>2. RowConsistent(q, row[q])'
        BY <1>10, <2>2, <3>1, NextRow
      <3> QED BY <1>3, <1>4, <2>1, <3>1, <3>2 DEF RowsConsistent
    <2>3. CASE q # p
      <3>1. row'[q] = row[q] /\ sending'[q] = sending[q]
        BY <1>6, <2>3
      <3>2. row[q] # None => RowConsistent(q, row[q])'
        BY <1>9, <3>1, RowTypes, NextRow DEF RowsConsistent
      <3>3. sending[q] # None => RowConsistent(q, sending[q].row)'
        BY <1>9, <3>1, RowTypes, NextRow DEF RowsConsistent
      <3>4. checking[q] # None => RowConsistent(q, checking[q].row)'
        BY <1>4, <1>9, RowTypes, NextRow DEF RowsConsistent
      <3> QED BY <1>4, <2>1, <3>1, <3>2, <3>3, <3>4 DEF RowsConsistent
    <2> QED BY <2>2, <2>3
  <1>12. OnFile'
    <2>1. \A d \in Component : /\ record'[d] # None => <<d, record'[d].body>> \in wire'
                               /\ Confirmed(d)' => <<d, record'[d].body>> \in ledger'
      BY <1>0, <1>4, <1>6, <1>7 DEF OnFile, Confirmed
    <2>2. \A q \in Payments : sending'[q] # None =>
            LET d == <<q, sending'[q].row.method>> IN
            /\ <<d, sending'[q].body>> \in wire'
            /\ sending'[q].body.amount = sending'[q].row.amount
            /\ record'[d] # None => record'[d].body = sending'[q].body
      <3> SUFFICES ASSUME NEW q \in Payments, sending'[q] # None
                   PROVE  LET d == <<q, sending'[q].row.method>> IN
                          /\ <<d, sending'[q].body>> \in wire'
                          /\ sending'[q].body.amount = sending'[q].row.amount
                          /\ record'[d] # None => record'[d].body = sending'[q].body
        OBVIOUS
      <3>1. q # p /\ sending'[q] = sending[q]
        BY <1>6
      <3>2. <<q, sending[q].row.method>> \in Component /\ <<q, sending[q].row.method>> # c
        BY <3>1, RowTypes, Components
      <3>3. wire' = wire /\ record'[<<q, sending[q].row.method>>] = record[<<q, sending[q].row.method>>]
        BY <1>4, <1>6, <3>2
      <3>4. LET d == <<q, sending[q].row.method>> IN
            /\ <<d, sending[q].body>> \in wire
            /\ sending[q].body.amount = sending[q].row.amount
            /\ record[d] # None => record[d].body = sending[q].body
        BY <3>1 DEF OnFile
      <3> QED BY <3>1, <3>3, <3>4
    <2>3. \A j \in wire' :
            \/ j[1] \in lost'
            \/ record'[j[1]] # None /\ record'[j[1]].body = j[2]
            \/ /\ sending'[j[1][1]] # None
               /\ j = <<<<j[1][1], sending'[j[1][1]].row.method>>, sending'[j[1][1]].body>>
      <3> TAKE j \in wire'
      <3>1. j \in wire /\ j[1] \in Component /\ j[1][1] \in Payments
        BY <1>4 DEF TypeOK, Requests, Component
      <3>2. CASE j = <<c, b>>
        BY <1>1, <1>2, <1>6, <3>2
      <3>3. CASE j # <<c, b>>
        <4>1. CASE j[1] \in lost
          BY <1>4, <4>1
        <4>2. CASE record[j[1]] # None /\ record[j[1]].body = j[2]
          BY <1>8, <3>1, <4>2
        <4>3. CASE /\ sending[j[1][1]] # None
                   /\ j = <<<<j[1][1], sending[j[1][1]].row.method>>, sending[j[1][1]].body>>
          <5>1. j[1][1] # p
            BY <1>0, <3>3, <4>3
          <5> QED BY <1>6, <3>1, <4>3, <5>1
        <4> QED BY <3>1, <4>1, <4>2, <4>3 DEF OnFile
      <3> QED BY <3>2, <3>3
    <2> QED BY <2>1, <2>2, <2>3 DEF OnFile
  <1> QED BY <1>5, <1>11, <1>12

\* A request that dies has its record on file, or is lost.
LEMMA CrashSafe ==
  ASSUME SettlementNone, IInv, NEW p \in Payments, Crash(p)
  PROVE  IInv'
  <1> USE DEF IInv, Aligned
  <1> DEFINE c == <<p, sending[p].row.method>>
  <1>1. sending[p] # None /\ c \in Component
    BY RowTypes, Components DEF Crash, Waiting
  <1>2. /\ sending' = [sending EXCEPT ![p] = None]
        /\ lost' = IF record[c] = None THEN lost \cup {c} ELSE lost
        /\ UNCHANGED <<record, wire, ledger, row, forms, journal, approved, mapped, account, paying, checking>>
        /\ upsets' = upsets + 1
    BY DEF Crash, Upset, local, context
  <1>3. TypeOK'
    BY <1>1, <1>2 DEF TypeOK
  <1>4. \A q \in Payments : sending'[q] = IF q = p THEN None ELSE sending[q]
    BY <1>2 DEF TypeOK
  <1>5. RowsConsistent'
    <2>1. \A q \in Payments : sending'[q] # None => sending'[q] = sending[q]
      BY <1>4
    <2>2. \A q \in Payments, x \in Rows : RowConsistent(q, x) => RowConsistent(q, x)'
      BY <1>2, RowKept
    <2>3. ASSUME NEW q \in Payments
          PROVE  /\ row'[q] # None => RowConsistent(q, row[q])'
                 /\ journal'[q] # "none" => row'[q] # None
                 /\ \A f \in forms'[q] : row'[q] # None /\ RowConsistent(q, f.row)'
                 /\ checking'[q] # None => sending'[q] = None /\ row'[q] # None /\ RowConsistent(q, checking[q].row)'
                 /\ sending'[q] # None => row'[q] # None /\ RowConsistent(q, sending[q].row)'
                 /\ paying' # None /\ paying'.payment = q => row'[q] = None
      BY <1>2, <2>1, <2>2, NextRow, RowTypes DEF RowsConsistent
    <2> QED BY <2>3 DEF RowsConsistent
  <1>6. OnFile'
    <2>1. \A d \in Component : /\ record'[d] # None => <<d, record'[d].body>> \in wire'
                               /\ Confirmed(d)' => <<d, record'[d].body>> \in ledger'
      BY <1>2 DEF OnFile, Confirmed
    <2>2. \A q \in Payments : sending'[q] # None =>
            LET d == <<q, sending'[q].row.method>> IN
            /\ <<d, sending'[q].body>> \in wire'
            /\ sending'[q].body.amount = sending'[q].row.amount
            /\ record'[d] # None => record'[d].body = sending'[q].body
      <3> SUFFICES ASSUME NEW q \in Payments, sending'[q] # None
                   PROVE  LET d == <<q, sending'[q].row.method>> IN
                          /\ <<d, sending'[q].body>> \in wire'
                          /\ sending'[q].body.amount = sending'[q].row.amount
                          /\ record'[d] # None => record'[d].body = sending'[q].body
        OBVIOUS
      <3>1. sending'[q] = sending[q] /\ sending[q] # None
        BY <1>4
      <3>2. UNCHANGED <<record, wire>>
        BY <1>2
      <3> QED BY <3>1, <3>2 DEF OnFile
    <2>3. \A j \in wire' :
            \/ j[1] \in lost'
            \/ record'[j[1]] # None /\ record'[j[1]].body = j[2]
            \/ /\ sending'[j[1][1]] # None
               /\ j = <<<<j[1][1], sending'[j[1][1]].row.method>>, sending'[j[1][1]].body>>
      <3> TAKE j \in wire'
      <3>1. j \in wire /\ j[1] \in Component /\ j[1][1] \in Payments
        BY <1>2 DEF TypeOK, Requests, Component
      <3>2. CASE j[1] \in lost
        BY <1>2, <3>2
      <3>3. CASE record[j[1]] # None /\ record[j[1]].body = j[2]
        BY <1>2, <3>3
      <3>4. CASE /\ sending[j[1][1]] # None
                 /\ j = <<<<j[1][1], sending[j[1][1]].row.method>>, sending[j[1][1]].body>>
        <4>1. CASE j[1][1] = p
          <5>1. j[1] = c /\ j[2] = sending[p].body
            BY <3>4, <4>1
          <5>2. record[c] # None => record[c].body = sending[p].body
            BY <1>1 DEF OnFile
          <5> QED BY <1>2, <5>1, <5>2
        <4>2. CASE j[1][1] # p
          BY <1>4, <3>1, <3>4, <4>2
        <4> QED BY <4>1, <4>2
      <3> QED BY <3>1, <3>2, <3>3, <3>4 DEF OnFile
    <2> QED BY <2>1, <2>2, <2>3 DEF OnFile
  <1> QED BY <1>3, <1>5, <1>6

\* LedgerOS books what was sent.
LEMMA BookSafe ==
  ASSUME SettlementNone, IInv, Book
  PROVE  IInv'
  <1> USE DEF IInv, Aligned
  <1>1. /\ ledger' \subseteq wire /\ ledger \subseteq ledger'
        /\ UNCHANGED <<record, sending, wire, lost, row, forms, journal, approved, mapped, account, upsets, paying, checking>>
    BY DEF Book, local, context, TypeOK
  <1>2. TypeOK'
    BY <1>1 DEF TypeOK
  <1>3. \A q \in Payments, x \in Rows : RowConsistent(q, x) => RowConsistent(q, x)'
    BY <1>1, RowKept
  <1>4. ASSUME NEW q \in Payments
        PROVE  /\ row'[q] # None => RowConsistent(q, row[q])'
               /\ journal'[q] # "none" => row'[q] # None
               /\ \A f \in forms'[q] : row'[q] # None /\ RowConsistent(q, f.row)'
               /\ checking'[q] # None => sending'[q] = None /\ row'[q] # None /\ RowConsistent(q, checking[q].row)'
               /\ sending'[q] # None => row'[q] # None /\ RowConsistent(q, sending[q].row)'
               /\ paying' # None /\ paying'.payment = q => row'[q] = None
    BY <1>1, <1>3, NextRow, RowTypes DEF RowsConsistent
  <1>5. OnFile'
    BY <1>1 DEF OnFile, Confirmed
  <1> QED BY <1>2, <1>4, <1>5 DEF RowsConsistent

\* A form holds the row it has read, edited only if that row points to no record.
LEMMA LoadFormSafe ==
  ASSUME SettlementAssumption, SettlementNone, IInv, NEW p \in Payments,
         NEW amount \in Amounts, NEW method \in Methods, LoadForm(p, amount, method)
  PROVE  IInv'
  <1> USE DEF IInv, Aligned
  <1>0. PICK r \in Rows : r = row[p] /\ r # None
    BY RowTypes DEF LoadForm
  <1>01. PICK settled \in BOOLEAN : settled = Settled(p, row[p])
    BY DEF Settled, Confirmed
  <1> DEFINE x == [r EXCEPT !.amount = amount, !.method = method]
             f == [row |-> x, settled |-> settled]
  <1>1. x \in Rows /\ f \in Forms /\ x.record = r.record /\ x.status = r.status
        /\ x.amount = amount /\ x.method = method
    BY DEF Rows, Forms
  <1>2. /\ forms' = [forms EXCEPT ![p] = @ \cup {f}]
        /\ UNCHANGED <<record, sending, wire, ledger, lost, row, journal, approved, mapped, account, paying, checking>>
        /\ upsets' = upsets + 1
    BY <1>0, <1>01 DEF LoadForm, Upset, posting, context
  <1>3. TypeOK'
    BY <1>1, <1>2 DEF TypeOK
  <1>4. \A q \in Payments, y \in Rows : RowConsistent(q, y) => RowConsistent(q, y)'
    BY <1>2, RowKept
  <1>5. RowConsistent(p, x)
    <2>1. RowConsistent(p, r)
      BY <1>0 DEF RowsConsistent
    <2>2. CASE r.record = None
      BY <1>1, <2>1, <2>2, SettlementNone, SettlementAssumption DEF RowConsistent
    <2>3. CASE r.record # None
      <3>1. amount = r.amount /\ method = r.method
        BY <1>0, <2>3 DEF LoadForm, Editable
      <3> QED BY <1>1, <2>1, <3>1 DEF RowConsistent
    <2> QED BY <2>2, <2>3
  <1>6. ASSUME NEW q \in Payments
        PROVE  /\ row'[q] # None => RowConsistent(q, row[q])'
               /\ journal'[q] # "none" => row'[q] # None
               /\ \A g \in forms'[q] : row'[q] # None /\ RowConsistent(q, g.row)'
               /\ checking'[q] # None => sending'[q] = None /\ row'[q] # None /\ RowConsistent(q, checking[q].row)'
               /\ sending'[q] # None => row'[q] # None /\ RowConsistent(q, sending[q].row)'
               /\ paying' # None /\ paying'.payment = q => row'[q] = None
    <2>1. \A g \in forms'[q] : g \in forms[q] \/ (q = p /\ g = f)
      BY <1>2 DEF TypeOK
    <2>2. \A g \in forms'[q] : row'[q] # None /\ RowConsistent(q, g.row)'
      BY <1>0, <1>1, <1>2, <1>4, <1>5, <2>1, RowTypes DEF RowsConsistent
    <2> QED BY <1>2, <1>4, <2>2, NextRow, RowTypes DEF RowsConsistent
  <1>7. OnFile'
    BY <1>2 DEF OnFile, Confirmed
  <1> QED BY <1>3, <1>6, <1>7 DEF RowsConsistent

\* A form that has nothing to send writes its row, at most as a draft.
LEMMA SaveFormSafe ==
  ASSUME SettlementAssumption, SettlementNone, IInv, NEW p \in Payments, NEW f \in forms[p],
         SaveForm(p, f)
  PROVE  IInv'
  <1> USE DEF IInv, Aligned
  <1>0. f \in Forms /\ f.row \in Rows /\ RowConsistent(p, f.row) /\ row[p] # None
    BY RowTypes DEF RowsConsistent
  <1>1. PICK x \in Rows : /\ row' = [row EXCEPT ![p] = x]
                          /\ x = f.row \/ x = [f.row EXCEPT !.status = "draft"]
    <2>1. [f.row EXCEPT !.status = "draft"] \in Rows
      BY <1>0 DEF Rows
    <2> QED BY <1>0, <2>1 DEF SaveForm, Unsent
  <1>2. /\ forms' = [forms EXCEPT ![p] = @ \ {f}]
        /\ UNCHANGED <<record, sending, wire, ledger, lost, journal, approved, mapped, account, upsets, paying, checking>>
    BY DEF SaveForm, posting, context
  <1>3. TypeOK'
    BY <1>1, <1>2 DEF TypeOK
  <1>4. \A q \in Payments, y \in Rows : RowConsistent(q, y) => RowConsistent(q, y)'
    BY <1>2, RowKept
  <1>5. RowConsistent(p, x)
    <2>1. x.record = f.row.record /\ x.method = f.row.method /\ x.amount = f.row.amount
          /\ (x.status = f.row.status \/ x.status = "draft")
      BY <1>0, <1>1 DEF Rows
    <2> QED BY <1>0, <2>1 DEF RowConsistent
  <1>6. \A q \in Payments : row'[q] = IF q = p THEN x ELSE row[q]
    BY <1>1 DEF TypeOK
  <1>7. x # None
    BY SettlementNone
  <1>8. ASSUME NEW q \in Payments
        PROVE  /\ row'[q] # None => RowConsistent(q, row[q])'
               /\ journal'[q] # "none" => row'[q] # None
               /\ \A g \in forms'[q] : row'[q] # None /\ RowConsistent(q, g.row)'
               /\ checking'[q] # None => sending'[q] = None /\ row'[q] # None /\ RowConsistent(q, checking[q].row)'
               /\ sending'[q] # None => row'[q] # None /\ RowConsistent(q, sending[q].row)'
               /\ paying' # None /\ paying'.payment = q => row'[q] = None
    <2>1. forms'[q] \subseteq forms[q]
      BY <1>2 DEF TypeOK
    <2>2. row[q] # None => row'[q] # None
      BY <1>6, <1>7
    <2>3. row'[q] # None => RowConsistent(q, row[q])'
      BY <1>4, <1>5, <1>6, NextRow, RowTypes DEF RowsConsistent
    <2>4. \A g \in forms'[q] : row'[q] # None /\ RowConsistent(q, g.row)'
      BY <1>4, <2>1, <2>2, RowTypes DEF RowsConsistent
    <2>5. sending'[q] # None => row'[q] # None /\ RowConsistent(q, sending[q].row)'
      BY <1>2, <1>4, <2>2, NextRow, RowTypes DEF RowsConsistent
    <2>6. checking'[q] # None => sending'[q] = None /\ row'[q] # None /\ RowConsistent(q, checking[q].row)'
      BY <1>2, <1>4, <2>2, NextRow, RowTypes DEF RowsConsistent
    <2>7. paying' # None /\ paying'.payment = q => row'[q] = None
      BY <1>0, <1>2, <1>6 DEF RowsConsistent
    <2> QED BY <1>2, <2>2, <2>3, <2>4, <2>5, <2>6, <2>7 DEF RowsConsistent
  <1>9. OnFile'
    BY <1>2 DEF OnFile, Confirmed
  <1> QED BY <1>3, <1>8, <1>9 DEF RowsConsistent

\* Approval and accounts are in no part of the invariant but their types; a payment to be
\* saved has no row yet.
LEMMA ContextSafe ==
  ASSUME IInv, UNCHANGED <<record, checking, sending, wire, ledger, lost, row, forms, journal>>,
         approved' \in BOOLEAN, mapped' \subseteq Methods, account' \in Accounts,
         upsets' \in Nat, paying' \in Orders \cup {None},
         paying' # None => paying' = paying \/ row[paying'.payment] = None
  PROVE  IInv'
  <1>1. TypeOK'
    BY DEF IInv, TypeOK
  <1>2. RowsConsistent'
    <2> SUFFICES ASSUME NEW q \in Payments
                 PROVE  /\ row'[q] # None => RowConsistent(q, row[q])'
                        /\ journal'[q] # "none" => row'[q] # None
                        /\ \A f \in forms'[q] : row'[q] # None /\ RowConsistent(q, f.row)'
                        /\ checking'[q] # None => sending'[q] = None /\ row'[q] # None /\ RowConsistent(q, checking[q].row)'
                        /\ sending'[q] # None => row'[q] # None /\ RowConsistent(q, sending[q].row)'
                        /\ paying' # None /\ paying'.payment = q => row'[q] = None
      BY DEF RowsConsistent
    <2>1. /\ row[q] # None => RowConsistent(q, row[q])
          /\ journal[q] # "none" => row[q] # None
          /\ \A f \in forms[q] : row[q] # None /\ RowConsistent(q, f.row)
          /\ checking[q] # None => sending[q] = None /\ row[q] # None /\ RowConsistent(q, checking[q].row)
          /\ sending[q] # None => row[q] # None /\ RowConsistent(q, sending[q].row)
          /\ paying # None /\ paying.payment = q => row[q] = None
      BY DEF IInv, Aligned, RowsConsistent
    <2>2. row'[q] # None => RowConsistent(q, row[q])'
      BY <2>1 DEF RowConsistent
    <2>3. journal'[q] # "none" => row'[q] # None
      BY <2>1
    <2>4. \A f \in forms'[q] : row'[q] # None /\ RowConsistent(q, f.row)'
      BY <2>1 DEF RowConsistent
    <2>5. sending'[q] # None => row'[q] # None /\ RowConsistent(q, sending[q].row)'
      BY <2>1 DEF RowConsistent
    <2>6. checking'[q] # None => sending'[q] = None /\ row'[q] # None /\ RowConsistent(q, checking[q].row)'
      BY <2>1 DEF RowConsistent
    <2>7. paying' # None /\ paying'.payment = q => row'[q] = None
      BY <2>1
    <2> QED BY <2>2, <2>3, <2>4, <2>5, <2>6, <2>7
  <1>3. OnFile'
    BY DEF IInv, Aligned, OnFile, Confirmed
  <1> QED BY <1>1, <1>2, <1>3 DEF IInv, Aligned
-----------------------------------------------------------------------------
\* Every step preserves the invariant.
LEMMA Step ==
  ASSUME SettlementAssumption, SettlementNone, IInv, [Next]_vars
  PROVE  IInv'
  <1>1. ASSUME Pay PROVE IInv'
    BY <1>1, PaySafe
  <1>2. ASSUME NEW p \in Payments, NEW amount \in Amounts, NEW method \in Methods, LoadForm(p, amount, method)
        PROVE  IInv'
    BY <1>2, LoadFormSafe
  <1>3. ASSUME NEW p \in Payments, Sync(p)
        PROVE  IInv'
    <2>1. PICK r \in Rows : r = row[p]
      BY <1>3, RowTypes DEF Sync, IInv
    <2>2. Begin(p, r) /\ row[p] # None /\ row' = row /\ forms' = forms
      BY <1>3, <2>1 DEF Sync, local
    <2>3. RowConsistent(p, r)
      BY <2>1, <2>2 DEF IInv, Aligned, RowsConsistent
    <2>4. forms' \in [Payments -> SUBSET Forms]
      BY <2>2 DEF IInv, TypeOK
    <2> QED BY <2>2, <2>3, <2>4, BeginSafe
  <1>4. ASSUME NEW p \in Payments, SyncConfirmed(p) PROVE IInv'
    BY <1>4, AnswerSafe DEF SyncConfirmed
  <1>5. ASSUME NEW p \in Payments, SyncFailed(p) PROVE IInv'
    BY <1>5, AnswerSafe DEF SyncFailed
  <1>6. ASSUME NEW p \in Payments, Crash(p) PROVE IInv'
    BY <1>6, CrashSafe
  <1>7. ASSUME NEW p \in Payments, NEW f \in forms[p], SaveForm(p, f) PROVE IInv'
    BY <1>7, SaveFormSafe
  <1>8. ASSUME NEW p \in Payments, NEW f \in forms[p], SaveAndSync(p, f) PROVE IInv'
    <2>1. f.row \in Rows /\ RowConsistent(p, f.row) /\ row[p] # None
      BY RowTypes DEF IInv, Aligned, RowsConsistent
    <2>2. Begin(p, f.row) /\ row' = row /\ forms' = [forms EXCEPT ![p] = @ \ {f}]
      BY <1>8 DEF SaveAndSync
    <2>3. forms' \in [Payments -> SUBSET Forms] /\ \A q \in Payments : forms'[q] \subseteq forms[q]
      BY <2>2 DEF IInv, TypeOK
    <2> QED BY <2>1, <2>2, <2>3, BeginSafe
  <1>9. ASSUME Book PROVE IInv'
    BY <1>9, BookSafe
  <1>10. ASSUME ApproveBill PROVE IInv'
    BY <1>10, ContextSafe DEF ApproveBill, posting, local, IInv, TypeOK
  <1>11. ASSUME NEW methods \in SUBSET Methods, NEW a \in Accounts, ChangeAccounts(methods, a)
         PROVE  IInv'
    BY <1>11, ContextSafe DEF ChangeAccounts, Upset, posting, local, IInv, TypeOK
  <1>12. ASSUME UNCHANGED vars PROVE IInv'
    BY <1>12, ContextSafe DEF vars, posting, local, context, IInv, TypeOK
  <1>13. ASSUME NEW p \in Payments, NEW amount \in Amounts, NEW method \in Methods, AskToPay(p, amount, method)
         PROVE  IInv'
    <2>1. PICK order \in Orders : paying' = order /\ order.payment = p
      BY <1>13 DEF AskToPay, Orders
    <2> QED BY <1>13, <2>1, ContextSafe DEF AskToPay, posting, local, context, IInv, TypeOK
  <1>14. ASSUME DropPay PROVE IInv'
    BY <1>14, ContextSafe DEF DropPay, posting, local, context, IInv, TypeOK
  <1>15. ASSUME NEW p \in Payments, Review(p) \/ Drop(p) PROVE IInv'
    BY <1>15, GoesOn
  <1>16. ASSUME NEW p \in Payments, Send(p) PROVE IInv'
    BY <1>16, SendSafe
  <1> QED BY <1>1, <1>2, <1>3, <1>4, <1>5, <1>6, <1>7, <1>8, <1>9, <1>10, <1>11, <1>12,
             <1>13, <1>14, <1>15, <1>16 DEF Next

-----------------------------------------------------------------------------
\* What the steps do to requests and records; the journals are those of the earlier release.
LEMMA StepKinds ==
  ASSUME SettlementNone, IInv, [Next]_vars
  PROVE  /\ journal' = journal
         /\ \/ \E p \in Payments, r \in Rows : Send(p) /\ r = checking[p].row /\ RowConsistent(p, r)
            \/ Book
            \/ \E p \in Payments : SyncConfirmed(p) \/ SyncFailed(p)
            \/ UNCHANGED <<record, wire, ledger>>
  <1>1. ASSUME NEW p \in Payments, Send(p)
        PROVE  journal' = journal /\ \E r \in Rows : r = checking[p].row /\ RowConsistent(p, r)
    <2>1. checking[p] # None
      BY <1>1 DEF Send
    <2>2. checking[p].row \in Rows /\ RowConsistent(p, checking[p].row)
      BY <2>1, RowTypes DEF IInv, Aligned, RowsConsistent
    <2> QED BY <1>1, <2>2 DEF Send, context
  <1>2. ASSUME NEW p \in Payments, SyncConfirmed(p) \/ SyncFailed(p)
        PROVE  journal' = journal
    BY <1>2 DEF SyncConfirmed, SyncFailed, Answered, context
  <1>3. ASSUME NEW p \in Payments, NEW f \in forms[p], SaveForm(p, f) \/ SaveAndSync(p, f)
        PROVE  UNCHANGED <<journal, record, wire, ledger>>
    BY <1>3 DEF SaveForm, SaveAndSync, Begin, posting, context
  <1>4. ASSUME NEW p \in Payments, Sync(p) \/ Review(p) \/ Drop(p) \/ Crash(p)
        PROVE  UNCHANGED <<journal, record, wire, ledger>>
    BY <1>4 DEF Sync, Begin, Review, Drop, Crash, posting, context
  <1>5. ASSUME NEW p \in Payments, NEW amount \in Amounts, NEW method \in Methods,
               AskToPay(p, amount, method) \/ LoadForm(p, amount, method)
        PROVE  UNCHANGED <<journal, record, wire, ledger>>
    BY <1>5 DEF AskToPay, LoadForm, posting, context
  <1>6. ASSUME Book PROVE journal' = journal
    BY <1>6 DEF Book, context
  <1>7. ASSUME Pay \/ DropPay \/ ApproveBill \/ UNCHANGED vars
        PROVE  UNCHANGED <<journal, record, wire, ledger>>
    BY <1>7 DEF Pay, DropPay, ApproveBill, vars, posting, context
  <1>8. ASSUME NEW methods \in SUBSET Methods, NEW a \in Accounts, ChangeAccounts(methods, a)
        PROVE  UNCHANGED <<journal, record, wire, ledger>>
    BY <1>8 DEF ChangeAccounts, posting
  <1> QED BY <1>1, <1>2, <1>3, <1>4, <1>5, <1>6, <1>7, <1>8 DEF Next

\* The invariant holds: rows, forms, requests and sync records agree, for any number of
\* payments and forms.
THEOREM Invariance == Spec => [](TypeOK /\ Aligned)
  <1>1. Init => IInv
    BY Initially, SettlementAssumption, SettlementNone
  <1>2. IInv /\ [Next]_vars => IInv'
    BY Step, SettlementAssumption, SettlementNone
  <1> QED BY <1>1, <1>2, PTL DEF Spec, IInv

\* The variables have their types.
THEOREM TypeCorrect == Spec => []TypeOK
  BY Invariance, PTL

\* A payment that shows as posted is booked as it shows, whatever stale forms are saved
\* over it (sync_payment, save_and_sync_payment).
THEOREM Posted == Spec => []PostedIsBooked
  <1>1. TypeOK /\ Aligned => PostedIsBooked
    <2> SUFFICES ASSUME TypeOK, Aligned, NEW p \in Payments, row[p] # None,
                        row[p].status = "posted", row[p].record # Legacy
                 PROVE  \E j \in ledger : j[1] = <<p, row[p].method>> /\ j[2].amount = row[p].amount
      BY DEF PostedIsBooked
    <2>1. row[p] \in Rows /\ RowConsistent(p, row[p])
      BY RowTypes, SettlementNone DEF Aligned, RowsConsistent
    <2>2. row[p].record \in Methods
      BY <2>1 DEF Rows, RowConsistent
    <2>3. /\ row[p].method = row[p].record
          /\ record[<<p, row[p].record>>].body.amount = row[p].amount
          /\ <<<<p, row[p].record>>, record[<<p, row[p].record>>].body>> \in ledger
      BY <2>1, <2>2 DEF RowConsistent
    <2> QED BY <2>3
  <1> QED BY <1>1, Invariance, PTL

\* No journal of the earlier release is posted a second time: its payment is only ever sent
\* to be linked (_build_payment_payload, is_editable_after_sync).
THEOREM JournalsLinked == Spec => []JournalNotReplaced
  <1>1. Init => JournalNotReplaced
    BY DEF Init, JournalNotReplaced
  <1>2. (TypeOK /\ Aligned) /\ JournalNotReplaced /\ [Next]_vars => JournalNotReplaced'
    <2> SUFFICES ASSUME IInv, JournalNotReplaced, [Next]_vars, NEW j \in wire',
                        journal'[j[1][1]] # "none"
                 PROVE  j[2].existing
      BY DEF JournalNotReplaced, IInv
    <2>1. journal' = journal
      BY StepKinds, SettlementNone
    <2>2. CASE j \in wire
      BY <2>1, <2>2 DEF JournalNotReplaced
    <2>3. CASE j \notin wire
      <3>1. PICK p \in Payments, r \in Rows : Send(p) /\ r = checking[p].row /\ RowConsistent(p, r)
        BY <2>3, StepKinds, SettlementNone DEF Book, SyncConfirmed, SyncFailed, Answered
      <3>2. j = <<<<p, r.method>>, Body(p, r)>>
        BY <2>3, <3>1 DEF Send
      <3>3. journal[p] # "none" /\ r.method = Card
        BY <2>1, <3>1, <3>2 DEF RowConsistent
      <3>4. journal[p] = "known"
        BY <3>1, <3>3 DEF Send, Sendable, IInv, TypeOK
      <3> QED BY <3>2, <3>3, <3>4 DEF Body
    <2> QED BY <2>2, <2>3
  <1> QED BY <1>1, <1>2, Invariance, PTL DEF Spec

\* For each way to pay LedgerOS gets one request of a payment, unless a request died before
\* its attempt was on file (the payload hash of sync_payment).
THEOREM OneRequest == Spec => []SentOnceUnlessLost
  <1>1. TypeOK /\ Aligned => SentOnceUnlessLost
    <2> SUFFICES ASSUME TypeOK, Aligned, NEW i \in wire, NEW j \in wire, i[1] = j[1],
                        i[1] \notin lost
                 PROVE  i = j
      BY DEF SentOnceUnlessLost
    <2>1. i = <<i[1], i[2]>> /\ j = <<j[1], j[2]>> /\ i[1][1] \in Payments /\ i[1] \in Component
      BY DEF TypeOK, Requests, Component
    <2>2. ASSUME NEW k \in wire, k[1] = i[1]
          PROVE  \/ record[k[1]] # None /\ record[k[1]].body = k[2]
                 \/ /\ sending[k[1][1]] # None
                    /\ k = <<<<k[1][1], sending[k[1][1]].row.method>>, sending[k[1][1]].body>>
      BY <2>2 DEF Aligned, OnFile
    <2>3. ASSUME sending[i[1][1]] # None, i[1] = <<i[1][1], sending[i[1][1]].row.method>>,
                 record[i[1]] # None
          PROVE  record[i[1]].body = sending[i[1][1]].body
      BY <2>1, <2>3 DEF Aligned, OnFile
    <2> QED BY <2>1, <2>2, <2>3
  <1> QED BY <1>1, Invariance, PTL

-----------------------------------------------------------------------------
\* What the components have settled on, as IdempotentPosting sees it.
Settlements == [c \in Component |-> IF record[c] = None THEN None ELSE record[c].body]

\* A step of the payments is a step of IdempotentPosting, or none.
LEMMA PostingStep ==
  ASSUME IInv, [Next]_vars
  PROVE  [PaymentPosting!PostingNext]_(PaymentPosting!postingVars)
  <1> USE SettlementAssumption, SettlementNone DEF IInv, Aligned
  <1>1. ASSUME NEW p \in Payments, NEW r \in Rows, Send(p), r = checking[p].row
        PROVE  PaymentPosting!PostingNext
    <2> DEFINE c == <<p, r.method>>
               b == Body(p, r)
    <2>1. b \in Bodies /\ c \in Component
      BY BodyType, Components
    <2>2. wire' = wire \cup {<<c, b>>} /\ UNCHANGED <<record, ledger>>
      BY <1>1 DEF Send
    <2>3. Settlements[c] \in {None, b}
      BY <1>1, <2>1 DEF Send, Sendable, Settlements
    <2>4. {d \in Component : Confirmed(d)}' = {d \in Component : Confirmed(d)}
      BY <2>2 DEF Confirmed
    <2> HIDE DEF c, b
    <2> QED BY <2>1, <2>2, <2>3, <2>4 DEF PaymentPosting!PostingNext, PaymentPosting!Send, Settlements
  <1>2. CASE Book
    <2>1. PICK j \in wire : ledger' = ledger \cup {j}
      BY <1>2 DEF Book
    <2>2. UNCHANGED <<wire, record>>
      BY <1>2 DEF Book
    <2>3. {c \in Component : Confirmed(c)}' = {c \in Component : Confirmed(c)}
      BY <2>2 DEF Confirmed
    <2> QED BY <2>1, <2>2, <2>3 DEF PaymentPosting!PostingNext, PaymentPosting!Book
  <1>3. ASSUME NEW p \in Payments, SyncConfirmed(p) \/ SyncFailed(p)
        PROVE  PaymentPosting!PostingNext
    <2>0. PICK s \in Sends : s = sending[p] /\ s # None
      BY <1>3, RowTypes DEF SyncConfirmed, SyncFailed, Waiting
    <2> DEFINE c == <<p, s.row.method>>
               b == s.body
    <2>1. PICK outcome \in {"failed", "succeeded"} :
            /\ record' = [record EXCEPT ![c] = [status |-> outcome, body |-> b]]
            /\ outcome = "succeeded" => <<c, b>> \in ledger
            /\ UNCHANGED <<wire, ledger>>
      BY <1>3, <2>0 DEF SyncConfirmed, SyncFailed, Answered
    <2>2. c \in Component /\ b \in Bodies
      BY <2>0, RowTypes, Components
    <2>3. <<c, b>> \in wire /\ (record[c] # None => record[c].body = b)
      BY <2>0 DEF OnFile
    <2> HIDE DEF c, b
    <2>4. /\ record'[c] # None /\ record'[c].body = b /\ record'[c].status = outcome
          /\ \A d \in Component : d # c => record'[d] = record[d]
      <3>1. [status |-> outcome, body |-> b] \in Records
        BY <2>2 DEF Records
      <3> QED BY <2>1, <2>2, <3>1 DEF TypeOK
    <2> DEFINE choice == [d \in {c} |-> b]
    <2>5. choice \in [{c} -> Bodies] /\ choice[c] = b
      BY <2>2
    <2>6. \A d \in {c} : Settlements[d] \in {None, choice[d]} /\ <<d, choice[d]>> \in wire
      BY <2>2, <2>3, <2>5 DEF Settlements
    <2>7. Settlements' = [d \in Component |-> IF d \in {c} THEN choice[d] ELSE Settlements[d]]
      BY <2>4, <2>5 DEF Settlements
    <2>8. {d \in Component : Confirmed(d)}' \subseteq
            {d \in Component : Confirmed(d)} \cup {d \in {c} : <<d, Settlements'[d]>> \in ledger}
      BY <2>1, <2>2, <2>4, <2>5, <2>7 DEF Confirmed
    <2>9. {d \in Component : Confirmed(d)} \ {c} \subseteq {d \in Component : Confirmed(d)}'
      BY <2>4 DEF Confirmed
    <2>10. PaymentPosting!Settle({c})
      <3> HIDE DEF choice
      <3> QED BY <2>1, <2>5, <2>6, <2>7, <2>8, <2>9 DEF PaymentPosting!Settle, Settlements
    <2> QED BY <2>2, <2>10 DEF PaymentPosting!PostingNext
  <1>4. CASE UNCHANGED <<record, wire, ledger>>
    BY <1>4 DEF PaymentPosting!postingVars, Confirmed
  <1> QED BY <1>1, <1>2, <1>3, <1>4, StepKinds

\* The settlement of payments implements what is promised of all postings.
THEOREM Implements == Spec => PostsIdempotently
  <1>1. Init => PaymentPosting!PostingInit
    BY SettlementNone DEF Init, PaymentPosting!PostingInit, Confirmed
  <1>2. TypeOK /\ Aligned /\ [Next]_vars
          => [PaymentPosting!PostingNext]_(PaymentPosting!postingVars)
    BY PostingStep DEF IInv
  <1> QED BY <1>1, <1>2, Invariance, PTL DEF Spec, PostsIdempotently, PaymentPosting!PostingSpec
-----------------------------------------------------------------------------
\* What the payments of the bill come to.

\* Sums of requests may be taken over any function that gives their amounts.
LEMMA AppliedWithin ==
  ASSUME NEW T, NEW S, S \subseteq T, IsFiniteSet(S)
  PROVE  Applied(S) = SumFunctionOnSet([j \in T |-> j[2].amount], S)
  <1> DEFINE f == [j \in S |-> j[2].amount]
             g == [j \in T |-> j[2].amount]
  <1>1. \A j \in S : f[j] = g[j]
    OBVIOUS
  <1>2. Applied(S) = SumFunctionOnSet(f, S)
    BY DEF Applied
  <1> HIDE DEF f, g
  <1>3. SumFunctionOnSet(f, S) = SumFunctionOnSet(g, S)
    BY <1>1, SumSame
  <1> QED BY <1>2, <1>3 DEF g

\* A payment booked adds its amount to what is applied.
LEMMA AppliedGrows ==
  ASSUME NEW S, NEW j, IsFiniteSet(S), j \notin S, \A i \in S \cup {j} : i[2].amount \in Nat
  PROVE  Applied(S) \in Nat /\ Applied(S \cup {j}) = Applied(S) + j[2].amount
  <1> DEFINE T == S \cup {j}
             g == [i \in T |-> i[2].amount]
  <1>1. IsFiniteSet(T) /\ S \subseteq T /\ j \in T /\ T \ {j} = S
    BY FS_AddElement
  <1>2. \A i \in T : g[i] \in Nat /\ g[i] \in Int
    OBVIOUS
  <1>3. Applied(S) = SumFunctionOnSet(g, S) /\ Applied(T) = SumFunctionOnSet(g, T)
    BY <1>1, AppliedWithin
  <1>4. g[j] = j[2].amount
    OBVIOUS
  <1> HIDE DEF g, T
  <1>5. \A i \in T : g[i] \in Int
    BY <1>2
  <1>6. Split(g, T, j)
    BY <1>1, <1>5, SumSplit, Zenon
  <1>7. \A i \in S : g[i] \in Nat
    BY <1>1, <1>2
  <1>8. SumFunctionOnSet(g, S) \in Nat
    BY <1>7, SumType
  <1>9. SumFunctionOnSet(g, T) = g[j] + SumFunctionOnSet(g, S)
    BY <1>1, <1>6 DEF Split
  <1>10. Applied(T) = Applied(S) + j[2].amount
    BY <1>2, <1>3, <1>4, <1>8, <1>9
  <1> QED BY <1>3, <1>8, <1>10 DEF T

\* The amount of a journal is the same in every row, form and request in flight, and stays.
LEMMA AmountsKept ==
  ASSUME IInv, JournalAmounts, [Next]_vars, NEW p \in Payments, journal[p] # "none"
  PROVE  /\ journal' = journal
         /\ row[p] # None /\ row'[p].amount = row[p].amount
         /\ \A f \in forms'[p] : f.row.amount = row[p].amount
         /\ checking'[p] # None => checking'[p].row.amount = row[p].amount
         /\ sending'[p] # None => sending'[p].row.amount = row[p].amount
  <1> USE SettlementAssumption, SettlementNone DEF IInv, Aligned
  <1>a. /\ row \in [Payments -> Rows \cup {None}] /\ forms \in [Payments -> SUBSET Forms]
        /\ checking \in [Payments -> Checks \cup {None}]
        /\ sending \in [Payments -> Sends \cup {None}]
    BY DEF TypeOK
  <1>b. row[p] # None /\ row[p] \in Rows /\ RowConsistent(p, row[p])
    BY <1>a DEF RowsConsistent
  <1>c. /\ \A f \in forms[p] : f.row.amount = row[p].amount
        /\ checking[p] # None => checking[p].row.amount = row[p].amount
        /\ sending[p] # None => sending[p].row.amount = row[p].amount
    BY DEF JournalAmounts, Journals
  <1> DEFINE Kept == /\ row'[p].amount = row[p].amount
                     /\ \A f \in forms'[p] : f.row.amount = row[p].amount
                     /\ checking'[p] # None => checking'[p].row.amount = row[p].amount
                     /\ sending'[p] # None => sending'[p].row.amount = row[p].amount
  <1>0. journal' = journal
    BY StepKinds
  <1>1. ASSUME Pay PROVE Kept
    <2>1. /\ paying # None /\ paying.payment \in Payments
          /\ row' = [row EXCEPT ![paying.payment] = [amount |-> paying.amount,
                      method |-> paying.method, status |-> "draft", record |-> None]]
      BY <1>1 DEF Pay, TypeOK, Orders
    <2>2. paying.payment # p
      BY <1>b, <2>1 DEF RowsConsistent
    <2>3. row'[p] = row[p] /\ forms' = forms /\ checking' = checking /\ sending' = sending
      BY <1>1, <1>a, <2>1, <2>2 DEF Pay, posting
    <2> QED BY <1>c, <2>3
  <1>2. ASSUME NEW q \in Payments, NEW amount \in Amounts, NEW method \in Methods,
               LoadForm(q, amount, method)
        PROVE  Kept
    <2>1. row' = row /\ checking' = checking /\ sending' = sending
      BY <1>2 DEF LoadForm, posting
    <2>2. CASE q # p
      <3>1. forms'[p] = forms[p]
        BY <1>2, <1>a, <2>2 DEF LoadForm
      <3> QED BY <1>c, <2>1, <3>1
    <2>3. CASE q = p
      <3>1. amount = row[p].amount
        BY <1>2, <1>b, <2>3 DEF LoadForm, Editable, RowConsistent
      <3> DEFINE r == [row[p] EXCEPT !.amount = amount, !.method = method]
                 n == [row |-> r, settled |-> Settled(p, row[p])]
      <3>2. n.row.amount = row[p].amount
        BY <1>b, <3>1 DEF Rows
      <3>3. forms'[p] = forms[p] \cup {n}
        BY <1>2, <1>a, <2>3 DEF LoadForm
      <3> HIDE DEF n
      <3> QED BY <1>c, <2>1, <3>2, <3>3
    <2> QED BY <2>2, <2>3
  <1>3. ASSUME NEW q \in Payments, NEW r \in Rows, Begin(q, r), row' = row, forms'[p] \subseteq forms[p],
               q = p => r.amount = row[p].amount
        PROVE  Kept
    <2> DEFINE stage == IF Asked(r) THEN "asked" ELSE "attempted"
               seen == IF Asked(r) THEN ledger ELSE {}
               k == [row |-> r, stage |-> stage, seen |-> seen]
    <2>1. checking' = [checking EXCEPT ![q] = k] /\ sending' = sending
      BY <1>3 DEF Begin, posting
    <2>2. k.row = r
      OBVIOUS
    <2> HIDE DEF k
    <2>3. q = p => checking'[p].row = r
      BY <1>a, <2>1, <2>2
    <2>4. q # p => checking'[p] = checking[p]
      BY <1>a, <2>1
    <2> QED BY <1>3, <1>c, <2>1, <2>3, <2>4
  <1>4. ASSUME NEW q \in Payments, Sync(q)
        PROVE  Kept
    <2>1. Begin(q, row[q]) /\ row' = row /\ forms' = forms /\ row[q] \in Rows
      BY <1>4, <1>a DEF Sync, local
    <2> HIDE DEF Kept
    <2> QED BY <1>3, <2>1
  <1>5. ASSUME NEW q \in Payments, NEW f \in forms[q], SaveAndSync(q, f)
        PROVE  Kept
    <2>1. Begin(q, f.row) /\ row' = row /\ forms'[p] \subseteq forms[p] /\ f.row \in Rows
      BY <1>5, <1>a, RowTypes DEF SaveAndSync
    <2>2. q = p => f.row.amount = row[p].amount
      BY <1>c
    <2> HIDE DEF Kept
    <2> QED BY <1>3, <2>1, <2>2
  <1>12. ASSUME NEW q \in Payments, Review(q) \/ Drop(q)
         PROVE  Kept
    BY <1>12, <1>c, GoesOn
  <1>13. ASSUME NEW q \in Payments, Send(q)
         PROVE  Kept
    <2>1. PICK r \in Rows : r = checking[q].row /\ checking[q] # None
      BY <1>13, RowTypes DEF Send
    <2> DEFINE s == [row |-> r, body |-> Body(q, r)]
    <2>2. /\ row' = row /\ forms' = forms
          /\ checking' = [checking EXCEPT ![q] = None] /\ sending' = [sending EXCEPT ![q] = s]
      BY <1>13, <2>1 DEF Send, local
    <2>3. s.row = r
      OBVIOUS
    <2> HIDE DEF s
    <2>4. q = p => checking'[p] = None /\ sending'[p].row = r
      BY <1>a, <2>2, <2>3
    <2>5. q # p => checking'[p] = checking[p] /\ sending'[p] = sending[p]
      BY <1>a, <2>2
    <2> QED BY <1>c, <2>1, <2>2, <2>4, <2>5
  <1>6. ASSUME NEW q \in Payments, SyncConfirmed(q) \/ SyncFailed(q)
        PROVE  Kept
    <2>1. PICK outcome, status : Waiting(q) /\ Answered(q, outcome, status)
      BY <1>6 DEF SyncConfirmed, SyncFailed
    <2>2. forms' = forms /\ checking' = checking /\ sending' = [sending EXCEPT ![q] = None]
      BY <2>1 DEF Answered
    <2> DEFINE r == sending[q].row
               n == [r EXCEPT !.status = status, !.record = r.method]
    <2>3. r \in Rows
      BY <2>1, RowTypes DEF Waiting
    <2>4. n.amount = r.amount
      BY <2>3 DEF Rows
    <2>5. row' = [row EXCEPT ![q] = n]
      BY <2>1 DEF Answered
    <2>6. q = p => r.amount = row[p].amount
      BY <1>c, <2>1 DEF Waiting
    <2> HIDE DEF n, r
    <2>7. row'[p].amount = row[p].amount
      BY <1>a, <2>4, <2>5, <2>6
    <2>8. sending'[p] = sending[p] \/ sending'[p] = None
      BY <1>a, <2>2
    <2> QED BY <1>c, <2>2, <2>7, <2>8
  <1>7. ASSUME NEW q \in Payments, Crash(q)
        PROVE  Kept
    <2>1. row' = row /\ forms' = forms /\ checking' = checking /\ (sending'[p] = sending[p] \/ sending'[p] = None)
      BY <1>7, <1>a DEF Crash, local
    <2> QED BY <1>c, <2>1
  <1>8. ASSUME NEW q \in Payments, NEW f \in forms[q], SaveForm(q, f)
        PROVE  Kept
    <2>1. checking' = checking /\ sending' = sending /\ forms'[p] \subseteq forms[p]
      BY <1>8, <1>a DEF SaveForm, posting
    <2>2. f.row \in Rows
      BY RowTypes
    <2> DEFINE n == IF f.settled THEN f.row ELSE Unsent(f.row)
    <2>3. n.amount = f.row.amount
      BY <2>2 DEF Unsent, Rows
    <2>4. row' = [row EXCEPT ![q] = n]
      BY <1>8 DEF SaveForm
    <2>5. q = p => f.row.amount = row[p].amount
      BY <1>c
    <2> HIDE DEF n
    <2>6. row'[p].amount = row[p].amount
      BY <1>a, <2>3, <2>4, <2>5
    <2> QED BY <1>c, <2>1, <2>6
  <1>9. ASSUME Book \/ ApproveBill \/ DropPay \/ UNCHANGED vars
        PROVE  Kept
    <2>1. row' = row /\ forms' = forms /\ checking' = checking /\ sending' = sending
      BY <1>9 DEF Book, ApproveBill, DropPay, vars, local, posting
    <2> QED BY <1>c, <2>1
  <1>10. ASSUME NEW methods \in SUBSET Methods, NEW a \in Accounts, ChangeAccounts(methods, a)
         PROVE  Kept
    <2>1. row' = row /\ forms' = forms /\ checking' = checking /\ sending' = sending
      BY <1>10 DEF ChangeAccounts, local, posting
    <2> QED BY <1>c, <2>1
  <1>14. ASSUME NEW q \in Payments, NEW amount \in Amounts, NEW method \in Methods,
                AskToPay(q, amount, method)
         PROVE  Kept
    <2>1. row' = row /\ forms' = forms /\ checking' = checking /\ sending' = sending
      BY <1>14 DEF AskToPay, local, posting
    <2> QED BY <1>c, <2>1
  <1> HIDE DEF Kept
  <1>11. Kept
    BY <1>1, <1>2, <1>4, <1>5, <1>6, <1>7, <1>8, <1>9, <1>10, <1>12, <1>13, <1>14 DEF Next
  <1> QED BY <1>0, <1>b, <1>11 DEF Kept

\* What the journals come to never changes.
LEMMA JournalledKept ==
  ASSUME IInv, JournalAmounts, [Next]_vars
  PROVE  Journals' = Journals /\ Journalled' = Journalled
  <1> USE SettlementAssumption, SettlementNone
  <1>1. journal' = journal
    BY StepKinds
  <1>2. Journals' = Journals /\ Journals \subseteq Payments
    BY <1>1 DEF Journals
  <1>3. IsFiniteSet(Journals)
    BY <1>2, FS_Subset
  <1> DEFINE f == [p \in Journals |-> row[p].amount]
             g == [p \in Journals |-> row'[p].amount]
  <1>4. \A p \in Journals : f[p] = g[p]
    BY <1>1, AmountsKept DEF Journals
  <1>5. Journalled = SumFunctionOnSet(f, Journals)
    BY DEF Journalled
  <1>6. Journalled' = SumFunctionOnSet(g, Journals)
    BY <1>2 DEF Journalled
  <1> HIDE DEF f, g
  <1>7. SumFunctionOnSet(f, Journals) = SumFunctionOnSet(g, Journals)
    BY <1>3, <1>4, SumSame
  <1> QED BY <1>2, <1>5, <1>6, <1>7

\* The check of a payment is as before, or one that begins, or it has gone on.
CheckStep(q) ==
  \/ checking'[q] = checking[q]
  \/ \E r \in Rows : /\ Begin(q, r) /\ checking'[q].row = r
                     /\ checking'[q].stage = IF Asked(r) THEN "asked" ELSE "attempted"
                     /\ Asked(r) => checking'[q].seen = ledger
  \/ /\ Review(q) /\ checking[q].stage = "asked"
     /\ checking'[q].row = checking[q].row /\ checking'[q].seen = checking[q].seen
     /\ checking'[q].stage = "reviewed"

\* No step changes the check of a row in any other way, but to end it.
LEMMA CheckKinds ==
  ASSUME SettlementNone, IInv, [Next]_vars, NEW q \in Payments, checking'[q] # None
  PROVE  CheckStep(q)
  <1>a. checking \in [Payments -> Checks \cup {None}]
    BY DEF IInv, TypeOK
  <1>1. ASSUME NEW p \in Payments, NEW r \in Rows, Begin(p, r)
        PROVE  CheckStep(q)
    <2> DEFINE k == [row |-> r, stage |-> IF Asked(r) THEN "asked" ELSE "attempted",
                     seen |-> IF Asked(r) THEN ledger ELSE {}]
    <2>1. checking' = [checking EXCEPT ![p] = k]
      BY <1>1 DEF Begin
    <2>2. /\ k.row = r /\ k.stage = IF Asked(r) THEN "asked" ELSE "attempted"
          /\ Asked(r) => k.seen = ledger
      OBVIOUS
    <2> HIDE DEF k
    <2>3. CASE p = q
      <3>1. checking'[q] = k
        BY <1>a, <2>1, <2>3
      <3>2. Begin(q, r)
        BY <1>1, <2>3
      <3> QED BY <2>2, <3>1, <3>2 DEF CheckStep
    <2>4. CASE p # q
      BY <1>a, <2>1, <2>4 DEF CheckStep
    <2> QED BY <2>3, <2>4
  <1>2. ASSUME NEW p \in Payments, Sync(p)
        PROVE  CheckStep(q)
    <2>1. row[p] \in Rows /\ Begin(p, row[p])
      BY <1>2, RowTypes DEF Sync, IInv
    <2> QED BY <1>1, <2>1
  <1>3. ASSUME NEW p \in Payments, NEW f \in forms[p], SaveAndSync(p, f)
        PROVE  CheckStep(q)
    <2>1. f.row \in Rows /\ Begin(p, f.row)
      BY <1>3, RowTypes DEF SaveAndSync, IInv
    <2> QED BY <1>1, <2>1
  <1>4. ASSUME NEW p \in Payments, Review(p)
        PROVE  CheckStep(q)
    <2>1. PICK k \in Checks : k = checking[p] /\ k.stage = "asked"
      BY <1>4, RowTypes DEF Review, IInv
    <2>2. checking' = [checking EXCEPT ![p] = [k EXCEPT !.stage = "reviewed"]]
      BY <1>4, <2>1 DEF Review
    <2>3. CASE p = q
      BY <1>4, <1>a, <2>1, <2>2, <2>3 DEF Checks, CheckStep
    <2>4. CASE p # q
      BY <1>a, <2>2, <2>4 DEF CheckStep
    <2> QED BY <2>3, <2>4
  <1>5. ASSUME NEW p \in Payments, Send(p) \/ Drop(p)
        PROVE  CheckStep(q)
    <2>1. checking' = [checking EXCEPT ![p] = None]
      BY <1>5 DEF Send, Drop
    <2> QED BY <1>a, <2>1 DEF CheckStep
  <1>6. ASSUME NEW p \in Payments, SyncConfirmed(p) \/ SyncFailed(p) \/ Crash(p)
        PROVE  CheckStep(q)
    BY <1>6 DEF SyncConfirmed, SyncFailed, Answered, Crash, CheckStep
  <1>7. ASSUME NEW p \in Payments, NEW f \in forms[p], SaveForm(p, f)
        PROVE  CheckStep(q)
    BY <1>7 DEF SaveForm, CheckStep
  <1>8. ASSUME NEW p \in Payments, NEW amount \in Amounts, NEW method \in Methods,
               AskToPay(p, amount, method) \/ LoadForm(p, amount, method)
        PROVE  CheckStep(q)
    BY <1>8 DEF AskToPay, LoadForm, CheckStep
  <1>9. ASSUME NEW methods \in SUBSET Methods, NEW a \in Accounts, ChangeAccounts(methods, a)
        PROVE  CheckStep(q)
    BY <1>9 DEF ChangeAccounts, CheckStep
  <1>10. ASSUME Pay \/ DropPay \/ Book \/ ApproveBill \/ UNCHANGED vars
         PROVE  CheckStep(q)
    BY <1>10 DEF Pay, DropPay, Book, ApproveBill, vars, CheckStep
  <1> QED BY <1>2, <1>3, <1>4, <1>5, <1>6, <1>7, <1>8, <1>9, <1>10 DEF Next

\* An approval stands, and what LedgerOS has booked stays booked.
LEMMA Monotone ==
  ASSUME SettlementNone, IInv, [Next]_vars
  PROVE  (approved => approved') /\ ledger \subseteq ledger'
  <1>1. ledger \subseteq ledger'
    BY StepKinds DEF Send, Book, SyncConfirmed, SyncFailed, Answered
  <1>2. ASSUME NEW p \in Payments PROVE Sync(p) \/ Review(p) \/ Send(p) \/ Drop(p) => approved' = approved
    BY DEF Sync, Begin, Review, Send, Drop, context
  <1>3. ASSUME NEW p \in Payments PROVE SyncConfirmed(p) \/ SyncFailed(p) \/ Crash(p) => approved' = approved
    BY DEF SyncConfirmed, SyncFailed, Answered, Crash, context
  <1>4. ASSUME NEW p \in Payments, NEW f \in forms[p]
        PROVE  SaveForm(p, f) \/ SaveAndSync(p, f) => approved' = approved
    BY DEF SaveForm, SaveAndSync, Begin, context
  <1>5. ASSUME NEW p \in Payments, NEW amount \in Amounts, NEW method \in Methods
        PROVE  AskToPay(p, amount, method) \/ LoadForm(p, amount, method) => approved' = approved
    BY DEF AskToPay, LoadForm, context
  <1>6. \A methods, a : ChangeAccounts(methods, a) => approved' = approved
    BY DEF ChangeAccounts
  <1>7. Pay \/ DropPay \/ Book \/ ApproveBill \/ UNCHANGED vars => (approved => approved')
    BY DEF Pay, DropPay, Book, ApproveBill, vars, context
  <1> QED BY <1>1, <1>2, <1>3, <1>4, <1>5, <1>6, <1>7 DEF Next

\* A row that was never attempted goes on with what LedgerOS said under its lock.
LEMMA AskedStep ==
  ASSUME IInv, AskedFirst, [Next]_vars
  PROVE  AskedFirst'
  <1> USE SettlementAssumption, SettlementNone
  <1> SUFFICES ASSUME NEW p \in Payments, checking'[p] # None
               PROVE  \/ checking'[p].stage = "attempted" /\ checking'[p].row.record # None
                      \/ /\ checking'[p].stage # "attempted" /\ approved' /\ checking'[p].seen \subseteq ledger'
                         /\ checking'[p].row.amount <= Unpaid(checking'[p].seen)
    BY DEF AskedFirst, Unpaid, Applied
  <1>1. (approved => approved') /\ ledger \subseteq ledger'
    BY Monotone
  <1>2. CASE checking'[p] = checking[p]
    BY <1>1, <1>2 DEF AskedFirst
  <1>3. ASSUME NEW r \in Rows, Begin(p, r), checking'[p].row = r,
               checking'[p].stage = IF Asked(r) THEN "asked" ELSE "attempted",
               Asked(r) => checking'[p].seen = ledger
        PROVE  \/ checking'[p].stage = "attempted" /\ checking'[p].row.record # None
               \/ /\ checking'[p].stage # "attempted" /\ approved' /\ checking'[p].seen \subseteq ledger'
                  /\ checking'[p].row.amount <= Unpaid(checking'[p].seen)
    <2>1. CASE Asked(r)
      <3>1. approved /\ r.amount <= Unpaid(ledger) /\ checking'[p].stage = "asked"
        BY <1>3, <2>1 DEF Begin, Balance
      <3> QED BY <1>1, <1>3, <2>1, <3>1
    <2>2. CASE ~Asked(r)
      BY <1>3, <2>2 DEF Asked
    <2> QED BY <2>1, <2>2
  <1>4. CASE /\ Review(p) /\ checking[p].stage = "asked"
             /\ checking'[p].row = checking[p].row /\ checking'[p].seen = checking[p].seen
             /\ checking'[p].stage = "reviewed"
    <2>1. checking[p] # None
      BY <1>4 DEF Review
    <2> QED BY <1>1, <1>4, <2>1 DEF AskedFirst
  <1> QED BY <1>2, <1>3, <1>4, CheckKinds DEF CheckStep

\* Journals stay linked.
LEMMA LinksKept ==
  ASSUME IInv, JournalAmounts, AllLinked, [Next]_vars
  PROVE  AllLinked'
  <1> USE SettlementAssumption, SettlementNone
  <1> SUFFICES ASSUME NEW p \in Payments, journal'[p] # "none"
               PROVE  \E i \in ledger' : i[1] = <<p, Card>> /\ i[2].amount = row'[p].amount
    BY DEF AllLinked, Journals
  <1>1. journal' = journal
    BY StepKinds
  <1>2. row'[p].amount = row[p].amount
    BY <1>1, AmountsKept
  <1> QED BY <1>1, <1>2, Monotone DEF AllLinked, Journals

\* Journals that need no review are linked.
LEMMA ReviewedLinked ==
  ASSUME IInv, ~NeedsReview
  PROVE  AllLinked
  <1> USE SettlementAssumption, SettlementNone DEF IInv, Aligned
  <1> SUFFICES ASSUME NEW p \in Payments, journal[p] # "none"
               PROVE  \E i \in ledger : i[1] = <<p, Card>> /\ i[2].amount = row[p].amount
    BY DEF AllLinked, Journals
  <1>1. Linked(p)
    BY DEF NeedsReview
  <1>2. row[p].record = Card /\ <<<<p, Card>>, record[<<p, Card>>].body>> \in ledger
    <2>1. <<p, Card>> \in Component
      BY DEF Component, Methods
    <2> QED BY <1>1, <2>1 DEF Linked, OnFile
  <1>3. record[<<p, Card>>].body.amount = row[p].amount
    BY <1>2 DEF RowsConsistent, RowConsistent, Methods
  <1> QED BY <1>2, <1>3

\* A request leaves under a new key only after a review, unless it links a journal.
LEMMA NewRequest ==
  ASSUME IInv, AskedFirst, [Next]_vars, NEW j \in wire', j \notin wire
  PROVE  \E q \in Payments, r \in Rows :
           /\ r = checking[q].row /\ j = <<<<q, r.method>>, Body(q, r)>> /\ journal' = journal
           /\ \/ journal[q] # "none" /\ Body(q, r).existing
              \/ /\ checking[q] # None /\ checking[q].stage = "reviewed" /\ approved
                 /\ checking[q].seen \subseteq ledger /\ r.amount <= Unpaid(checking[q].seen)
  <1> USE SettlementAssumption, SettlementNone
  <1>1. journal' = journal
    BY StepKinds
  <1>2. PICK q \in Payments, r \in Rows : Send(q) /\ r = checking[q].row /\ RowConsistent(q, r)
    BY StepKinds DEF Book, SyncConfirmed, SyncFailed, Answered
  <1>3. j = <<<<q, r.method>>, Body(q, r)>> /\ Sendable(q, r)
        /\ checking[q] # None /\ checking[q].stage # "asked" /\ checking[q] \in Checks
    BY <1>2, RowTypes DEF Send, IInv
  <1>4. CASE checking[q].stage = "reviewed"
    BY <1>1, <1>2, <1>3, <1>4 DEF AskedFirst
  <1>5. CASE r.record = Legacy
    <2>1. journal[q] = "known" /\ r.method = Card
      BY <1>2, <1>3, <1>5 DEF RowConsistent, Sendable, IInv, TypeOK
    <2> QED BY <1>1, <1>2, <1>3, <2>1 DEF Body
  <1>6. CASE r.record \in Methods
    <2>1. record[<<q, r.method>>] # None /\ record[<<q, r.method>>].body = Body(q, r)
      BY <1>2, <1>3, <1>6 DEF RowConsistent, Sendable
    <2>2. <<q, r.method>> \in Component
      BY Components DEF Rows
    <2>3. <<<<q, r.method>>, Body(q, r)>> \in wire
      BY <2>1, <2>2 DEF IInv, Aligned, OnFile
    <2> QED BY <1>3, <2>3
  <1>7. checking[q].stage = "attempted" => r.record # None
    BY <1>2, <1>3 DEF AskedFirst
  <1>8. r.record \in Methods \cup {Legacy, None} /\ checking[q].stage \in {"attempted", "asked", "reviewed"}
    BY <1>3 DEF Rows, Checks
  <1> QED BY <1>3, <1>4, <1>5, <1>6, <1>7, <1>8

\* A payment without a journal is found good, and leaves, only once each journal is linked.
LEMMA LinkedStep ==
  ASSUME IInv, JournalAmounts, LinkedFirst, AskedFirst, [Next]_vars
  PROVE  LinkedFirst'
  <1> USE SettlementAssumption, SettlementNone
  <1> SUFFICES ASSUME \/ \E j \in wire' : journal'[j[1][1]] = "none"
                      \/ \E p \in Payments : checking'[p] # None /\ checking'[p].stage = "reviewed"
               PROVE  AllLinked
    BY LinksKept DEF LinkedFirst
  <1>1. ASSUME NEW j \in wire', journal'[j[1][1]] = "none" PROVE AllLinked
    <2>1. journal' = journal
      BY StepKinds
    <2>2. CASE j \in wire
      BY <1>1, <2>1, <2>2 DEF LinkedFirst
    <2>3. CASE j \notin wire
      <3>1. PICK q \in Payments, r \in Rows :
              /\ j = <<<<q, r.method>>, Body(q, r)>>
              /\ \/ journal[q] # "none"
                 \/ checking[q] # None /\ checking[q].stage = "reviewed"
        BY <2>3, NewRequest
      <3>2. journal[q] = "none"
        BY <1>1, <2>1, <3>1
      <3> QED BY <3>1, <3>2 DEF LinkedFirst
    <2> QED BY <2>2, <2>3
  <1>2. ASSUME NEW p \in Payments, checking'[p] # None, checking'[p].stage = "reviewed" PROVE AllLinked
    <2>1. CASE checking'[p] = checking[p]
      BY <1>2, <2>1 DEF LinkedFirst
    <2>2. CASE Review(p)
      BY <2>2, ReviewedLinked DEF Review
    <2>3. ASSUME NEW r, checking'[p].stage = IF Asked(r) THEN "asked" ELSE "attempted" PROVE FALSE
      BY <1>2, <2>3
    <2> QED BY <1>2, <2>1, <2>2, <2>3, CheckKinds DEF CheckStep
  <1> QED BY <1>1, <1>2

\* LedgerOS books what the bill has left, so it never books more than the bill.
LEMMA WithinStep ==
  ASSUME IInv, JournalAmounts, WithinBill, [Next]_vars
  PROVE  WithinBill'
  <1> USE SettlementAssumption, SettlementNone
  <1>1. Journalled' <= BillAmount
    BY JournalledKept DEF WithinBill
  <1>2. ledger' = ledger \/ Book
    BY StepKinds DEF Send, SyncConfirmed, SyncFailed, Answered
  <1>3. CASE ledger' = ledger
    <2>1. Applied(ledger') = Applied(ledger)
      BY <1>3
    <2>2. Applied(ledger)' = Applied(ledger')
      BY DEF Applied
    <2> QED BY <1>1, <1>3, <2>1, <2>2 DEF WithinBill
  <1>4. CASE Book
    <2>1. PICK j \in wire \ ledger : j[2].amount <= Balance /\ ledger' = ledger \cup {j}
      BY <1>4 DEF Book
    <2>2. \A i \in wire : i[2].amount \in Nat
      BY DEF IInv, TypeOK, Requests, Bodies
    <2>3. \A i \in ledger \cup {j} : i[2].amount \in Nat
      BY <2>2 DEF IInv, TypeOK
    <2>4. Applied(ledger) \in Nat /\ Applied(ledger \cup {j}) = Applied(ledger) + j[2].amount
      BY <2>3, AppliedGrows DEF WithinBill
    <2>5. Applied(ledger \cup {j}) <= BillAmount
      BY <2>1, <2>2, <2>4 DEF Balance, Unpaid
    <2>6. IsFiniteSet(ledger \cup {j})
      BY FS_AddElement DEF WithinBill
    <2>7. Applied(ledger)' = Applied(ledger')
      BY DEF Applied
    <2> QED BY <1>1, <2>1, <2>5, <2>6, <2>7 DEF WithinBill
  <1> QED BY <1>2, <1>3, <1>4

\* The whole invariant holds: no journal's amount changes, all are linked before the bill is
\* paid otherwise, and LedgerOS keeps to the bill (bill_payment_blocker, sync_payment).
THEOREM Consistency == Spec => []Consistent
  <1> USE SettlementAssumption, SettlementNone
  <1> DEFINE Inv == JournalAmounts /\ LinkedFirst /\ AskedFirst /\ WithinBill
  <1>1. Init => Inv
    <2> SUFFICES ASSUME Init PROVE Inv
      OBVIOUS
    <2>1. JournalAmounts /\ LinkedFirst /\ AskedFirst
      <3>1. \A p \in Payments : forms[p] = {} /\ checking[p] = None /\ sending[p] = None
        BY DEF Init
      <3>2. wire = {} /\ Journals \subseteq Payments
        BY DEF Init, Journals
      <3> QED BY <3>1, <3>2 DEF JournalAmounts, LinkedFirst, AskedFirst
    <2>2. ledger = {} /\ Journalled <= BillAmount
      BY DEF Init
    <2>3. IsFiniteSet(ledger)
      BY <2>2, FS_EmptySet
    <2>4. Applied(ledger) = 0
      BY <2>2, SumOfNothing DEF Applied
    <2> QED BY <2>1, <2>2, <2>3, <2>4 DEF WithinBill
  <1>2. TypeOK /\ Aligned /\ Inv /\ [Next]_vars => Inv'
    <2> SUFFICES ASSUME IInv, Inv, [Next]_vars PROVE Inv'
      BY DEF IInv
    <2>1. JournalAmounts'
      <3>1. \A p \in Journals : /\ \A f \in forms'[p] : f.row.amount = row'[p].amount
                                /\ checking'[p] # None => checking'[p].row.amount = row'[p].amount
                                /\ sending'[p] # None => sending'[p].row.amount = row'[p].amount
        BY AmountsKept DEF Journals
      <3> QED BY <3>1, JournalledKept DEF JournalAmounts
    <2> QED BY <2>1, LinkedStep, AskedStep, WithinStep
  <1> HIDE DEF Inv
  <1>3. Aligned /\ Inv => Consistent
    BY DEF Inv, Consistent
  <1> QED BY <1>1, <1>2, <1>3, Invariance, PTL DEF Spec

\* No request leaves under a new key unless the bill is approved, and the amount is within the
\* balance that LedgerOS gave under this row's lock, or the request links a journal; payments
\* of other rows may have been booked since it was asked (sync_payment).
THEOREM CheckedFirst == Spec => NewRequestChecked
  <1> USE SettlementAssumption, SettlementNone
  <1> DEFINE Claim == \A j \in wire' \ wire :
                        \/ j[2].existing
                        \/ LET check == checking[j[1][1]] IN
                           /\ approved /\ check.stage = "reviewed"
                           /\ check.seen \subseteq ledger /\ j[2].amount <= Unpaid(check.seen)
  <1>1. TypeOK /\ Consistent /\ [Next]_vars => [Claim]_vars
    <2> SUFFICES ASSUME IInv, AskedFirst, [Next]_vars, NEW j \in wire' \ wire
                 PROVE  \/ j[2].existing
                        \/ /\ approved /\ checking[j[1][1]].stage = "reviewed"
                           /\ checking[j[1][1]].seen \subseteq ledger
                           /\ j[2].amount <= Unpaid(checking[j[1][1]].seen)
      BY DEF IInv, Consistent
    <2>1. PICK q \in Payments, r \in Rows :
            /\ j = <<<<q, r.method>>, Body(q, r)>>
            /\ \/ Body(q, r).existing
               \/ /\ checking[q].stage = "reviewed" /\ approved
                  /\ checking[q].seen \subseteq ledger /\ r.amount <= Unpaid(checking[q].seen)
      BY NewRequest
    <2>2. j[1][1] = q /\ j[2] = Body(q, r) /\ Body(q, r).amount = r.amount
      BY <2>1 DEF Body
    <2> QED BY <2>1, <2>2
  <1> QED BY <1>1, TypeCorrect, Consistency, PTL DEF Spec, NewRequestChecked

\* A vendor bill is not paid twice: card journals of the earlier release and the payments made
\* since never come to more than the bill, for any number of payments and journals.
THEOREM NotPaidTwice == Spec => []BillNotPaidTwice
  <1> USE SettlementAssumption, SettlementNone
  <1>1. TypeOK /\ Consistent => BillNotPaidTwice
    <2> SUFFICES ASSUME TypeOK, Consistent PROVE BillNotPaidTwice
      OBVIOUS
    <2> DEFINE New == {j \in ledger : journal[j[1][1]] = "none"}
               am == [j \in ledger |-> j[2].amount]
    <2>1. IsFiniteSet(ledger) /\ Applied(ledger) <= BillAmount /\ Journalled <= BillAmount
      BY DEF Consistent, WithinBill
    <2>2. New \subseteq ledger /\ IsFiniteSet(New)
      BY <2>1, FS_Subset
    <2>3. \A j \in ledger : am[j] \in Nat /\ am[j] \in Int
      <3>1. \A j \in ledger : j[2].amount \in Amounts
        BY DEF TypeOK, Requests, Bodies
      <3>2. \A j \in ledger : j[2].amount \in Nat
        BY <3>1
      <3> QED BY <3>2
    <2>4. Applied(New) = SumFunctionOnSet(am, New) /\ Applied(ledger) = SumFunctionOnSet(am, ledger)
      BY <2>1, <2>2, AppliedWithin
    <2>5. IsFiniteSet(Journals)
      BY FS_Subset DEF Journals
    <2>6. \A p \in Journals : row[p].amount \in Nat
      BY DEF Journals, TypeOK, Consistent, Aligned, RowsConsistent, Rows
    <2>7. CASE New = {}
      <3>1. Applied(New) = 0
        BY <2>4, <2>7, SumOfNothing
      <3>2. Journalled \in Nat
        <4> DEFINE f == [p \in Journals |-> row[p].amount]
        <4>1. \A p \in Journals : f[p] \in Nat
          BY <2>6
        <4> HIDE DEF f
        <4>2. SumFunctionOnSet(f, Journals) \in Nat
          BY <2>5, <4>1, SumType
        <4> QED BY <4>2 DEF f, Journalled
      <3> QED BY <2>1, <3>1, <3>2 DEF BillNotPaidTwice
    <2>8. CASE New # {}
      <3>1. \A p \in Journals : \E j \in ledger : j[1] = <<p, Card>> /\ j[2].amount = row[p].amount
        BY <2>8 DEF Consistent, LinkedFirst, AllLinked, TypeOK
      <3> DEFINE link == [p \in Journals |-> CHOOSE j \in ledger : j[1] = <<p, Card>> /\ j[2].amount = row[p].amount]
                 owed == [p \in Journals |-> row[p].amount]
      <3>2. \A p \in Journals : /\ link[p] \in ledger /\ link[p][1] = <<p, Card>>
                                /\ link[p][2].amount = row[p].amount
        BY <3>1
      <3>3. \A p \in Journals : owed[p] \in Int /\ am[link[p]] = owed[p]
        <4>1. \A p \in Journals : owed[p] = row[p].amount
          OBVIOUS
        <4>2. \A j \in ledger : am[j] = j[2].amount
          OBVIOUS
        <4> HIDE DEF link, owed, am
        <4> QED BY <2>6, <3>2, <4>1, <4>2
      <3>4. \A p \in Journals, q \in Journals : link[p] = link[q] => p = q
        <4> TAKE p \in Journals, q \in Journals
        <4>1. link[p][1] = <<p, Card>> /\ link[q][1] = <<q, Card>>
          BY <3>2
        <4> HIDE DEF link
        <4> QED BY <4>1
      <3>5. Journalled = SumFunctionOnSet(owed, Journals)
        BY DEF Journalled
      <3>6. \A p \in Journals : link[p] \in ledger /\ link[p] \notin New
        <4> HIDE DEF link
        <4>1. \A p \in Journals : journal[p] # "none" /\ link[p][1][1] = p
          BY <3>2 DEF Journals
        <4> QED BY <3>2, <4>1
      <3> HIDE DEF link, owed, am, New
      <3> DEFINE Linking == ImageOf(link, Journals)
      <3>7. Linking \subseteq ledger /\ New \cap Linking = {}
        BY <3>6 DEF ImageOf
      <3>8. SumFunctionOnSet(am, Linking) = SumFunctionOnSet(owed, Journals)
        BY <2>5, <3>3, <3>4, SumRenamed
      <3>9. IsFiniteSet(Linking)
        BY <2>5, FiniteImage
      <3> HIDE DEF Linking
      <3>10. New \cup Linking \subseteq ledger
        BY <2>2, <3>7
      <3>11. \A j \in New \cup Linking : am[j] \in Int
        BY <2>3, <3>10
      <3>12. SumFunctionOnSet(am, New \cup Linking) = SumFunctionOnSet(am, New) + SumFunctionOnSet(am, Linking)
        BY <2>2, <3>7, <3>9, <3>11, SumUnion
      <3>13. \A j \in ledger : am[j] \in Nat
        BY <2>3
      <3>14. SumFunctionOnSet(am, New \cup Linking) <= SumFunctionOnSet(am, ledger)
        BY <2>1, <3>10, <3>13, SumOfPart
      <3>15. Applied(New) + Journalled <= Applied(ledger)
        BY <2>4, <3>5, <3>8, <3>12, <3>14
      <3>16. Applied(New) \in Nat /\ Applied(ledger) \in Nat /\ Journalled \in Nat
        <4>1. \A j \in New : am[j] \in Nat
          BY <2>2, <2>3
        <4>2. \A p \in Journals : owed[p] \in Nat
          BY <2>6 DEF owed
        <4>3. SumFunctionOnSet(am, New) \in Nat
          BY <2>2, <4>1, SumType
        <4>4. SumFunctionOnSet(am, ledger) \in Nat
          BY <2>1, <3>13, SumType
        <4>5. SumFunctionOnSet(owed, Journals) \in Nat
          BY <2>5, <4>2, SumType
        <4> QED BY <2>4, <3>5, <4>3, <4>4, <4>5
      <3>17. Applied(New) + Journalled <= BillAmount
        BY <2>1, <3>15, <3>16
      <3> QED BY <3>17 DEF BillNotPaidTwice, New
    <2> QED BY <2>7, <2>8
  <1> QED BY <1>1, TypeCorrect, Consistency, PTL
=============================================================================
