------------------------------ MODULE Reports ------------------------------
(***************************************************************************)
(* The reports of one property, one owner and one tenant: sums over the    *)
(* rows that the other components leave, as they are confirmed by LedgerOS *)
(* or voided one after another, and over the leases of one unit, whose     *)
(* forms may be saved again at any time.  Amounts are in cents, dates are  *)
(* those of the calendar, <<year, month, day>>.                            *)
(***************************************************************************)
EXTENDS Integers, FiniteSets, Functions

CONSTANTS
  Ids,        \* slots for rows
  Dates,      \* dates of rows
  Amounts,    \* amounts of rows; those of receipts and owner activity are not negative
  Leases,     \* what forms say of leases: name, start, end or None, monthly rent, status
  Opening,    \* the leases that stand at first
  None

LeaseStatuses == {"draft", "active", "ended", "cancelled"}
LeaseNames    == {l.name : l \in Leases}

\* Dates in the order of the calendar.
Before(d, e) ==
  \/ d[1] < e[1]
  \/ d[1] = e[1] /\ d[2] < e[2]
  \/ d[1] = e[1] /\ d[2] = e[2] /\ d[3] < e[3]
Within(d, period) == ~Before(d, period.start) /\ ~Before(period.end, d)

\* Days of a month (datetime.date).
Length(y, m) ==
  CASE m \in {4, 6, 9, 11} -> 30
    [] m = 2 -> IF y % 4 = 0 /\ (y % 100 # 0 \/ y % 400 = 0) THEN 29 ELSE 28
    [] OTHER -> 31

\* The days of the calendar (datetime.date).
MaxYear == 9999
Days == {d \in (1..MaxYear) \X (1..12) \X (1..31) : d[3] <= Length(d[1], d[2])}

ASSUME BookAssumption ==
  /\ IsFiniteSet(Ids) /\ IsFiniteSet(Leases)
  /\ Amounts \subseteq Int
  /\ Dates \subseteq Days
  /\ \A l \in Leases :
       /\ l.start \in Days /\ l.rent \in Int
       /\ l.end # None => l.end \in Days
       /\ l.status \in LeaseStatuses
  /\ Opening \subseteq Leases
  /\ \A l, m \in Opening : l.name = m.name => l = m

VARIABLES
  book,       \* by slot: a row of one of the kinds below, or None
  leases      \* the leases as they stand, of each name one at most

vars == <<book, leases>>
-----------------------------------------------------------------------------
\* timedelta(days=1), of the first of a month or of any other day.
DayBefore(d) ==
  CASE d[3] > 1              -> <<d[1], d[2], d[3] - 1>>
    [] d[3] = 1 /\ d[2] = 1  -> <<d[1] - 1, 12, 31>>
    [] OTHER                 -> <<d[1], d[2] - 1, Length(d[1], d[2] - 1)>>
DayAfter(d) ==
  CASE d[3] < Length(d[1], d[2]) -> <<d[1], d[2], d[3] + 1>>
    [] d[2] = 12                 -> <<d[1] + 1, 1, 1>>
    [] OTHER                     -> <<d[1], d[2] + 1, 1>>

\* Calendar months that follow each other, from the first of one of them.
MonthLater(d, n) == LET m == d[2] + n IN
  IF m > 12 THEN <<d[1] + 1, m - 12, 1>> ELSE <<d[1], m, 1>>

\* month_bounds.
MonthBounds(d) ==
  LET first == <<d[1], d[2], 1>> IN
  [start |-> first, end |-> DayBefore(MonthLater(first, 1))]

\* Quarters that begin with the month of the date.
RollingBounds(type, d) ==
  LET n == CASE type = "month" -> 1 [] type = "quarter" -> 3 [] type = "year" -> 12 IN
  [start |-> <<d[1], d[2], 1>>, end |-> DayBefore(MonthLater(<<d[1], d[2], 1>>, n))]
\* statement_period_bounds of a month, quarter or year; a custom period is given by its days.
PeriodBounds(type, d) ==
  CASE type = "month"   -> MonthBounds(d)
    [] type = "quarter" ->
         LET first == ((d[2] - 1) \div 3) * 3 + 1 IN
         [start |-> <<d[1], first, 1>>, end |-> DayBefore(MonthLater(<<d[1], first, 1>>, 3))]
    [] type = "year"    -> [start |-> <<d[1], 1, 1>>, end |-> DayBefore(<<d[1] + 1, 1, 1>>)]

\* quantize: to a whole number of cents, a half to the even one.
Cents(n, d) ==
  LET q == n \div d
      r == n % d IN
  IF 2 * r > d \/ (2 * r = d /\ q % 2 = 1) THEN q + 1 ELSE q

\* The days from one date to another of the same month, with both.
DaysIn(start, end) == end[3] - start[3] + 1

\* prorated_amount_for_period, of a month in which the lease begins, ends, or lasts; nothing
\* when it ends before it begins, which no form rejects.
Prorated(l, month) ==
  LET start == IF Before(month.start, l.start) THEN l.start ELSE month.start
      end   == IF l.end # None /\ Before(l.end, month.end) THEN l.end ELSE month.end IN
  IF Before(end, start) THEN 0
  ELSE Cents(l.rent * DaysIn(start, end), DaysIn(month.start, month.end))
-----------------------------------------------------------------------------
\* rent: None, or what makes the charge one of base rent.
Charge(d, due, amount, rent) ==
  [kind |-> "charge", date |-> d, due |-> due, amount |-> amount, rent |-> rent,
   confirmed |-> FALSE, voided |-> FALSE]
\* The lease and the billing period; made is the lease that the amount was taken from, as it
\* stood then, or None when a user typed the amount.
BaseRent(name, period, made) == [lease |-> name, period |-> period, made |-> made]
\* applied: the invoice it is applied to and how much of it; the rest is a deposit.
Receipt(d, amount, to, applied, legacy) ==
  [kind |-> "receipt", date |-> d, amount |-> amount, to |-> to, applied |-> applied,
   legacy |-> legacy, done |-> FALSE, held |-> FALSE, confirmed |-> legacy, voided |-> FALSE]
Bill(d, amount, category, labelled) ==
  [kind |-> "bill", date |-> d, amount |-> amount, category |-> category,
   labelled |-> labelled, confirmed |-> FALSE, voided |-> FALSE]
Event(d, amount, type) ==
  [kind |-> "event", date |-> d, amount |-> amount, type |-> type,
   confirmed |-> FALSE, voided |-> FALSE]
Activity(d, amount, type) ==
  [kind |-> "activity", date |-> d, amount |-> amount, type |-> type,
   confirmed |-> FALSE, voided |-> FALSE]

Categories == {"repairs", "management", "other"}
Types      == {"required", "received", "deducted", "refunded"}

Rows(kind) == {i \in Ids : book[i] # None /\ book[i].kind = kind}

Put(i, row) == book' = [book EXCEPT ![i] = row] /\ UNCHANGED leases

Rent(rows) == {i \in rows : book[i].rent # None}

\* uniq_base_rent_charge_period: a row has the base rent of the lease for the period, voided or
\* not.
Billed(rows, name, period) ==
  \E j \in Rent(rows) : book[j].rent.lease = name /\ book[j].rent.period = period

\* The invoices of a date that a form may save in the slot.  Base rent may be typed as well, of
\* any lease, for a month or other days, and any amount.
Typing(i, d) ==
  {Charge(d, due, a, None) : due \in {d, MonthBounds(d).end}, a \in Amounts} \cup
  {c \in {Charge(d, period.end, a, BaseRent(name, period, None)) : a \in Amounts,
            name \in LeaseNames, period \in {MonthBounds(d), [start |-> d, end |-> d]}} :
     ~Billed(Rows("charge") \ {i}, c.rent.lease, c.rent.period)}

\* A form saves a row.  Receipts of an earlier release have neither applications nor deposit.
Enter(i) ==
  /\ book[i] = None
  /\ \E d \in Dates :
       \/ \E charge \in Typing(i, d) : Put(i, charge)
       \/ \E a \in Amounts :
            \/ a >= 0 /\ \E legacy \in BOOLEAN : Put(i, Receipt(d, a, None, 0, legacy))
            \/ \E c \in Rows("charge"), n \in 1..a : Put(i, Receipt(d, a, c, n, FALSE))
            \/ \E g \in Categories, labelled \in BOOLEAN : Put(i, Bill(d, a, g, labelled))
            \/ \E t \in Types : Put(i, Event(d, a, t))
            \/ a >= 0 /\ \E t \in {"contribution", "distribution"} : Put(i, Activity(d, a, t))

\* A form saves an invoice again that LedgerOS has not confirmed or that is voided, with any
\* status.  Rent is not what was generated any more.
EditCharge(i) ==
  /\ i \in Rows("charge") /\ (book[i].confirmed => book[i].voided)
  /\ \E d \in Dates \cup {book[i].date}, voided \in BOOLEAN :
       \E charge \in Typing(i, d) :
         Put(i, [charge EXCEPT !.confirmed = book[i].confirmed, !.voided = voided])

\* A lease form saves a lease, with any dates, rent and status, new or in place of what stood.
SaveLease(l) ==
  /\ leases' = {m \in leases : m.name # l.name} \cup {l}
  /\ UNCHANGED book

\* Leases of any status.
AnyLease(l) == TRUE
\* Only leases that are active are charged.
Active(l)   == l.status = "active"

\* The leases that generate_base_rent_for_month charges.
Due(month) ==
  {l \in leases : /\ Active(l) /\ ~Before(month.end, l.start)
                  /\ l.end # None => ~Before(l.end, month.start)}

\* generate_base_rent_for_month, for one lease: get_or_create leaves a charge alone that there
\* is for the lease and the month, whatever its amount.
GenerateRent(i, l, d) ==
  LET month == MonthBounds(d) IN
  /\ book[i] = None /\ l \in Due(month)
  /\ ~Billed(Rows("charge"), l.name, month)
  /\ Put(i, Charge(month.start, month.end, Prorated(l, month), BaseRent(l.name, month, l)))

\* Every type of deposit event.
AnyType(type)  == TRUE
\* sync_security_deposit_event posts what has an accounting treatment.
Postable(type) == type \in {"received", "refunded"}

\* LedgerOS confirms a row that is posted whole; an invoice approved again is not voided.
Confirm(i) ==
  /\ book[i] # None /\ book[i].kind # "receipt" /\ ~book[i].confirmed
  /\ book[i].kind = "event" => Postable(book[i].type)
  /\ book' = [book EXCEPT ![i].confirmed = TRUE,
                          ![i].voided = @ /\ book[i].kind # "charge"]
  /\ UNCHANGED leases

\* LedgerOS confirms a receipt in parts, the application and the deposit, then the receipt is
\* finalized.
ConfirmPart(i) ==
  /\ i \in Rows("receipt") /\ ~book[i].confirmed /\ ~book[i].voided
  /\ \/ book[i].to # None /\ ~book[i].done /\ book' = [book EXCEPT ![i].done = TRUE]
     \/ book[i].applied < book[i].amount /\ ~book[i].held
        /\ book' = [book EXCEPT ![i].held = TRUE]
     \/ /\ book[i].done <=> book[i].to # None
        /\ book[i].held <=> book[i].applied < book[i].amount
        /\ book' = [book EXCEPT ![i].confirmed = TRUE]
  /\ UNCHANGED leases

\* An invoice, a receipt or an owner's record is archived, confirmed or not.
Void(i) ==
  /\ book[i] # None /\ book[i].kind \in {"charge", "receipt", "activity"} /\ ~book[i].voided
  /\ book' = [book EXCEPT ![i].voided = TRUE]
  /\ UNCHANGED leases

Init == book = [i \in Ids |-> None] /\ leases = Opening
Next ==
  \/ \E i \in Ids :
       \/ Enter(i) \/ EditCharge(i) \/ Confirm(i) \/ ConfirmPart(i) \/ Void(i)
       \/ \E l \in leases, d \in Dates : GenerateRent(i, l, d)
  \/ \E l \in Leases : SaveLease(l)
Spec == Init /\ [][Next]_vars
-----------------------------------------------------------------------------
Sum(rows, amount(_)) == SumFunctionOnSet([i \in rows |-> amount(i)], rows)
Amount(i)            == book[i].amount
Confirmed(kind)      == {i \in Rows(kind) : book[i].confirmed}
Standing(rows)       == {i \in rows : ~book[i].voided}
In(rows, period)     == {i \in rows : Within(book[i].date, period)}
Earlier(rows, day)   == {i \in rows : Before(book[i].date, day)}
Typed(rows, type)    == {i \in rows : book[i].type = type}
Filed(rows, g)       == {i \in rows : book[i].category = g}
Labelled(rows, b)    == {i \in rows : book[i].labelled = b}

\* _confirmed_rent_amount: the applications that are confirmed, or all of a legacy receipt.
ConfirmedRent(i) ==
  IF book[i].to # None THEN IF book[i].done THEN book[i].applied ELSE 0
  ELSE IF book[i].legacy THEN book[i].amount ELSE 0

\* What is held of a receipt as a deposit, when LedgerOS confirmed it.
HeldDeposit(i) == IF book[i].held THEN book[i].amount - book[i].applied ELSE 0

\* build_statement.  A bill with a maintenance category is a maintenance expense, and one of
\* its own expense category as well; neither invoices nor owner activity drop out when voided.
Statement(period) ==
  LET bills      == In(Confirmed("bill"), period)
      activities == In(Confirmed("activity"), period)
      events     == In(Confirmed("event"), period)
      receipts   == In(Standing(Rows("receipt")), period)
      lines      ==
        [charged       |-> Sum(Rent(In(Confirmed("charge"), period)), Amount),
         collected     |-> Sum(receipts, ConfirmedRent),
         maintenance   |-> Sum(Filed(bills, "repairs") \cup Labelled(bills, TRUE), Amount),
         management    |-> Sum(Filed(bills, "management"), Amount),
         property      |-> Sum(Filed(bills, "other"), Amount),
         contributions |-> Sum(Typed(activities, "contribution"), Amount),
         distributions |-> Sum(Typed(activities, "distribution"), Amount),
         received      |-> Sum(Typed(events, "received"), Amount) + Sum(receipts, HeldDeposit),
         deducted      |-> Sum(Typed(events, "deducted"), Amount),
         refunded      |-> Sum(Typed(events, "refunded"), Amount)] IN
  [lines |-> lines,
   net   |-> lines.collected - lines.property - lines.maintenance - lines.management
               + lines.contributions - lines.distributions]

\* tenant_ledger: what was owed before the period, and with its entries.
TenantLedger(period) ==
  LET charges  == Standing(Confirmed("charge"))
      receipts == Standing(Rows("receipt"))
      opening  == Sum(Earlier(charges, period.start), Amount)
                    - Sum(Earlier(receipts, period.start), ConfirmedRent) IN
  [opening |-> opening,
   closing |-> opening + Sum(In(charges, period), Amount)
                 - Sum(In(receipts, period), ConfirmedRent)]

\* delinquency: what posted receipts left of the invoices due by the day, whenever they came.
Paying(c)    == {i \in Standing(Confirmed("receipt")) : book[i].to = c /\ book[i].done}
Applied(i)   == book[i].applied
Unpaid(c)    == Amount(c) - Sum(Paying(c), Applied)
Overdue(day) == {c \in Standing(Confirmed("charge")) : ~Before(day, book[c].due) /\ Unpaid(c) > 0}
Delinquency(day) == Sum(Overdue(day), Unpaid)

\* property_income_expense.
IncomeExpense(period) ==
  [income      |-> Sum(In(Standing(Confirmed("charge")), period), Amount),
   expense     |-> Sum(In(Standing(Confirmed("bill")), period), Amount),
   collections |-> Sum(In(Standing(Rows("receipt")), period), ConfirmedRent)]

\* security_deposit_ledger: every event but a received one is taken off.
Signed(i) == IF book[i].type = "received" THEN Amount(i) ELSE -Amount(i)
DepositLedger(period) ==
  Sum(In(Standing(Confirmed("event")), period), Signed)
    + Sum(In(Standing(Rows("receipt")), period), HeldDeposit)

\* management_fee_expense_summary and maintenance_expense_summary, which has every bill.
ManagementFees(period) ==
  Sum(Filed(In(Standing(Confirmed("bill")), period), "management"), Amount)
BillsByCategory(period) ==
  LET bills == In(Standing(Confirmed("bill")), period) IN
  [g \in Categories \X BOOLEAN |->
     Sum(Labelled(Filed(bills, g[1]), g[2]), Amount)]

\* rent_roll: the leases of a day that are not cancelled, and what they bring in a month.
Running(day)  ==
  {l \in leases : /\ l.status # "cancelled" /\ ~Before(day, l.start)
                  /\ l.end # None => ~Before(l.end, day)}
MonthlyRent(l) == l.rent
RentRoll(day) == Sum(Running(day), MonthlyRent)
-----------------------------------------------------------------------------
\* The months of a date's quarter, and the quarters of its year.
Parts(type, d) ==
  CASE type = "quarter" -> {PeriodBounds("month", <<d[1], m, 1>>) :
                              m \in {k \in 1..12 : (k + 2) \div 3 = (d[2] + 2) \div 3}}
    [] type = "year"    -> {PeriodBounds("quarter", <<d[1], m, 1>>) : m \in {1, 4, 7, 10}}

\* The owner's statement for a year adds up those of its quarters and they those of their
\* months, line by line, and a tenant's ledger begins a month with what it ended the month
\* before with: no row falls between two periods or into both (statement_period_bounds,
\* tenant_ledger).
PeriodsAddUp ==
  /\ \A type \in {"quarter", "year"} : \A first \in {PeriodBounds(type, d).start : d \in Dates} :
       LET whole == Statement(PeriodBounds(type, first)).lines
           parts == {<<p, Statement(p).lines>> : p \in Parts(type, first)} IN
       \A line \in DOMAIN whole : whole[line] = Sum(parts, LAMBDA p : p[2][line])
  /\ \A month \in {MonthBounds(d) : d \in Dates} :
       TenantLedger(MonthBounds(DayAfter(month.end))).opening = TenantLedger(month).closing

Until(day) == [start |-> <<1, 1, 1>>, end |-> day]

\* Reports that are computed apart agree on the same month: the deposits held are what the
\* statement received, deducted and refunded; management fees, collections and the bills by
\* category come to the same sums; and what a tenant owes by the ledger is found among the
\* delinquent invoices once all are due, though receipts are confirmed in parts and invoices
\* are voided.
ReportsAgree ==
  /\ \A d \in Dates :
       LET month == MonthBounds(d)
           lines == Statement(month).lines IN
       /\ DepositLedger(month) = lines.received - lines.deducted - lines.refunded
       /\ ManagementFees(month) = lines.management
       /\ IncomeExpense(month).collections = lines.collected
       /\ IncomeExpense(month).expense
            = Sum(Categories \X BOOLEAN, LAMBDA g : BillsByCategory(month)[g])
  /\ LET day == <<MaxYear, 12, 31>> IN TenantLedger(Until(day)).closing <= Delinquency(day)

\* The base rent charges of a month, and the leases their amounts were taken from.
Charged(month) == {i \in Rent(Rows("charge")) : book[i].rent.period = month}
Made(month)    == {book[i].rent.made : i \in Charged(month)}

\* Rent is charged for every day: when all charges of a month were generated from leases as they
\* still stand, none typed in and no lease saved since, and the rent roll has only such leases
\* and is the same on all days, though leases end and begin in the month, then the charges add
\* up to the rent roll but for half a cent to each (prorated_amount_for_period,
\* generate_base_rent_for_month, rent_roll).
RentAddsUp ==
  \A d \in Dates :
    LET month   == MonthBounds(d)
        days    == {<<d[1], d[2], k>> : k \in 1..month.end[3]}
        charged == Charged(month)
        rent    == RentRoll(month.start) IN
    (/\ Made(month) \subseteq leases
     /\ \A day \in days : RentRoll(day) = rent /\ Running(day) \subseteq Made(month))
      => 2 * (Sum(charged, Amount) - rent) \in -Cardinality(charged)..Cardinality(charged)

\* A bill is an expense of the owner once, as in the report of income and expenses:
\* "Maintenance categories are reporting labels for vendor bills." (docs/archive/epic-5.md:83)
StatementCountsBillsOnce ==
  \A d \in Dates :
    LET month == MonthBounds(d)
        lines == Statement(month).lines IN
    lines.maintenance + lines.management + lines.property = IncomeExpense(month).expense
-----------------------------------------------------------------------------
\* Why the reports agree.

\* What the book holds.  Rows come from the forms, rent from the leases; bills and deposit
\* events are never voided, and an event is confirmed only when it is posted.
BaseRents    == [lease : LeaseNames, period : [start : Days, end : Days], made : Leases \cup {None}]
ChargeRows   == [kind : {"charge"}, date : Days, due : Days, amount : Int,
                 rent : BaseRents \cup {None}, confirmed : BOOLEAN, voided : BOOLEAN]
ReceiptRows  == [kind : {"receipt"}, date : Days, amount : Nat, to : Ids \cup {None}, applied : Nat,
                 legacy : BOOLEAN, done : BOOLEAN, held : BOOLEAN, confirmed : BOOLEAN,
                 voided : BOOLEAN]
BillRows     == [kind : {"bill"}, date : Days, amount : Int, category : Categories,
                 labelled : BOOLEAN, confirmed : BOOLEAN, voided : {FALSE}]
EventRows    == [kind : {"event"}, date : Days, amount : Int, type : Types,
                 confirmed : BOOLEAN, voided : {FALSE}]
ActivityRows == [kind : {"activity"}, date : Days, amount : Int,
                 type : {"contribution", "distribution"}, confirmed : BOOLEAN, voided : BOOLEAN]
BookRows     ==
  ChargeRows \cup ReceiptRows \cup BillRows \cup EventRows \cup ActivityRows

ASSUME BookNone == None \notin Ids \cup Leases \cup BaseRents \cup BookRows

TypeOK ==
  /\ book \in [Ids -> BookRows \cup {None}]
  /\ \A i \in Rows("event") : book[i].confirmed => Postable(book[i].type)
  /\ leases \subseteq Leases
  /\ \A l, m \in leases : l.name = m.name => l = m

\* Generated rent is the prorated rent of an active lease in a month it runs in; and a lease is
\* charged base rent for a billing period at most once, generated or typed in.
RentCharged ==
  /\ \A i \in Rent(Rows("charge")) : book[i].rent.made # None =>
       LET l == book[i].rent.made  month == MonthBounds(book[i].date) IN
       /\ l \in Leases /\ l.status = "active"
       /\ book[i].rent.lease = l.name /\ book[i].rent.period = month
       /\ ~Before(month.end, l.start) /\ (l.end # None => ~Before(l.end, month.start))
       /\ book[i].amount = Prorated(l, month)
  /\ \A i, j \in Rent(Rows("charge")) :
       (book[i].rent.lease = book[j].rent.lease /\ book[i].rent.period = book[j].rent.period)
         => i = j
============================================================================
