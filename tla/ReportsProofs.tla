--------------------------- MODULE ReportsProofs ---------------------------
(***************************************************************************)
(* Theorems about Reports, for any rows, dates, leases and amounts.        *)
(***************************************************************************)
EXTENDS Reports, SumTheorems, TLAPS

-----------------------------------------------------------------------------
\* The calendar.

\* A month has 28 to 31 days, December 31.
LEMMA LengthType ==
  ASSUME NEW y \in Int, NEW m \in 1..12
  PROVE  Length(y, m) \in 28..31 /\ Length(y, 12) = 31
  BY DEF Length

\* A day of the calendar is a year, a month and a day of it.
LEMMA DayTuple == \A d \in Days : d = <<d[1], d[2], d[3]>>
BY DEF Days

\* The last year a date can have is a year after the first.
LEMMA YearType == MaxYear \in Int /\ MaxYear > 1
BY DEF MaxYear

\* The numbers of a day.
LEMMA DayNumbers ==
  \A d \in Days : /\ d[1] \in 1..MaxYear /\ d[2] \in 1..12 /\ d[3] \in 1..31
                  /\ d[3] <= Length(d[1], d[2])
BY DEF Days

\* The numbers of a day, and how many days its month and the year's last month have.
LEMMA DayParts ==
  ASSUME NEW d \in Days
  PROVE  /\ d[1] \in 1..MaxYear /\ d[2] \in 1..12 /\ d[3] \in 1..31 /\ d[3] <= Length(d[1], d[2])
         /\ Length(d[1], d[2]) \in 28..31 /\ Length(d[1], 12) = 31
  <1>1. d[1] \in 1..MaxYear /\ d[2] \in 1..12 /\ d[3] \in 1..31 /\ d[3] <= Length(d[1], d[2])
    BY DayNumbers
  <1>2. d[1] \in Int
    BY <1>1, YearType
  <1>3. Length(d[1], d[2]) \in 28..31 /\ Length(d[1], 12) = 31
    BY <1>1, <1>2, LengthType
  <1> QED BY <1>1, <1>3

\* The day before the first of the month that follows is the last of a month.
LEMMA MonthEnd ==
  ASSUME NEW y \in Int, NEW m \in 1..12
  PROVE  /\ m < 12 => DayBefore(<<y, m + 1, 1>>) = <<y, m, Length(y, m)>>
         /\ DayBefore(<<y + 1, 1, 1>>) = <<y, 12, 31>>
         /\ m < 12 => DayAfter(<<y, m, Length(y, m)>>) = <<y, m + 1, 1>>
         /\ m = 12 => DayAfter(<<y, m, Length(y, m)>>) = <<y + 1, 1, 1>>
  <1>1. Length(y, m) \in 28..31
    BY LengthType
  <1>2. m < 12 => DayBefore(<<y, m + 1, 1>>) = <<y, m, Length(y, m)>>
    BY DEF DayBefore
  <1>3. DayBefore(<<y + 1, 1, 1>>) = <<y, 12, 31>>
    BY DEF DayBefore
  <1>4. /\ m < 12 => DayAfter(<<y, m, Length(y, m)>>) = <<y, m + 1, 1>>
        /\ m = 12 => DayAfter(<<y, m, Length(y, m)>>) = <<y + 1, 1, 1>>
    BY <1>1 DEF DayAfter
  <1> QED BY <1>2, <1>3, <1>4

\* The bounds of a month.
LEMMA MonthIs ==
  ASSUME NEW y \in Int, NEW m \in 1..12, NEW k
  PROVE  /\ MonthBounds(<<y, m, k>>) = [start |-> <<y, m, 1>>, end |-> <<y, m, Length(y, m)>>]
         /\ PeriodBounds("month", <<y, m, k>>) = [start |-> <<y, m, 1>>, end |-> <<y, m, Length(y, m)>>]
  <1>1. MonthBounds(<<y, m, k>>) = [start |-> <<y, m, 1>>, end |-> <<y, m, Length(y, m)>>]
    <2>1. CASE m = 12
      <3>1. MonthLater(<<y, m, 1>>, 1) = <<y + 1, 1, 1>>
        BY <2>1 DEF MonthLater
      <3>2. Length(y, m) = 31
        BY <2>1, LengthType
      <3> QED BY <2>1, <3>1, <3>2, MonthEnd DEF MonthBounds
    <2>2. CASE m < 12
      <3>1. MonthLater(<<y, m, 1>>, 1) = <<y, m + 1, 1>>
        BY <2>2 DEF MonthLater
      <3> QED BY <2>2, <3>1, MonthEnd DEF MonthBounds
    <2> QED BY <2>1, <2>2
  <1>2. PeriodBounds("month", <<y, m, k>>) = [start |-> <<y, m, 1>>, end |-> <<y, m, Length(y, m)>>]
    BY <1>1 DEF PeriodBounds
  <1> QED BY <1>1, <1>2

\* The bounds of a year.
LEMMA YearIs ==
  ASSUME NEW y \in Int, NEW m, NEW k
  PROVE  PeriodBounds("year", <<y, m, k>>) = [start |-> <<y, 1, 1>>, end |-> <<y, 12, 31>>]
  <1>1. DayBefore(<<y + 1, 1, 1>>) = <<y, 12, 31>>
    <2>1. 1 \in 1..12
      OBVIOUS
    <2> QED BY <2>1, MonthEnd
  <1> QED BY <1>1 DEF PeriodBounds

\* The bounds of a quarter.
LEMMA QuarterIs ==
  ASSUME NEW y \in Int, NEW m \in 1..12, NEW k
  PROVE  LET f == ((m - 1) \div 3) * 3 + 1 IN
         PeriodBounds("quarter", <<y, m, k>>) = [start |-> <<y, f, 1>>, end |-> <<y, f + 2, Length(y, f + 2)>>]
  <1> DEFINE f == ((m - 1) \div 3) * 3 + 1
  <1>1. f \in {1, 4, 7, 10}
    OBVIOUS
  <1>2. PeriodBounds("quarter", <<y, m, k>>) =
          [start |-> <<y, f, 1>>, end |-> DayBefore(MonthLater(<<y, f, 1>>, 3))]
    BY DEF PeriodBounds
  <1> HIDE DEF f
  <1>3. CASE f = 10
    <2>1. MonthLater(<<y, f, 1>>, 3) = <<y + 1, 1, 1>>
      BY <1>3 DEF MonthLater
    <2>2. Length(y, f + 2) = 31 /\ f + 2 = 12
      BY <1>3, LengthType
    <2>3. DayBefore(<<y + 1, 1, 1>>) = <<y, 12, 31>>
      BY MonthEnd
    <2>4. PeriodBounds("quarter", <<y, m, k>>) = [start |-> <<y, f, 1>>, end |-> <<y, f + 2, Length(y, f + 2)>>]
      BY <1>2, <2>1, <2>2, <2>3
    <2> QED BY <2>4 DEF f
  <1>4. CASE f < 10
    <2>1. MonthLater(<<y, f, 1>>, 3) = <<y, f + 3, 1>>
      BY <1>1, <1>4 DEF MonthLater
    <2>2. f + 2 \in 1..12 /\ f + 2 < 12 /\ f + 3 = (f + 2) + 1
      BY <1>1, <1>4
    <2>3. DayBefore(<<y, f + 3, 1>>) = <<y, f + 2, Length(y, f + 2)>>
      BY <2>2, MonthEnd
    <2>4. PeriodBounds("quarter", <<y, m, k>>) = [start |-> <<y, f, 1>>, end |-> <<y, f + 2, Length(y, f + 2)>>]
      BY <1>2, <2>1, <2>3
    <2> QED BY <2>4 DEF f
  <1> QED BY <1>1, <1>3, <1>4

\* Which days a month, a quarter and a year have.
LEMMA Contains ==
  ASSUME NEW y \in Int, NEW m \in 1..12, NEW k, NEW e \in Days
  PROVE  /\ Within(e, PeriodBounds("month", <<y, m, k>>)) <=> e[1] = y /\ e[2] = m
         /\ Within(e, PeriodBounds("quarter", <<y, m, k>>))
              <=> e[1] = y /\ (e[2] + 2) \div 3 = (m + 2) \div 3
         /\ Within(e, PeriodBounds("year", <<y, m, k>>)) <=> e[1] = y
  <1>1. /\ e[1] \in Int /\ e[2] \in 1..12 /\ e[3] \in 1..31 /\ e[3] <= Length(e[1], e[2])
        /\ Length(y, m) \in 28..31
    <2>1. e[1] \in 1..MaxYear /\ e[2] \in 1..12 /\ e[3] \in 1..31 /\ e[3] <= Length(e[1], e[2])
      BY DayNumbers
    <2>2. Length(y, m) \in 28..31
      BY LengthType
    <2> QED BY <2>1, <2>2, YearType
  <1>2. Within(e, PeriodBounds("month", <<y, m, k>>)) <=> e[1] = y /\ e[2] = m
    <2> DEFINE n == Length(y, m)
    <2>1. PeriodBounds("month", <<y, m, k>>) = [start |-> <<y, m, 1>>, end |-> <<y, m, n>>]
      BY MonthIs
    <2>2. n \in 28..31 /\ (e[1] = y /\ e[2] = m => e[3] <= n)
      BY <1>1
    <2> HIDE DEF n
    <2>3. Within(e, PeriodBounds("month", <<y, m, k>>)) <=> ~Before(e, <<y, m, 1>>) /\ ~Before(<<y, m, n>>, e)
      BY <2>1 DEF Within
    <2> QED BY <1>1, <2>2, <2>3 DEF Before
  <1>3. Within(e, PeriodBounds("year", <<y, m, k>>)) <=> e[1] = y
    <2>1. PeriodBounds("year", <<y, m, k>>) = [start |-> <<y, 1, 1>>, end |-> <<y, 12, 31>>]
      BY YearIs
    <2> QED BY <1>1, <2>1 DEF Within, Before
  <1>4. Within(e, PeriodBounds("quarter", <<y, m, k>>)) <=> e[1] = y /\ (e[2] + 2) \div 3 = (m + 2) \div 3
    <2> DEFINE f == ((m - 1) \div 3) * 3 + 1
    <2>1. f \in {1, 4, 7, 10} /\ \A n \in 1..12 : (n + 2) \div 3 = (m + 2) \div 3 <=> f <= n /\ n <= f + 2
      OBVIOUS
    <2>2. PeriodBounds("quarter", <<y, m, k>>) =
            [start |-> <<y, f, 1>>, end |-> <<y, f + 2, Length(y, f + 2)>>]
      BY QuarterIs
    <2> HIDE DEF f
    <2>3. f + 2 \in 1..12 /\ Length(y, f + 2) \in 28..31
      BY <2>1, LengthType
    <2>4. Within(e, PeriodBounds("quarter", <<y, m, k>>)) <=> e[1] = y /\ f <= e[2] /\ e[2] <= f + 2
      BY <1>1, <2>1, <2>2, <2>3 DEF Within, Before
    <2> QED BY <1>1, <2>1, <2>4
  <1> QED BY <1>2, <1>3, <1>4

\* A month of the calendar begins and ends with days of it.
LEMMA MonthOf ==
  ASSUME NEW d \in Days
  PROVE  /\ MonthBounds(d).start = <<d[1], d[2], 1>>
         /\ MonthBounds(d).end = <<d[1], d[2], Length(d[1], d[2])>>
         /\ MonthBounds(d) \in [start : Days, end : Days]
         /\ MonthBounds(MonthBounds(d).start) = MonthBounds(d)
  <1>1. d[1] \in 1..MaxYear /\ d[1] \in Int /\ d[2] \in 1..12 /\ Length(d[1], d[2]) \in 28..31
    BY DayParts, YearType
  <1>2. MonthBounds(d) = MonthBounds(<<d[1], d[2], 0>>)
    BY DEF MonthBounds
  <1>3. MonthBounds(d) = [start |-> <<d[1], d[2], 1>>, end |-> <<d[1], d[2], Length(d[1], d[2])>>]
    BY <1>1, <1>2, MonthIs
  <1>4. MonthBounds(<<d[1], d[2], 1>>) = MonthBounds(d)
    BY <1>1, <1>3, MonthIs
  <1>5. <<d[1], d[2], 1>> \in Days /\ <<d[1], d[2], Length(d[1], d[2])>> \in Days
    BY <1>1 DEF Days
  <1> QED BY <1>3, <1>4, <1>5

\* So do a quarter and a year.
LEMMA FirstOf ==
  ASSUME NEW d \in Days, NEW type \in {"quarter", "year"}
  PROVE  PeriodBounds(type, d).start \in Days
  <1>1. d[1] \in 1..MaxYear /\ d[1] \in Int /\ d[2] \in 1..12
    BY DayParts, YearType
  <1>2. \A m \in 1..12 : <<d[1], m, 1>> \in Days
    <2> SUFFICES ASSUME NEW m \in 1..12 PROVE <<d[1], m, 1>> \in Days
      OBVIOUS
    <2>1. Length(d[1], m) \in 28..31
      BY <1>1, LengthType
    <2> QED BY <1>1, <2>1 DEF Days
  <1>3. ((d[2] - 1) \div 3) * 3 + 1 \in 1..12
    BY <1>1
  <1>4. CASE type = "quarter"
    <2>1. PeriodBounds(type, d).start = <<d[1], ((d[2] - 1) \div 3) * 3 + 1, 1>>
      BY <1>4 DEF PeriodBounds
    <2> QED BY <1>2, <1>3, <2>1
  <1>5. CASE type = "year"
    <2>1. PeriodBounds(type, d).start = <<d[1], 1, 1>>
      BY <1>5 DEF PeriodBounds
    <2> QED BY <1>2, <2>1
  <1> QED BY <1>4, <1>5

-----------------------------------------------------------------------------
\* What the book holds.

\* Every row is of one of the kinds.
LEMMA RowKinds ==
  ASSUME NEW row \in BookRows
  PROVE  /\ row.kind \in {"charge", "receipt", "bill", "event", "activity"}
         /\ row.kind = "charge" => row \in ChargeRows
         /\ row.kind = "receipt" => row \in ReceiptRows
         /\ row.kind = "bill" => row \in BillRows
         /\ row.kind = "event" => row \in EventRows
         /\ row.kind = "activity" => row \in ActivityRows
BY DEF BookRows, ChargeRows, ReceiptRows, BillRows, EventRows, ActivityRows

\* A slot that is not empty holds a row.
LEMMA SlotType ==
  ASSUME TypeOK, NEW i \in Ids, book[i] # None
  PROVE  book[i] \in BookRows
BY DEF TypeOK

\* The prorated rent of a lease for a month it runs in is a whole number of cents.
LEMMA ProratedType ==
  ASSUME NEW l \in Leases, NEW d \in Days,
         ~Before(MonthBounds(d).end, l.start),
         l.end # None => ~Before(l.end, MonthBounds(d).start)
  PROVE  Prorated(l, MonthBounds(d)) \in Int
  <1> DEFINE y == d[1]  m == d[2]  n == Length(y, m)
             first == <<y, m, 1>>  last == <<y, m, n>>
             start == IF Before(first, l.start) THEN l.start ELSE first
             end   == IF l.end # None /\ Before(l.end, last) THEN l.end ELSE last
  <1>1. y \in Int /\ m \in 1..12 /\ n \in 28..31
    BY DayParts, YearType
  <1>2. MonthBounds(d) = [start |-> first, end |-> last]
    <2>1. MonthBounds(d) = MonthBounds(<<y, m, 0>>)
      BY DEF MonthBounds
    <2> QED BY <1>1, <2>1, MonthIs
  <1>3. l.start[3] \in Int /\ (l.end # None => l.end[3] \in Int) /\ l.rent \in Int
    BY BookAssumption, DayParts
  <1>4. start[3] \in Int /\ end[3] \in Int
    BY <1>1, <1>3
  <1>5. DaysIn(start, end) \in Int
    BY <1>4 DEF DaysIn
  <1>6. DaysIn(first, last) = n
    BY <1>1 DEF DaysIn
  <1>7. \/ Prorated(l, MonthBounds(d)) = 0
        \/ Prorated(l, MonthBounds(d)) = Cents(l.rent * DaysIn(start, end), n)
    BY <1>2, <1>6 DEF Prorated
  <1> HIDE DEF y, m, n, first, last, start, end
  <1>8. l.rent * DaysIn(start, end) \in Int
    BY <1>3, <1>5
  <1>9. \A w \in Int : Cents(w, n) \in Int
    BY <1>1 DEF Cents
  <1> QED BY <1>7, <1>8, <1>9

\* A row that is put in a slot keeps the types.
LEMMA PutType ==
  ASSUME TypeOK, NEW i \in Ids, NEW row \in BookRows, book' = [book EXCEPT ![i] = row],
         UNCHANGED leases, row.kind = "event" /\ row.confirmed => Postable(row.type)
  PROVE  TypeOK'
  <1>1. book' \in [Ids -> BookRows \cup {None}]
    BY DEF TypeOK
  <1>2. ASSUME NEW j \in Ids, book'[j] # None, book'[j].kind = "event", book'[j].confirmed
        PROVE  Postable(book'[j].type)
    <2>1. CASE j = i
      <3>1. book'[j] = row
        BY <2>1 DEF TypeOK
      <3> QED BY <1>2, <3>1
    <2>2. CASE j # i
      <3>1. book'[j] = book[j]
        BY <2>2 DEF TypeOK
      <3> QED BY <1>2, <3>1 DEF TypeOK, Rows
    <2> QED BY <2>1, <2>2
  <1> QED BY <1>1, <1>2 DEF TypeOK, Rows

\* What RentCharged says of a charge that is generated, and of one of base rent.
Rented(row) ==
  LET l == row.rent.made  month == MonthBounds(row.date) IN
  /\ l \in Leases /\ l.status = "active"
  /\ row.rent.lease = l.name /\ row.rent.period = month
  /\ ~Before(month.end, l.start) /\ (l.end # None => ~Before(l.end, month.start))
  /\ row.amount = Prorated(l, month)
IsRent(row) == row # None /\ row.kind = "charge" /\ row.rent # None

\* RentCharged, slot by slot.
LEMMA RentSlots ==
  RentCharged <=>
    /\ \A j \in Ids : IsRent(book[j]) /\ book[j].rent.made # None => Rented(book[j])
    /\ \A j, k \in Ids :
         (/\ IsRent(book[j]) /\ IsRent(book[k])
          /\ book[j].rent.lease = book[k].rent.lease /\ book[j].rent.period = book[k].rent.period)
           => j = k
BY DEF RentCharged, Rent, Rows, IsRent, Rented

\* A row that is put in a slot keeps what is known of rent: when it is no base rent; the base
\* rent that was there; or base rent no other charge is of, and as it is generated.
LEMMA PutRent ==
  ASSUME TypeOK, RentCharged, NEW i \in Ids, NEW row \in BookRows, book' = [book EXCEPT ![i] = row],
         \/ row.kind # "charge" \/ row.rent = None
         \/ /\ IsRent(book[i]) /\ row.kind = "charge" /\ row.rent = book[i].rent
            /\ row.date = book[i].date /\ row.amount = book[i].amount
         \/ /\ ~Billed(Rows("charge") \ {i}, row.rent.lease, row.rent.period)
            /\ row.rent.made # None => Rented(row)
  PROVE  RentCharged'
  <1>1. /\ \A j \in Ids : j # i => book'[j] = book[j]
        /\ book'[i] = row
    BY DEF TypeOK
  <1>2. CASE row.kind # "charge" \/ row.rent = None
    <2>1. \A j \in Ids : IsRent(book'[j]) => j # i
      BY <1>1, <1>2 DEF IsRent
    <2>2. /\ \A j \in Ids : IsRent(book'[j]) /\ book'[j].rent.made # None => Rented(book'[j])
          /\ \A j, k \in Ids :
               (/\ IsRent(book'[j]) /\ IsRent(book'[k])
                /\ book'[j].rent.lease = book'[k].rent.lease
                /\ book'[j].rent.period = book'[k].rent.period)
                 => j = k
      BY <1>1, <2>1, RentSlots
    <2> QED BY <2>2 DEF RentCharged, Rent, Rows, IsRent, Rented
  <1>3. CASE /\ IsRent(book[i]) /\ row.kind = "charge" /\ row.rent = book[i].rent
             /\ row.date = book[i].date /\ row.amount = book[i].amount
    <2>1. IsRent(row) => (Rented(row) <=> Rented(book[i]))
      BY <1>3 DEF Rented
    <2>2. \A j \in Ids : IsRent(book'[j]) =>
            /\ IsRent(book[j]) /\ book'[j].rent = book[j].rent
            /\ Rented(book[j]) => Rented(book'[j])
      BY <1>1, <1>3, <2>1
    <2>3. /\ \A j \in Ids : IsRent(book'[j]) /\ book'[j].rent.made # None => Rented(book'[j])
          /\ \A j, k \in Ids :
               (/\ IsRent(book'[j]) /\ IsRent(book'[k])
                /\ book'[j].rent.lease = book'[k].rent.lease
                /\ book'[j].rent.period = book'[k].rent.period)
                 => j = k
      BY <2>2, RentSlots
    <2> QED BY <2>3 DEF RentCharged, Rent, Rows, IsRent, Rented
  <1>4. CASE /\ ~Billed(Rows("charge") \ {i}, row.rent.lease, row.rent.period)
             /\ row.rent.made # None => Rented(row)
    <2>1. \A j \in Ids : j # i => ~(/\ IsRent(book[j]) /\ book[j].rent.lease = row.rent.lease
                                     /\ book[j].rent.period = row.rent.period)
      BY <1>4 DEF Billed, Rent, Rows, IsRent
    <2>2. \A j \in Ids : IsRent(book'[j]) /\ book'[j].rent.made # None => Rented(book'[j])
      BY <1>1, <1>4, RentSlots
    <2>3. ASSUME NEW j \in Ids, NEW k \in Ids, IsRent(book'[j]), IsRent(book'[k]),
                 book'[j].rent.lease = book'[k].rent.lease,
                 book'[j].rent.period = book'[k].rent.period
          PROVE  j = k
      <3>1. CASE j # i /\ k # i
        BY <1>1, <2>3, <3>1, RentSlots
      <3>2. CASE j = i /\ k # i
        BY <1>1, <2>1, <2>3, <3>2
      <3>3. CASE j # i /\ k = i
        BY <1>1, <2>1, <2>3, <3>3
      <3> QED BY <3>1, <3>2, <3>3
    <2> QED BY <2>2, <2>3 DEF RentCharged, Rent, Rows, IsRent, Rented
  <1> QED BY <1>2, <1>3, <1>4

\* An invoice from a form is no base rent, or base rent that no other invoice is of.
LEMMA TypingType ==
  ASSUME NEW i \in Ids, NEW d \in Days, NEW charge \in Typing(i, d)
  PROVE  /\ charge \in ChargeRows
         /\ charge.rent # None =>
              /\ charge.rent.made = None
              /\ ~Billed(Rows("charge") \ {i}, charge.rent.lease, charge.rent.period)
  <1>1. MonthBounds(d) \in [start : Days, end : Days]
    BY MonthOf
  <1>2. CASE \E due \in {d, MonthBounds(d).end}, a \in Amounts : charge = Charge(d, due, a, None)
    <2>1. PICK due \in Days, a \in Int : charge = Charge(d, due, a, None)
      BY <1>1, <1>2, BookAssumption
    <2> QED BY <2>1 DEF Charge, ChargeRows
  <1>3. CASE /\ \E a \in Amounts, name \in LeaseNames, period \in {MonthBounds(d), [start |-> d, end |-> d]} :
                 charge = Charge(d, period.end, a, BaseRent(name, period, None))
             /\ ~Billed(Rows("charge") \ {i}, charge.rent.lease, charge.rent.period)
    <2>1. PICK a \in Int, name \in LeaseNames, period \in [start : Days, end : Days] :
            charge = Charge(d, period.end, a, BaseRent(name, period, None))
      BY <1>1, <1>3, BookAssumption
    <2> DEFINE rent == BaseRent(name, period, None)
    <2>2. rent \in BaseRents /\ rent.made = None /\ period.end \in Days
      BY <2>1 DEF BaseRent, BaseRents
    <2>3. charge = Charge(d, period.end, a, rent)
      BY <2>1
    <2> HIDE DEF rent
    <2>4. charge \in ChargeRows /\ charge.rent = rent
      BY <2>1, <2>2, <2>3 DEF Charge, ChargeRows
    <2> QED BY <1>3, <2>2, <2>4
  <1>4. \/ charge \in {Charge(d, due, a, None) : due \in {d, MonthBounds(d).end}, a \in Amounts}
        \/ /\ charge \in {Charge(d, period.end, a, BaseRent(name, period, None)) : a \in Amounts,
                          name \in LeaseNames, period \in {MonthBounds(d), [start |-> d, end |-> d]}}
           /\ ~Billed(Rows("charge") \ {i}, charge.rent.lease, charge.rent.period)
    BY DEF Typing
  <1> QED BY <1>2, <1>3, <1>4

\* The forms.
LEMMA EnterKeeps ==
  ASSUME TypeOK, RentCharged, NEW i \in Ids, Enter(i)
  PROVE  TypeOK' /\ RentCharged'
  <1>1. PICK d \in Dates :
          \/ \E charge \in Typing(i, d) : Put(i, charge)
          \/ \E a \in Amounts :
               \/ a >= 0 /\ \E legacy \in BOOLEAN : Put(i, Receipt(d, a, None, 0, legacy))
               \/ \E c \in Rows("charge"), n \in 1..a : Put(i, Receipt(d, a, c, n, FALSE))
               \/ \E g \in Categories, labelled \in BOOLEAN : Put(i, Bill(d, a, g, labelled))
               \/ \E t \in Types : Put(i, Event(d, a, t))
               \/ a >= 0 /\ \E t \in {"contribution", "distribution"} : Put(i, Activity(d, a, t))
    BY DEF Enter
  <1>2. d \in Days
    BY BookAssumption
  <1>3. ASSUME NEW row, Put(i, row), row \in BookRows, ~(row.kind = "event" /\ row.confirmed),
               row.kind # "charge"
        PROVE  TypeOK' /\ RentCharged'
    BY <1>3, PutType, PutRent DEF Put
  <1>4. ASSUME NEW charge \in Typing(i, d), Put(i, charge) PROVE TypeOK' /\ RentCharged'
    <2>1. /\ charge \in ChargeRows
          /\ charge.rent # None =>
               /\ charge.rent.made = None
               /\ ~Billed(Rows("charge") \ {i}, charge.rent.lease, charge.rent.period)
      BY <1>2, TypingType
    <2>2. charge \in BookRows /\ charge.kind = "charge"
      BY <2>1 DEF BookRows, ChargeRows
    <2> QED BY <1>4, <2>1, <2>2, PutType, PutRent DEF Put
  <1>5. ASSUME NEW a \in Amounts, a >= 0, NEW legacy \in BOOLEAN, Put(i, Receipt(d, a, None, 0, legacy))
        PROVE  TypeOK' /\ RentCharged'
    <2>1. a \in Nat
      BY <1>5, BookAssumption
    <2>2. /\ Receipt(d, a, None, 0, legacy) \in BookRows
          /\ Receipt(d, a, None, 0, legacy).kind = "receipt"
      BY <1>2, <2>1 DEF Receipt, BookRows, ReceiptRows
    <2> QED BY <1>3, <1>5, <2>2
  <1>6. ASSUME NEW a \in Amounts, NEW c \in Rows("charge"), NEW n \in 1..a, Put(i, Receipt(d, a, c, n, FALSE))
        PROVE  TypeOK' /\ RentCharged'
    <2>1. a \in Nat /\ n \in Nat
      BY <1>6, BookAssumption
    <2>2. /\ Receipt(d, a, c, n, FALSE) \in BookRows
          /\ Receipt(d, a, c, n, FALSE).kind = "receipt"
      BY <1>2, <2>1 DEF Receipt, BookRows, ReceiptRows, Rows
    <2> QED BY <1>3, <1>6, <2>2
  <1>7. ASSUME NEW a \in Amounts, NEW g \in Categories, NEW labelled \in BOOLEAN,
               Put(i, Bill(d, a, g, labelled))
        PROVE  TypeOK' /\ RentCharged'
    <2>1. a \in Int
      BY BookAssumption
    <2>2. Bill(d, a, g, labelled) \in BookRows /\ Bill(d, a, g, labelled).kind = "bill"
      BY <1>2, <2>1 DEF Bill, BookRows, BillRows
    <2> QED BY <1>3, <1>7, <2>2
  <1>8. ASSUME NEW a \in Amounts, NEW t \in Types, Put(i, Event(d, a, t))
        PROVE  TypeOK' /\ RentCharged'
    <2>1. a \in Int
      BY BookAssumption
    <2>2. /\ Event(d, a, t) \in BookRows /\ Event(d, a, t).kind = "event"
          /\ Event(d, a, t).confirmed = FALSE
      BY <1>2, <2>1 DEF Event, BookRows, EventRows
    <2> QED BY <1>3, <1>8, <2>2
  <1>9. ASSUME NEW a \in Amounts, NEW t \in {"contribution", "distribution"}, Put(i, Activity(d, a, t))
        PROVE  TypeOK' /\ RentCharged'
    <2>1. a \in Int
      BY BookAssumption
    <2>2. Activity(d, a, t) \in BookRows /\ Activity(d, a, t).kind = "activity"
      BY <1>2, <2>1 DEF Activity, BookRows, ActivityRows
    <2> QED BY <1>3, <1>9, <2>2
  <1> QED BY <1>1, <1>4, <1>5, <1>6, <1>7, <1>8, <1>9

\* An invoice that is saved again is typed.
LEMMA EditChargeKeeps ==
  ASSUME TypeOK, RentCharged, NEW i \in Ids, EditCharge(i)
  PROVE  TypeOK' /\ RentCharged'
  <1>1. PICK d \in Dates \cup {book[i].date}, voided \in BOOLEAN :
          \E charge \in Typing(i, d) :
            Put(i, [charge EXCEPT !.confirmed = book[i].confirmed, !.voided = voided])
    BY DEF EditCharge
  <1>2. PICK charge \in Typing(i, d) :
          Put(i, [charge EXCEPT !.confirmed = book[i].confirmed, !.voided = voided])
    BY <1>1
  <1> DEFINE old == book[i]
             row == [charge EXCEPT !.confirmed = old.confirmed, !.voided = voided]
  <1>3. old \in ChargeRows
    BY SlotType, RowKinds DEF EditCharge, Rows
  <1>4. Put(i, row) /\ d \in Dates \cup {old.date}
    BY <1>1, <1>2
  <1> HIDE DEF old
  <1>5. d \in Days /\ old.confirmed \in BOOLEAN
    BY <1>3, <1>4, BookAssumption DEF ChargeRows
  <1>6. /\ charge \in ChargeRows
        /\ charge.rent # None =>
             /\ charge.rent.made = None
             /\ ~Billed(Rows("charge") \ {i}, charge.rent.lease, charge.rent.period)
    BY <1>5, TypingType
  <1>7. row \in ChargeRows /\ row.kind = "charge" /\ row.rent = charge.rent
    BY <1>5, <1>6 DEF ChargeRows
  <1>8. row \in BookRows
    BY <1>7 DEF BookRows
  <1> HIDE DEF row
  <1> QED BY <1>4, <1>6, <1>7, <1>8, PutType, PutRent DEF Put

\* The rent of a month.
LEMMA GenerateRentKeeps ==
  ASSUME TypeOK, RentCharged, NEW i \in Ids, NEW l \in leases, NEW d \in Dates, GenerateRent(i, l, d)
  PROVE  TypeOK' /\ RentCharged'
  <1> DEFINE month == MonthBounds(d)
             rent == BaseRent(l.name, month, l)
             row == Charge(month.start, month.end, Prorated(l, month), rent)
  <1>1. d \in Days /\ l \in Leases
    BY BookAssumption DEF TypeOK
  <1>2. /\ MonthBounds(month.start) = month /\ month \in [start : Days, end : Days]
        /\ month.start \in Days /\ month.end \in Days
    BY <1>1, MonthOf
  <1>3. /\ ~Billed(Rows("charge") \ {i}, l.name, month)
        /\ book' = [book EXCEPT ![i] = row] /\ UNCHANGED leases
        /\ l.status = "active"
        /\ ~Before(month.end, l.start) /\ (l.end # None => ~Before(l.end, month.start))
    BY DEF GenerateRent, Put, Due, Active, Billed, Rent
  <1>4. Prorated(l, month) \in Int
    BY <1>1, <1>3, ProratedType
  <1> HIDE DEF month
  <1>5. /\ rent \in BaseRents /\ rent # None
        /\ rent.lease = l.name /\ rent.period = month /\ rent.made = l
    <2>1. /\ rent \in BaseRents /\ rent.lease = l.name /\ rent.period = month /\ rent.made = l
      BY <1>1, <1>2 DEF BaseRent, BaseRents, LeaseNames
    <2> QED BY <2>1, BookNone
  <1> HIDE DEF rent
  <1>6. /\ row \in BookRows /\ row.kind = "charge" /\ row.rent = rent /\ row.date = month.start
        /\ row.amount = Prorated(l, month)
    BY <1>2, <1>4, <1>5 DEF Charge, BookRows, ChargeRows
  <1> HIDE DEF row
  <1>7. Rented(row)
    BY <1>1, <1>2, <1>3, <1>5, <1>6 DEF Rented
  <1>8. TypeOK'
    BY <1>3, <1>6, PutType
  <1>9. RentCharged'
    BY <1>3, <1>5, <1>6, <1>7, PutRent
  <1> QED BY <1>8, <1>9

\* A lease that is saved takes the place of the one of its name.
LEMMA SaveLeaseKeeps ==
  ASSUME TypeOK, RentCharged, NEW l \in Leases, SaveLease(l)
  PROVE  TypeOK' /\ RentCharged'
  <1>1. book' = book /\ leases' = {m \in leases : m.name # l.name} \cup {l}
    BY DEF SaveLease
  <1>2. leases' \subseteq Leases /\ \A m, n \in leases' : m.name = n.name => m = n
    BY <1>1 DEF TypeOK
  <1>3. /\ book' \in [Ids -> BookRows \cup {None}]
        /\ \A i \in Ids : book'[i] # None /\ book'[i].kind = "event" /\ book'[i].confirmed
             => Postable(book'[i].type)
    BY <1>1 DEF TypeOK, Rows
  <1>4. TypeOK'
    BY <1>2, <1>3 DEF TypeOK, Rows
  <1>5. RentCharged'
    BY <1>1, RentSlots DEF RentCharged, Rent, Rows, IsRent, Rented
  <1> QED BY <1>4, <1>5

\* What LedgerOS confirms.
LEMMA ConfirmKeeps ==
  ASSUME TypeOK, RentCharged, NEW i \in Ids, Confirm(i)
  PROVE  TypeOK' /\ RentCharged'
  <1> DEFINE old == book[i]
             row == [old EXCEPT !.confirmed = TRUE, !.voided = @ /\ old.kind # "charge"]
  <1>1. /\ old # None /\ old.kind # "receipt"
        /\ old.kind = "event" => Postable(old.type)
        /\ book' = [book EXCEPT ![i] = row] /\ UNCHANGED leases
    BY DEF Confirm
  <1>2. old \in BookRows
    BY <1>1, SlotType
  <1>3. i \in Rows(old.kind)
    BY <1>1 DEF Rows
  <1> HIDE DEF old
  <1>4. /\ row \in BookRows /\ row.kind = old.kind
        /\ old.kind = "event" => row.type = old.type
        /\ old.kind = "charge" => /\ row.rent = old.rent
                                  /\ row.date = old.date /\ row.amount = old.amount
    <2>1. CASE old.kind = "charge"
      <3>1. old \in ChargeRows
        BY <1>2, <2>1, RowKinds
      <3>2. row \in ChargeRows /\ row.kind = old.kind /\ row.rent = old.rent
              /\ row.date = old.date /\ row.amount = old.amount
        BY <3>1 DEF ChargeRows
      <3> QED BY <2>1, <3>2 DEF BookRows
    <2>2. CASE old.kind = "bill"
      <3>1. old \in BillRows
        BY <1>2, <2>2, RowKinds
      <3>2. row \in BillRows /\ row.kind = old.kind
        BY <3>1 DEF BillRows
      <3> QED BY <2>2, <3>2 DEF BookRows
    <2>3. CASE old.kind = "event"
      <3>1. old \in EventRows
        BY <1>2, <2>3, RowKinds
      <3>2. row \in EventRows /\ row.kind = old.kind /\ row.type = old.type
        BY <3>1 DEF EventRows
      <3> QED BY <2>3, <3>2 DEF BookRows
    <2>4. CASE old.kind = "activity"
      <3>1. old \in ActivityRows
        BY <1>2, <2>4, RowKinds
      <3>2. row \in ActivityRows /\ row.kind = old.kind
        BY <3>1, <2>4 DEF ActivityRows
      <3> QED BY <2>4, <3>2 DEF BookRows
    <2> QED BY <1>1, <1>2, <2>1, <2>2, <2>3, <2>4, RowKinds
  <1> HIDE DEF row
  <1>5. TypeOK'
    BY <1>1, <1>4, PutType
  <1>6. RentCharged'
    <2>1. CASE old.kind = "charge" /\ old.rent = None
      BY <1>1, <1>4, <2>1, PutRent
    <2>2. CASE old.kind = "charge" /\ old.rent # None
      <3>1. IsRent(book[i]) /\ book[i] = old
        BY <1>1, <2>2 DEF old, IsRent
      <3> QED BY <1>1, <1>4, <2>2, <3>1, PutRent
    <2>3. CASE old.kind # "charge"
      BY <1>1, <1>4, <2>3, PutRent
    <2> QED BY <2>1, <2>2, <2>3
  <1> QED BY <1>5, <1>6

\* The parts of a receipt.
LEMMA ConfirmPartKeeps ==
  ASSUME TypeOK, RentCharged, NEW i \in Ids, ConfirmPart(i)
  PROVE  TypeOK' /\ RentCharged'
  <1> DEFINE old == book[i]
  <1>1. /\ old # None /\ old.kind = "receipt" /\ UNCHANGED leases
        /\ \/ book' = [book EXCEPT ![i] = [old EXCEPT !.done = TRUE]]
           \/ book' = [book EXCEPT ![i] = [old EXCEPT !.held = TRUE]]
           \/ book' = [book EXCEPT ![i] = [old EXCEPT !.confirmed = TRUE]]
    BY DEF ConfirmPart, Rows
  <1>2. old \in ReceiptRows
    BY <1>1, SlotType, RowKinds
  <1> HIDE DEF old
  <1>3. PICK row : /\ row \in ReceiptRows /\ row.kind = "receipt"
                   /\ book' = [book EXCEPT ![i] = row]
    BY <1>1, <1>2 DEF ReceiptRows
  <1>4. row \in BookRows
    BY <1>3 DEF BookRows
  <1> QED BY <1>1, <1>3, <1>4, PutType, PutRent

\* What is archived.
LEMMA VoidKeeps ==
  ASSUME TypeOK, RentCharged, NEW i \in Ids, Void(i)
  PROVE  TypeOK' /\ RentCharged'
  <1> DEFINE old == book[i]
             row == [old EXCEPT !.voided = TRUE]
  <1>1. /\ old # None /\ old.kind \in {"charge", "receipt", "activity"}
        /\ book' = [book EXCEPT ![i] = row] /\ UNCHANGED leases
    BY DEF Void
  <1>2. old \in BookRows
    BY <1>1, SlotType
  <1>3. i \in Rows(old.kind)
    BY <1>1 DEF Rows
  <1> HIDE DEF old
  <1>4. /\ row \in BookRows /\ row.kind = old.kind
        /\ old.kind = "charge" => /\ row.rent = old.rent
                                  /\ row.date = old.date /\ row.amount = old.amount
    <2>1. CASE old.kind = "charge"
      <3>1. old \in ChargeRows
        BY <1>2, <2>1, RowKinds
      <3>2. row \in ChargeRows /\ row.kind = old.kind /\ row.rent = old.rent
              /\ row.date = old.date /\ row.amount = old.amount
        BY <3>1 DEF ChargeRows
      <3> QED BY <2>1, <3>2 DEF BookRows
    <2>2. CASE old.kind = "receipt"
      <3>1. old \in ReceiptRows
        BY <1>2, <2>2, RowKinds
      <3>2. row \in ReceiptRows /\ row.kind = old.kind
        BY <3>1 DEF ReceiptRows
      <3> QED BY <2>2, <3>2 DEF BookRows
    <2>3. CASE old.kind = "activity"
      <3>1. old \in ActivityRows
        BY <1>2, <2>3, RowKinds
      <3>2. row \in ActivityRows /\ row.kind = old.kind
        BY <3>1 DEF ActivityRows
      <3> QED BY <2>3, <3>2 DEF BookRows
    <2> QED BY <1>1, <2>1, <2>2, <2>3
  <1> HIDE DEF row
  <1>5. TypeOK'
    BY <1>1, <1>4, PutType
  <1>6. RentCharged'
    <2>1. CASE old.kind = "charge" /\ old.rent = None
      BY <1>1, <1>4, <2>1, PutRent
    <2>2. CASE old.kind = "charge" /\ old.rent # None
      <3>1. IsRent(book[i]) /\ book[i] = old
        BY <1>1, <2>2 DEF old, IsRent
      <3> QED BY <1>1, <1>4, <2>2, <3>1, PutRent
    <2>3. CASE old.kind # "charge"
      BY <1>1, <1>4, <2>3, PutRent
    <2> QED BY <2>1, <2>2, <2>3
  <1> QED BY <1>5, <1>6

\* The forms, the services and LedgerOS leave rows of the kinds the reports read and leases
\* of different names, and an event is confirmed only when it is posted.  A lease is charged
\* base rent for a billing period at most once, whether a user types it or it is generated; and
\* what is generated, until a form saves it again, is the rent of an active lease by the days it ran in the month, as it
\* stood then, whatever is saved of it later (generate_base_rent_for_month,
\* uniq_base_rent_charge_period, sync_security_deposit_event).
THEOREM Invariance == Spec => [](TypeOK /\ RentCharged)
  <1>1. Init => TypeOK /\ RentCharged
    BY BookAssumption DEF Init, TypeOK, RentCharged, Rent, Rows
  <1>2. TypeOK /\ RentCharged /\ [Next]_vars => TypeOK' /\ RentCharged'
    <2> SUFFICES ASSUME TypeOK, RentCharged, [Next]_vars PROVE TypeOK' /\ RentCharged'
      OBVIOUS
    <2>1. CASE UNCHANGED vars
      BY <2>1 DEF TypeOK, RentCharged, Rent, Rows, vars
    <2>2. ASSUME NEW i \in Ids, Enter(i) PROVE TypeOK' /\ RentCharged'
      BY <2>2, EnterKeeps
    <2>3. ASSUME NEW i \in Ids, EditCharge(i) PROVE TypeOK' /\ RentCharged'
      BY <2>3, EditChargeKeeps
    <2>4. ASSUME NEW i \in Ids, Confirm(i) PROVE TypeOK' /\ RentCharged'
      BY <2>4, ConfirmKeeps
    <2>5. ASSUME NEW i \in Ids, ConfirmPart(i) PROVE TypeOK' /\ RentCharged'
      BY <2>5, ConfirmPartKeeps
    <2>6. ASSUME NEW i \in Ids, Void(i) PROVE TypeOK' /\ RentCharged'
      BY <2>6, VoidKeeps
    <2>7. ASSUME NEW i \in Ids, NEW l \in leases, NEW d \in Dates, GenerateRent(i, l, d)
          PROVE  TypeOK' /\ RentCharged'
      BY <2>7, GenerateRentKeeps
    <2>8. ASSUME NEW l \in Leases, SaveLease(l) PROVE TypeOK' /\ RentCharged'
      BY <2>8, SaveLeaseKeeps
    <2> QED BY <2>1, <2>2, <2>3, <2>4, <2>5, <2>6, <2>7, <2>8 DEF Next
  <1> QED BY <1>1, <1>2, PTL DEF Spec

-----------------------------------------------------------------------------
\* Sums over the rows of a period.

\* The amounts the reports sum, as functions of the slots.
AmountOf    == [i \in Ids |-> Amount(i)]
CollectedOf == [i \in Ids |-> ConfirmedRent(i)]
HeldOf      == [i \in Ids |-> HeldDeposit(i)]
AppliedOf   == [i \in Ids |-> Applied(i)]

\* The rows of a set are slots that are not empty, and finitely many.
LEMMA RowSets ==
  ASSUME NEW kind
  PROVE  /\ Confirmed(kind) \subseteq Rows(kind) /\ Rows(kind) \subseteq Ids
         /\ Standing(Rows(kind)) \subseteq Rows(kind)
         /\ Standing(Confirmed(kind)) \subseteq Confirmed(kind)
         /\ IsFiniteSet(Rows(kind))
  <1>1. /\ Confirmed(kind) \subseteq Rows(kind) /\ Rows(kind) \subseteq Ids
        /\ Standing(Rows(kind)) \subseteq Rows(kind)
        /\ Standing(Confirmed(kind)) \subseteq Confirmed(kind)
    BY DEF Confirmed, Rows, Standing
  <1>2. IsFiniteSet(Rows(kind))
    BY <1>1, BookAssumption, FS_Subset
  <1> QED BY <1>1, <1>2

\* The sums of the reports as sums of functions.
LEMMA SumsOfRows ==
  ASSUME NEW rows \in SUBSET Ids
  PROVE  /\ Sum(rows, Amount) = SumFunctionOnSet(AmountOf, rows)
         /\ Sum(rows, ConfirmedRent) = SumFunctionOnSet(CollectedOf, rows)
         /\ Sum(rows, HeldDeposit) = SumFunctionOnSet(HeldOf, rows)
         /\ Sum(rows, Applied) = SumFunctionOnSet(AppliedOf, rows)
  <1>1. IsFiniteSet(rows)
    BY BookAssumption, FS_Subset
  <1>2. Sum(rows, Amount) = SumFunctionOnSet(AmountOf, rows)
    <2> DEFINE f == [i \in rows |-> Amount(i)]
    <2>1. \A i \in rows : f[i] = AmountOf[i]
      BY DEF AmountOf
    <2> HIDE DEF f
    <2>2. SumFunctionOnSet(f, rows) = SumFunctionOnSet(AmountOf, rows)
      BY <1>1, <2>1, SumSame
    <2> QED BY <2>2 DEF Sum, f
  <1>3. Sum(rows, ConfirmedRent) = SumFunctionOnSet(CollectedOf, rows)
    <2> DEFINE f == [i \in rows |-> ConfirmedRent(i)]
    <2>1. \A i \in rows : f[i] = CollectedOf[i]
      BY DEF CollectedOf
    <2> HIDE DEF f
    <2>2. SumFunctionOnSet(f, rows) = SumFunctionOnSet(CollectedOf, rows)
      BY <1>1, <2>1, SumSame
    <2> QED BY <2>2 DEF Sum, f
  <1>4. Sum(rows, HeldDeposit) = SumFunctionOnSet(HeldOf, rows)
    <2> DEFINE f == [i \in rows |-> HeldDeposit(i)]
    <2>1. \A i \in rows : f[i] = HeldOf[i]
      BY DEF HeldOf
    <2> HIDE DEF f
    <2>2. SumFunctionOnSet(f, rows) = SumFunctionOnSet(HeldOf, rows)
      BY <1>1, <2>1, SumSame
    <2> QED BY <2>2 DEF Sum, f
  <1>5. Sum(rows, Applied) = SumFunctionOnSet(AppliedOf, rows)
    <2> DEFINE f == [i \in rows |-> Applied(i)]
    <2>1. \A i \in rows : f[i] = AppliedOf[i]
      BY DEF AppliedOf
    <2> HIDE DEF f
    <2>2. SumFunctionOnSet(f, rows) = SumFunctionOnSet(AppliedOf, rows)
      BY <1>1, <2>1, SumSame
    <2> QED BY <2>2 DEF Sum, f
  <1> QED BY <1>2, <1>3, <1>4, <1>5

\* The amounts are numbers of cents, and a row has a day.
LEMMA AmountTypes ==
  ASSUME TypeOK
  PROVE  /\ \A i \in Ids : book[i] # None => AmountOf[i] \in Int /\ book[i].date \in Days
         /\ \A i \in Rows("receipt") : /\ CollectedOf[i] \in Nat /\ HeldOf[i] \in Int
                                       /\ AppliedOf[i] \in Nat
  <1>1. ASSUME NEW i \in Ids, book[i] # None
        PROVE  AmountOf[i] \in Int /\ book[i].date \in Days
    <2>1. book[i] \in BookRows
      BY <1>1, SlotType
    <2>2. book[i].amount \in Int /\ book[i].date \in Days
      <3> DEFINE row == book[i]
      <3>1. row \in BookRows
        BY <2>1
      <3> HIDE DEF row
      <3>2. row.amount \in Int /\ row.date \in Days
        <4>1. row \in ChargeRows => row.amount \in Int /\ row.date \in Days
          BY DEF ChargeRows
        <4>2. row \in ReceiptRows => row.amount \in Int /\ row.date \in Days
          BY DEF ReceiptRows
        <4>3. row \in BillRows => row.amount \in Int /\ row.date \in Days
          BY DEF BillRows
        <4>4. row \in EventRows => row.amount \in Int /\ row.date \in Days
          BY DEF EventRows
        <4>5. row \in ActivityRows => row.amount \in Int /\ row.date \in Days
          BY DEF ActivityRows
        <4> QED BY <3>1, <4>1, <4>2, <4>3, <4>4, <4>5 DEF BookRows
      <3> QED BY <3>2 DEF row
    <2> QED BY <2>2 DEF AmountOf, Amount
  <1>2. ASSUME NEW i \in Rows("receipt")
        PROVE  CollectedOf[i] \in Nat /\ HeldOf[i] \in Int /\ AppliedOf[i] \in Nat
    <2>1. i \in Ids /\ book[i] \in ReceiptRows
      BY SlotType, RowKinds DEF Rows
    <2>2. book[i].applied \in Nat /\ book[i].amount \in Nat
      <3> DEFINE row == book[i]
      <3>1. row \in ReceiptRows
        BY <2>1
      <3> HIDE DEF row
      <3>2. row.applied \in Nat /\ row.amount \in Nat
        BY <3>1 DEF ReceiptRows
      <3> QED BY <3>2 DEF row
    <2> QED BY <2>1, <2>2 DEF CollectedOf, HeldOf, AppliedOf, ConfirmedRent, HeldDeposit, Applied
  <1> QED BY <1>1, <1>2

\* A sum over the rows of a period is that over the rows of its parts, when every row of the
\* period is in one of them.
LEMMA Partition ==
  ASSUME NEW B, NEW f, NEW g, NEW of, NEW G, NEW whole,
         IsFiniteSet(B), IsFiniteSet(G), \A i \in B : f[i] \in Int,
         \A i \in In(B, whole) : of[i] \in G,
         \A i \in B : \A k \in G :
           Within(book[i].date, k) <=> Within(book[i].date, whole) /\ of[i] = k,
         \A k \in G : g[k] = SumFunctionOnSet(f, In(B, k))
  PROVE  SumFunctionOnSet(g, G) = SumFunctionOnSet(f, In(B, whole))
  <1> DEFINE S == In(B, whole)
  <1>1. S \subseteq B
    BY DEF In
  <1>2. IsFiniteSet(S)
    BY <1>1, FS_Subset
  <1>3. \A x \in S : f[x] \in Int
    BY <1>1
  <1>4. \A k \in G : g[k] = SumFunctionOnSet(f, Group(of, S, k))
    <2> SUFFICES ASSUME NEW k \in G PROVE g[k] = SumFunctionOnSet(f, Group(of, S, k))
      OBVIOUS
    <2>1. In(B, k) = Group(of, S, k)
      BY DEF In, Group
    <2> QED BY <2>1, Zenon
  <1>5. \A x \in S : f[x] \in Int /\ of[x] \in G
    BY <1>3
  <1> HIDE DEF S
  <1>6. SumFunctionOnSet(g, G) = SumFunctionOnSet(f, S)
    BY <1>2, <1>4, <1>5, SumByGroup
  <1> QED BY <1>6 DEF S

-----------------------------------------------------------------------------
\* The lines of a statement, as sums over the rows of its period.

LineNames ==
  {"charged", "collected", "maintenance", "management", "property", "contributions",
   "distributions", "received", "deducted", "refunded"}

\* The rows of a line, of any period.
Base(line) ==
  CASE line = "charged"       -> Rent(Confirmed("charge"))
    [] line = "collected"     -> Standing(Rows("receipt"))
    [] line = "maintenance"   -> Filed(Confirmed("bill"), "repairs")
                                   \cup Labelled(Confirmed("bill"), TRUE)
    [] line = "management"    -> Filed(Confirmed("bill"), "management")
    [] line = "property"      -> Filed(Confirmed("bill"), "other")
    [] line = "contributions" -> Typed(Confirmed("activity"), "contribution")
    [] line = "distributions" -> Typed(Confirmed("activity"), "distribution")
    [] line = "received"      -> Typed(Confirmed("event"), "received") \cup Standing(Rows("receipt"))
    [] line = "deducted"      -> Typed(Confirmed("event"), "deducted")
    [] line = "refunded"      -> Typed(Confirmed("event"), "refunded")

\* What a row adds to a line.
ReceivedOf == [i \in Ids |-> IF book[i].kind = "receipt" THEN HeldDeposit(i) ELSE Amount(i)]
Of(line) ==
  CASE line = "collected" -> CollectedOf [] line = "received" -> ReceivedOf [] OTHER -> AmountOf

\* What is selected of confirmed rows are rows of that kind.
LEMMA Selected ==
  ASSUME NEW kind, NEW x
  PROVE  /\ Typed(Confirmed(kind), x) \subseteq Rows(kind)
         /\ Filed(Confirmed(kind), x) \subseteq Rows(kind)
         /\ Labelled(Confirmed(kind), x) \subseteq Rows(kind)
         /\ Rent(Confirmed(kind)) \subseteq Rows(kind)
         /\ Standing(Rows(kind)) \subseteq Rows(kind)
BY DEF Typed, Filed, Labelled, Rent, Confirmed, Standing

\* The rows of each line.
LEMMA Bases ==
  /\ Base("charged") = Rent(Confirmed("charge"))
  /\ Base("collected") = Standing(Rows("receipt"))
  /\ Base("maintenance") = Filed(Confirmed("bill"), "repairs") \cup Labelled(Confirmed("bill"), TRUE)
  /\ Base("management") = Filed(Confirmed("bill"), "management")
  /\ Base("property") = Filed(Confirmed("bill"), "other")
  /\ Base("contributions") = Typed(Confirmed("activity"), "contribution")
  /\ Base("distributions") = Typed(Confirmed("activity"), "distribution")
  /\ Base("received") = Typed(Confirmed("event"), "received") \cup Standing(Rows("receipt"))
  /\ Base("deducted") = Typed(Confirmed("event"), "deducted")
  /\ Base("refunded") = Typed(Confirmed("event"), "refunded")
BY DEF Base

\* The kind of the rows of a line.
KindOf(line) ==
  CASE line = "charged" -> "charge"
    [] line \in {"maintenance", "management", "property"} -> "bill"
    [] line \in {"contributions", "distributions"} -> "activity"
    [] line \in {"received", "deducted", "refunded"} -> "event"
    [] line = "collected" -> "receipt"

\* A line counts rows of its kind, and advances also the receipts they came with.
LEMMA KindOfLine ==
  ASSUME NEW line \in LineNames
  PROVE  Base(line) \subseteq Rows(KindOf(line)) \cup (IF line = "received" THEN Rows("receipt") ELSE {})
  <1>1. CASE line = "charged"
    BY <1>1, Bases, Selected DEF KindOf
  <1>2. CASE line = "collected"
    BY <1>2, Bases, Selected DEF KindOf
  <1>3. CASE line = "maintenance"
    BY <1>3, Bases, Selected DEF KindOf
  <1>4. CASE line = "management"
    BY <1>4, Bases, Selected DEF KindOf
  <1>5. CASE line = "property"
    BY <1>5, Bases, Selected DEF KindOf
  <1>6. CASE line = "contributions"
    BY <1>6, Bases, Selected DEF KindOf
  <1>7. CASE line = "distributions"
    BY <1>7, Bases, Selected DEF KindOf
  <1>8. CASE line = "received"
    BY <1>8, Bases, Selected DEF KindOf
  <1>9. CASE line = "deducted"
    BY <1>9, Bases, Selected DEF KindOf
  <1>10. CASE line = "refunded"
    BY <1>10, Bases, Selected DEF KindOf
  <1> QED BY <1>1, <1>2, <1>3, <1>4, <1>5, <1>6, <1>7, <1>8, <1>9, <1>10 DEF LineNames

\* A row is not empty, of its kind, and has an amount.
LEMMA RowFacts ==
  ASSUME TypeOK, NEW kind, NEW i \in Rows(kind)
  PROVE  /\ i \in Ids /\ book[i] # None /\ book[i].kind = kind
         /\ AmountOf[i] = book[i].amount /\ AmountOf[i] \in Int /\ book[i].date \in Days
  <1>1. i \in Ids /\ book[i] # None /\ book[i].kind = kind
    BY DEF Rows
  <1> QED BY <1>1, AmountTypes DEF AmountOf, Amount

\* What a receipt, or an event, adds to the deposits received.
LEMMA ReceivedParts ==
  ASSUME TypeOK
  PROVE  /\ \A i \in Rows("receipt") : ReceivedOf[i] = HeldOf[i] /\ ReceivedOf[i] \in Int
         /\ \A i \in Rows("event") : ReceivedOf[i] = AmountOf[i] /\ ReceivedOf[i] \in Int
  <1>1. ASSUME NEW i \in Rows("receipt") PROVE ReceivedOf[i] = HeldOf[i] /\ ReceivedOf[i] \in Int
    <2>1. i \in Ids /\ book[i].kind = "receipt"
      BY RowFacts
    <2>2. HeldOf[i] \in Int
      BY AmountTypes
    <2> QED BY <2>1, <2>2 DEF ReceivedOf, HeldOf
  <1>2. ASSUME NEW i \in Rows("event") PROVE ReceivedOf[i] = AmountOf[i] /\ ReceivedOf[i] \in Int
    <2>1. i \in Ids /\ book[i].kind = "event"
      BY RowFacts
    <2>2. AmountOf[i] \in Int
      BY RowFacts
    <2> QED BY <2>1, <2>2 DEF ReceivedOf, AmountOf
  <1> QED BY <1>1, <1>2

\* The rows of a line are rows, with a number of cents for each.
LEMMA LineRows ==
  ASSUME TypeOK, NEW line \in LineNames
  PROVE  /\ Base(line) \subseteq Ids /\ IsFiniteSet(Base(line))
         /\ \A i \in Base(line) : book[i] # None /\ book[i].date \in Days /\ Of(line)[i] \in Int
  <1>1. ASSUME NEW i \in Base(line)
        PROVE  i \in Ids /\ book[i] # None /\ book[i].date \in Days /\ Of(line)[i] \in Int
    <2>1. \E kind : i \in Rows(kind)
      BY KindOfLine
    <2>2. i \in Ids /\ book[i] # None /\ book[i].date \in Days /\ AmountOf[i] \in Int
      BY <2>1, RowFacts
    <2>3. Of(line)[i] \in Int
      <3>1. CASE line = "collected"
        <4>1. i \in Rows("receipt")
          BY <3>1, Bases, Selected
        <4>2. CollectedOf[i] \in Int
          BY <4>1, AmountTypes
        <4> QED BY <3>1, <4>2 DEF Of
      <3>2. CASE line = "received"
        <4>1. i \in Rows("event") \cup Rows("receipt")
          BY <3>2, Bases, Selected
        <4>2. ReceivedOf[i] \in Int
          BY <4>1, ReceivedParts
        <4> QED BY <3>2, <4>2 DEF Of
      <3>3. CASE line \notin {"collected", "received"}
        BY <2>2, <3>3 DEF Of
      <3> QED BY <3>1, <3>2, <3>3
    <2> QED BY <2>2, <2>3
  <1>2. Base(line) \subseteq Ids
    BY <1>1
  <1>3. IsFiniteSet(Base(line))
    BY <1>2, BookAssumption, FS_Subset
  <1> QED BY <1>1, <1>2, <1>3

\* A line of a statement is the sum over its rows of the period.
LEMMA StatementLines ==
  ASSUME TypeOK, NEW p
  PROVE  /\ DOMAIN Statement(p).lines = LineNames
         /\ \A line \in LineNames :
              Statement(p).lines[line] = SumFunctionOnSet(Of(line), In(Base(line), p))
  <1> DEFINE lines == Statement(p).lines
             charges == Confirmed("charge")  bills == Confirmed("bill")
             activities == Confirmed("activity")  events == Confirmed("event")
             receipts == Standing(Rows("receipt"))
  <1>1. lines =
          [charged       |-> Sum(Rent(In(charges, p)), Amount),
           collected     |-> Sum(In(receipts, p), ConfirmedRent),
           maintenance   |-> Sum(Filed(In(bills, p), "repairs") \cup Labelled(In(bills, p), TRUE), Amount),
           management    |-> Sum(Filed(In(bills, p), "management"), Amount),
           property      |-> Sum(Filed(In(bills, p), "other"), Amount),
           contributions |-> Sum(Typed(In(activities, p), "contribution"), Amount),
           distributions |-> Sum(Typed(In(activities, p), "distribution"), Amount),
           received      |-> Sum(Typed(In(events, p), "received"), Amount)
                               + Sum(In(receipts, p), HeldDeposit),
           deducted      |-> Sum(Typed(In(events, p), "deducted"), Amount),
           refunded      |-> Sum(Typed(In(events, p), "refunded"), Amount)]
    BY DEF Statement
  <1> HIDE DEF lines
  <1>2. lines.charged = SumFunctionOnSet(Of("charged"), In(Base("charged"), p))
    <2>1. In(Base("charged"), p) = Rent(In(charges, p))
      BY Bases DEF In, Typed, Filed, Labelled, Rent
    <2>2. In(Base("charged"), p) \subseteq Ids
      BY LineRows DEF In, LineNames
    <2>3. Of("charged") = AmountOf
      BY DEF Of
    <2>4. lines.charged = Sum(In(Base("charged"), p), Amount)
      BY <1>1, <2>1
    <2> QED BY <2>2, <2>3, <2>4, SumsOfRows
  <1>3. lines.collected = SumFunctionOnSet(Of("collected"), In(Base("collected"), p))
    <2>1. In(Base("collected"), p) = In(receipts, p)
      BY Bases DEF In, Typed, Filed, Labelled, Rent
    <2>2. In(Base("collected"), p) \subseteq Ids
      BY LineRows DEF In, LineNames
    <2>3. Of("collected") = CollectedOf
      BY DEF Of
    <2>4. lines.collected = Sum(In(Base("collected"), p), ConfirmedRent)
      BY <1>1, <2>1
    <2> QED BY <2>2, <2>3, <2>4, SumsOfRows
  <1>4. lines.maintenance = SumFunctionOnSet(Of("maintenance"), In(Base("maintenance"), p))
    <2>1. In(Base("maintenance"), p) = Filed(In(bills, p), "repairs") \cup Labelled(In(bills, p), TRUE)
      BY Bases DEF In, Typed, Filed, Labelled, Rent
    <2>2. In(Base("maintenance"), p) \subseteq Ids
      BY LineRows DEF In, LineNames
    <2>3. Of("maintenance") = AmountOf
      BY DEF Of
    <2>4. lines.maintenance = Sum(In(Base("maintenance"), p), Amount)
      BY <1>1, <2>1
    <2> QED BY <2>2, <2>3, <2>4, SumsOfRows
  <1>5. lines.management = SumFunctionOnSet(Of("management"), In(Base("management"), p))
    <2>1. In(Base("management"), p) = Filed(In(bills, p), "management")
      BY Bases DEF In, Typed, Filed, Labelled, Rent
    <2>2. In(Base("management"), p) \subseteq Ids
      BY LineRows DEF In, LineNames
    <2>3. Of("management") = AmountOf
      BY DEF Of
    <2>4. lines.management = Sum(In(Base("management"), p), Amount)
      BY <1>1, <2>1
    <2> QED BY <2>2, <2>3, <2>4, SumsOfRows
  <1>6. lines.property = SumFunctionOnSet(Of("property"), In(Base("property"), p))
    <2>1. In(Base("property"), p) = Filed(In(bills, p), "other")
      BY Bases DEF In, Typed, Filed, Labelled, Rent
    <2>2. In(Base("property"), p) \subseteq Ids
      BY LineRows DEF In, LineNames
    <2>3. Of("property") = AmountOf
      BY DEF Of
    <2>4. lines.property = Sum(In(Base("property"), p), Amount)
      BY <1>1, <2>1
    <2> QED BY <2>2, <2>3, <2>4, SumsOfRows
  <1>7. lines.contributions = SumFunctionOnSet(Of("contributions"), In(Base("contributions"), p))
    <2>1. In(Base("contributions"), p) = Typed(In(activities, p), "contribution")
      BY Bases DEF In, Typed, Filed, Labelled, Rent
    <2>2. In(Base("contributions"), p) \subseteq Ids
      BY LineRows DEF In, LineNames
    <2>3. Of("contributions") = AmountOf
      BY DEF Of
    <2>4. lines.contributions = Sum(In(Base("contributions"), p), Amount)
      BY <1>1, <2>1
    <2> QED BY <2>2, <2>3, <2>4, SumsOfRows
  <1>8. lines.distributions = SumFunctionOnSet(Of("distributions"), In(Base("distributions"), p))
    <2>1. In(Base("distributions"), p) = Typed(In(activities, p), "distribution")
      BY Bases DEF In, Typed, Filed, Labelled, Rent
    <2>2. In(Base("distributions"), p) \subseteq Ids
      BY LineRows DEF In, LineNames
    <2>3. Of("distributions") = AmountOf
      BY DEF Of
    <2>4. lines.distributions = Sum(In(Base("distributions"), p), Amount)
      BY <1>1, <2>1
    <2> QED BY <2>2, <2>3, <2>4, SumsOfRows
  <1>9. lines.deducted = SumFunctionOnSet(Of("deducted"), In(Base("deducted"), p))
    <2>1. In(Base("deducted"), p) = Typed(In(events, p), "deducted")
      BY Bases DEF In, Typed, Filed, Labelled, Rent
    <2>2. In(Base("deducted"), p) \subseteq Ids
      BY LineRows DEF In, LineNames
    <2>3. Of("deducted") = AmountOf
      BY DEF Of
    <2>4. lines.deducted = Sum(In(Base("deducted"), p), Amount)
      BY <1>1, <2>1
    <2> QED BY <2>2, <2>3, <2>4, SumsOfRows
  <1>10. lines.refunded = SumFunctionOnSet(Of("refunded"), In(Base("refunded"), p))
    <2>1. In(Base("refunded"), p) = Typed(In(events, p), "refunded")
      BY Bases DEF In, Typed, Filed, Labelled, Rent
    <2>2. In(Base("refunded"), p) \subseteq Ids
      BY LineRows DEF In, LineNames
    <2>3. Of("refunded") = AmountOf
      BY DEF Of
    <2>4. lines.refunded = Sum(In(Base("refunded"), p), Amount)
      BY <1>1, <2>1
    <2> QED BY <2>2, <2>3, <2>4, SumsOfRows
  <1>11. lines.received = SumFunctionOnSet(Of("received"), In(Base("received"), p))
    <2> DEFINE E == Typed(In(events, p), "received")  R == In(receipts, p)
    <2>1. /\ In(Base("received"), p) = E \cup R
          /\ E \subseteq Rows("event") /\ R \subseteq Rows("receipt")
      BY Bases, Selected DEF In, Typed, Confirmed
    <2>2. E \subseteq Ids /\ R \subseteq Ids /\ E \cap R = {}
      BY <2>1 DEF Rows
    <2>3. IsFiniteSet(E) /\ IsFiniteSet(R)
      BY <2>2, BookAssumption, FS_Subset
    <2>4. lines.received = Sum(E, Amount) + Sum(R, HeldDeposit)
      BY <1>1
    <2>5. /\ \A i \in E : ReceivedOf[i] = AmountOf[i] /\ ReceivedOf[i] \in Int
          /\ \A i \in R : ReceivedOf[i] = HeldOf[i] /\ ReceivedOf[i] \in Int
      BY <2>1, ReceivedParts
    <2> HIDE DEF E, R
    <2>6. Sum(E, Amount) = SumFunctionOnSet(AmountOf, E)
      BY <2>2, SumsOfRows
    <2>7. Sum(R, HeldDeposit) = SumFunctionOnSet(HeldOf, R)
      BY <2>2, SumsOfRows
    <2>8. SumFunctionOnSet(ReceivedOf, E) = SumFunctionOnSet(AmountOf, E)
      BY <2>3, <2>5, SumSame
    <2>9. SumFunctionOnSet(ReceivedOf, R) = SumFunctionOnSet(HeldOf, R)
      BY <2>3, <2>5, SumSame
    <2>10. SumFunctionOnSet(ReceivedOf, E \cup R)
             = SumFunctionOnSet(ReceivedOf, E) + SumFunctionOnSet(ReceivedOf, R)
      BY <2>2, <2>3, <2>5, SumUnion
    <2>11. Of("received") = ReceivedOf
      BY DEF Of
    <2> QED BY <2>1, <2>4, <2>6, <2>7, <2>8, <2>9, <2>10, <2>11
  <1>12. DOMAIN lines = LineNames
    BY <1>1 DEF LineNames
  <1>13. \A line \in LineNames : lines[line] = SumFunctionOnSet(Of(line), In(Base(line), p))
    BY <1>2, <1>3, <1>4, <1>5, <1>6, <1>7, <1>8, <1>9, <1>10, <1>11 DEF LineNames
  <1> QED BY <1>12, <1>13 DEF lines

-----------------------------------------------------------------------------
\* Statements of longer periods.

\* The part of a quarter or a year that a month is in.
PartOf(type, y, m) ==
  IF type = "quarter" THEN PeriodBounds("month", <<y, m, 1>>)
  ELSE PeriodBounds("quarter", <<y, ((m - 1) \div 3) * 3 + 1, 1>>)

\* A period of a date depends on its year and month.
LEMMA BoundsOfDate ==
  ASSUME NEW d, NEW type \in {"month", "quarter", "year"}
  PROVE  PeriodBounds(type, d) = PeriodBounds(type, <<d[1], d[2], 1>>)
  <1>1. MonthBounds(d) = MonthBounds(<<d[1], d[2], 1>>)
    BY DEF MonthBounds
  <1>2. CASE type = "month"
    BY <1>1, <1>2 DEF PeriodBounds
  <1>3. CASE type = "quarter"
    BY <1>3 DEF PeriodBounds
  <1>4. CASE type = "year"
    BY <1>4 DEF PeriodBounds
  <1> QED BY <1>2, <1>3, <1>4

\* Months, and quarters, that differ begin on different days.
LEMMA PartsDiffer ==
  ASSUME NEW y \in Int
  PROVE  /\ \A m \in 1..12 : PeriodBounds("month", <<y, m, 1>>).start = <<y, m, 1>>
         /\ \A m \in {1, 4, 7, 10} : PeriodBounds("quarter", <<y, m, 1>>).start = <<y, m, 1>>
  <1>1. ASSUME NEW m \in 1..12 PROVE PeriodBounds("month", <<y, m, 1>>).start = <<y, m, 1>>
    <2> DEFINE n == Length(y, m)
    <2>1. PeriodBounds("month", <<y, m, 1>>) = [start |-> <<y, m, 1>>, end |-> <<y, m, n>>]
      BY MonthIs
    <2> HIDE DEF n
    <2> QED BY <2>1
  <1>2. ASSUME NEW m \in {1, 4, 7, 10} PROVE PeriodBounds("quarter", <<y, m, 1>>).start = <<y, m, 1>>
    <2>1. m \in 1..12 /\ ((m - 1) \div 3) * 3 + 1 = m
      OBVIOUS
    <2> DEFINE f == ((m - 1) \div 3) * 3 + 1
    <2>2. PeriodBounds("quarter", <<y, m, 1>>) = [start |-> <<y, f, 1>>, end |-> <<y, f + 2, Length(y, f + 2)>>]
      BY <2>1, QuarterIs
    <2>3. f = m
      BY <2>1
    <2> HIDE DEF f
    <2> QED BY <2>2, <2>3
  <1> QED BY <1>1, <1>2

\* A day of a quarter is in one of its months, and a day of a year in one of its quarters.
LEMMA PartsCover ==
  ASSUME NEW d \in Days, NEW type \in {"quarter", "year"}
  PROVE  /\ IsFiniteSet(Parts(type, d))
         /\ \A e \in Days : Within(e, PeriodBounds(type, d)) => PartOf(type, d[1], e[2]) \in Parts(type, d)
         /\ \A e \in Days : \A k \in Parts(type, d) :
              Within(e, k) <=> Within(e, PeriodBounds(type, d)) /\ PartOf(type, d[1], e[2]) = k
  <1> DEFINE y == d[1]  n == d[2]
  <1>1. y \in Int /\ n \in 1..12
    BY DayParts, YearType
  <1>2. PeriodBounds(type, d) = PeriodBounds(type, <<y, n, 1>>)
    BY BoundsOfDate
  <1>3. \A e \in Days : e[1] \in Int /\ e[2] \in 1..12
    BY DayNumbers, YearType
  <1>4. CASE type = "quarter"
    <2> DEFINE Q == {m \in 1..12 : (m + 2) \div 3 = (n + 2) \div 3}
               h == [m \in Q |-> PeriodBounds("month", <<y, m, 1>>)]
    <2>1. Parts(type, d) = ImageOf(h, Q)
      <3>1. Parts(type, d) = {PeriodBounds("month", <<y, m, 1>>) : m \in Q}
        BY <1>4 DEF Parts
      <3> QED BY <3>1 DEF ImageOf
    <2>2. IsFiniteSet(Q)
      <3>1. IsFiniteSet(1..12)
        BY 1 \in Int, 12 \in Int, FS_Interval, Zenon
      <3> QED BY <3>1, FS_Subset
    <2>3. IsFiniteSet(Parts(type, d))
      BY <2>1, <2>2, FiniteImage
    <2>4. \A e \in Days : Within(e, PeriodBounds(type, d)) <=> e[1] = y /\ e[2] \in Q
      BY <1>1, <1>2, <1>3, <1>4, Contains
    <2>5. \A e \in Days : PartOf(type, y, e[2]) = PeriodBounds("month", <<y, e[2], 1>>)
      BY <1>4 DEF PartOf
    <2>6. \A e \in Days : \A m \in Q : Within(e, h[m]) <=> e[1] = y /\ e[2] = m
      BY <1>1, <1>3, Contains
    <2>7. \A m \in Q : \A l \in 1..12 : PeriodBounds("month", <<y, l, 1>>) = h[m] => l = m
      <3> SUFFICES ASSUME NEW m \in Q, NEW l \in 1..12, PeriodBounds("month", <<y, l, 1>>) = h[m]
                   PROVE  l = m
        OBVIOUS
      <3>1. PeriodBounds("month", <<y, l, 1>>).start = <<y, l, 1>> /\ h[m].start = <<y, m, 1>>
        BY <1>1, PartsDiffer
      <3>2. <<y, l, 1>> = <<y, m, 1>>
        BY <3>1
      <3> QED BY <3>2
    <2>8. ASSUME NEW e \in Days, Within(e, PeriodBounds(type, d))
          PROVE  PartOf(type, y, e[2]) \in Parts(type, d)
      <3>1. e[2] \in Q
        BY <2>4, <2>8
      <3>2. PartOf(type, y, e[2]) = h[e[2]]
        BY <2>5, <3>1
      <3> HIDE DEF h, Q
      <3> QED BY <2>1, <3>1, <3>2 DEF ImageOf
    <2>9. ASSUME NEW e \in Days, NEW k \in Parts(type, d)
          PROVE  Within(e, k) <=> Within(e, PeriodBounds(type, d)) /\ PartOf(type, y, e[2]) = k
      <3>1. PICK m \in Q : k = h[m]
        BY <2>1 DEF ImageOf
      <3>2. Within(e, k) <=> e[1] = y /\ e[2] = m
        BY <2>6, <3>1
      <3>3. PartOf(type, y, e[2]) = k <=> e[2] = m
        <4>1. e[2] = m => PartOf(type, y, e[2]) = k
          BY <2>5, <3>1
        <4>2. PartOf(type, y, e[2]) = k => e[2] = m
          BY <1>3, <2>5, <2>7, <3>1
        <4> QED BY <4>1, <4>2
      <3> QED BY <2>4, <3>1, <3>2, <3>3
    <2> QED BY <2>3, <2>8, <2>9
  <1>5. CASE type = "year"
    <2> DEFINE Q == {1, 4, 7, 10}
               h == [m \in Q |-> PeriodBounds("quarter", <<y, m, 1>>)]
               first(m) == ((m - 1) \div 3) * 3 + 1
    <2>1. Parts(type, d) = ImageOf(h, Q)
      BY <1>5 DEF Parts, ImageOf
    <2>2. IsFiniteSet(Q)
      <3>1. Q \subseteq 1..12
        OBVIOUS
      <3>2. IsFiniteSet(1..12)
        BY 1 \in Int, 12 \in Int, FS_Interval, Zenon
      <3> QED BY <3>1, <3>2, FS_Subset
    <2>3. IsFiniteSet(Parts(type, d))
      BY <2>1, <2>2, FiniteImage
    <2>4. \A e \in Days : Within(e, PeriodBounds(type, d)) <=> e[1] = y
      BY <1>1, <1>2, <1>5, Contains
    <2>5. \A e \in Days : PartOf(type, y, e[2]) = PeriodBounds("quarter", <<y, first(e[2]), 1>>)
      BY <1>5 DEF PartOf
    <2>6. \A l \in 1..12 : /\ first(l) \in Q
                           /\ \A m \in Q : (l + 2) \div 3 = (m + 2) \div 3 <=> first(l) = m
      OBVIOUS
    <2>7. ASSUME NEW e \in Days, NEW m \in Q
          PROVE  Within(e, h[m]) <=> e[1] = y /\ first(e[2]) = m
      <3>1. m \in 1..12
        OBVIOUS
      <3>2. Within(e, PeriodBounds("quarter", <<y, m, 1>>))
              <=> e[1] = y /\ (e[2] + 2) \div 3 = (m + 2) \div 3
        BY <1>1, <3>1, Contains
      <3>3. (e[2] + 2) \div 3 = (m + 2) \div 3 <=> first(e[2]) = m
        BY <1>3, <2>6
      <3>4. h[m] = PeriodBounds("quarter", <<y, m, 1>>)
        OBVIOUS
      <3> QED BY <3>2, <3>3, <3>4
    <2> HIDE DEF first
    <2>8. \A m \in Q, l \in Q : PeriodBounds("quarter", <<y, l, 1>>) = h[m] => l = m
      <3> SUFFICES ASSUME NEW m \in Q, NEW l \in Q, PeriodBounds("quarter", <<y, l, 1>>) = h[m]
                   PROVE  l = m
        OBVIOUS
      <3>1. PeriodBounds("quarter", <<y, l, 1>>).start = <<y, l, 1>> /\ h[m].start = <<y, m, 1>>
        BY <1>1, PartsDiffer
      <3>2. <<y, l, 1>> = <<y, m, 1>>
        BY <3>1
      <3> QED BY <3>2
    <2>9. ASSUME NEW e \in Days
          PROVE  PartOf(type, y, e[2]) \in Parts(type, d)
      <3>1. first(e[2]) \in Q
        BY <1>3, <2>6
      <3>2. PartOf(type, y, e[2]) = h[first(e[2])]
        BY <2>5, <3>1
      <3> HIDE DEF h, Q
      <3> QED BY <2>1, <3>1, <3>2 DEF ImageOf
    <2>10. ASSUME NEW e \in Days, NEW k \in Parts(type, d)
           PROVE  Within(e, k) <=> Within(e, PeriodBounds(type, d)) /\ PartOf(type, y, e[2]) = k
      <3>1. PICK m \in Q : k = h[m]
        BY <2>1 DEF ImageOf
      <3>2. Within(e, k) <=> e[1] = y /\ first(e[2]) = m
        BY <2>7, <3>1
      <3>3. PartOf(type, y, e[2]) = k <=> first(e[2]) = m
        <4>1. first(e[2]) = m => PartOf(type, y, e[2]) = k
          BY <2>5, <3>1
        <4>2. PartOf(type, y, e[2]) = k => first(e[2]) = m
          BY <1>3, <2>5, <2>6, <2>8, <3>1
        <4> QED BY <4>1, <4>2
      <3> QED BY <2>4, <3>1, <3>2, <3>3
    <2> QED BY <2>3, <2>9, <2>10
  <1> QED BY <1>4, <1>5

\* A line of the statement for a quarter or a year adds up those of its parts.
LEMMA StatementParts ==
  ASSUME TypeOK, NEW d \in Days, NEW type \in {"quarter", "year"}, NEW line \in LineNames, NEW g,
         \A k \in Parts(type, d) : g[k] = Statement(k).lines[line]
  PROVE  SumFunctionOnSet(g, Parts(type, d)) = Statement(PeriodBounds(type, d)).lines[line]
  <1> DEFINE G == Parts(type, d)  B == Base(line)  f == Of(line)
             whole == PeriodBounds(type, d)
             of == [i \in Ids |-> PartOf(type, d[1], book[i].date[2])]
  <1>1. /\ IsFiniteSet(G)
        /\ \A e \in Days : Within(e, whole) => PartOf(type, d[1], e[2]) \in G
        /\ \A e \in Days : \A k \in G :
             Within(e, k) <=> Within(e, whole) /\ PartOf(type, d[1], e[2]) = k
    BY PartsCover
  <1>2. B \subseteq Ids /\ IsFiniteSet(B) /\ \A i \in B : book[i].date \in Days /\ f[i] \in Int
    BY LineRows
  <1>3. \A k \in G : g[k] = SumFunctionOnSet(f, In(B, k))
    BY StatementLines
  <1>4. Statement(whole).lines[line] = SumFunctionOnSet(f, In(B, whole))
    BY StatementLines
  <1>5. \A i \in B : of[i] = PartOf(type, d[1], book[i].date[2])
    BY <1>2
  <1> HIDE DEF G, B, f, whole, of
  <1>6. \A i \in In(B, whole) : of[i] \in G
    BY <1>1, <1>2, <1>5 DEF In
  <1>7. \A i \in B : \A k \in G :
          Within(book[i].date, k) <=> Within(book[i].date, whole) /\ of[i] = k
    BY <1>1, <1>2, <1>5
  <1>8. \A i \in B : f[i] \in Int
    BY <1>2
  <1>9. SumFunctionOnSet(g, G) = SumFunctionOnSet(f, In(B, whole))
    BY <1>1, <1>2, <1>3, <1>6, <1>7, <1>8, Partition
  <1> QED BY <1>4, <1>9 DEF G, whole

\* The statements of the parts, as the report shows them.
LEMMA PartsShown ==
  ASSUME TypeOK, NEW d \in Days, NEW type \in {"quarter", "year"}, NEW line \in LineNames
  PROVE  Sum({<<p, Statement(p).lines>> : p \in Parts(type, d)}, LAMBDA p : p[2][line])
           = Statement(PeriodBounds(type, d)).lines[line]
  <1> DEFINE G == Parts(type, d)
             parts == {<<p, Statement(p).lines>> : p \in G}
             f == [q \in parts |-> q[2][line]]
             g == [p \in G |-> Statement(p).lines[line]]
             h == [p \in G |-> <<p, Statement(p).lines>>]
  <1>1. IsFiniteSet(G)
    BY PartsCover
  <1>2. parts = ImageOf(h, G)
    BY DEF ImageOf
  <1>3. \A p \in G : h[p][1] = p /\ f[h[p]] = g[p]
    OBVIOUS
  <1>4. \A p \in G : g[p] \in Int
    <2> SUFFICES ASSUME NEW p \in G PROVE g[p] \in Int
      OBVIOUS
    <2>1. g[p] = SumFunctionOnSet(Of(line), In(Base(line), p))
      BY StatementLines
    <2>2. In(Base(line), p) \subseteq Base(line) /\ IsFiniteSet(Base(line))
      BY LineRows DEF In
    <2>3. IsFiniteSet(In(Base(line), p)) /\ \A i \in In(Base(line), p) : Of(line)[i] \in Int
      BY <2>2, LineRows, FS_Subset
    <2> QED BY <2>1, <2>3, SumType
  <1>5. \A p \in G : g[p] = Statement(p).lines[line]
    OBVIOUS
  <1>6. SumFunctionOnSet(g, G) = Statement(PeriodBounds(type, d)).lines[line]
    <2> HIDE DEF g
    <2> QED BY <1>5, StatementParts DEF G
  <1>7. Sum(parts, LAMBDA p : p[2][line]) = SumFunctionOnSet(f, parts)
    BY DEF Sum
  <1>8. \A p \in G : g[p] \in Int /\ f[h[p]] = g[p]
    BY <1>3, <1>4
  <1>9. \A p \in G, q \in G : h[p] = h[q] => p = q
    BY <1>3
  <1> HIDE DEF f, g, h, G, parts
  <1>10. SumFunctionOnSet(f, ImageOf(h, G)) = SumFunctionOnSet(g, G)
    BY <1>1, <1>8, <1>9, SumRenamed
  <1>11. Sum(parts, LAMBDA p : p[2][line]) = Statement(PeriodBounds(type, d)).lines[line]
    BY <1>2, <1>6, <1>7, <1>10
  <1> QED BY <1>11 DEF parts, G

-----------------------------------------------------------------------------
\* The ledger of a tenant from a month to the next.

\* What is before the first of the next month is before that of the month or in it.
LEMMA NextMonth ==
  ASSUME NEW d \in Days, NEW e \in Days
  PROVE  LET month == MonthBounds(d)  next == MonthBounds(DayAfter(month.end)) IN
         /\ Before(e, next.start) <=> Before(e, month.start) \/ Within(e, month)
         /\ ~(Before(e, month.start) /\ Within(e, month))
  <1> DEFINE y == d[1]  m == d[2]  n == Length(y, m)
             month == MonthBounds(d)  next == MonthBounds(DayAfter(month.end))
             z == IF m = 12 THEN <<y + 1, 1, 1>> ELSE <<y, m + 1, 1>>
  <1>1. y \in Int /\ m \in 1..12 /\ n \in 28..31
    BY DayParts, YearType
  <1>2. month = [start |-> <<y, m, 1>>, end |-> <<y, m, n>>]
    <2>1. PeriodBounds("month", d) = PeriodBounds("month", <<y, m, 1>>)
      BY BoundsOfDate
    <2>2. PeriodBounds("month", d) = month
      BY DEF PeriodBounds
    <2> QED BY <1>1, <2>1, <2>2, MonthIs
  <1>3. DayAfter(month.end) = z
    <2>1. month.end = <<y, m, Length(y, m)>>
      BY <1>2
    <2>2. CASE m = 12
      <3>1. DayAfter(<<y, m, Length(y, m)>>) = <<y + 1, 1, 1>>
        BY <1>1, <2>2, MonthEnd
      <3> QED BY <2>1, <2>2, <3>1
    <2>3. CASE m # 12
      <3>1. m < 12
        BY <1>1, <2>3
      <3>2. DayAfter(<<y, m, Length(y, m)>>) = <<y, m + 1, 1>>
        BY <1>1, <3>1, MonthEnd
      <3> QED BY <2>1, <2>3, <3>2
    <2> QED BY <2>2, <2>3
  <1>4. next.start = z
    <2>1. CASE m = 12
      <3>1. y + 1 \in Int /\ 1 \in 1..12
        BY <1>1
      <3> DEFINE w == y + 1
      <3> HIDE DEF w
      <3>2. w \in Int
        BY <3>1 DEF w
      <3>3. MonthBounds(<<w, 1, 1>>) = [start |-> <<w, 1, 1>>, end |-> <<w, 1, Length(w, 1)>>]
        BY <3>1, <3>2, MonthIs
      <3> QED BY <1>3, <2>1, <3>3 DEF w
    <2>2. CASE m # 12
      <3> DEFINE w == m + 1
      <3>1. w \in 1..12
        BY <1>1, <2>2
      <3> HIDE DEF w
      <3>2. MonthBounds(<<y, w, 1>>) = [start |-> <<y, w, 1>>, end |-> <<y, w, Length(y, w)>>]
        BY <1>1, <3>1, MonthIs
      <3> QED BY <1>3, <2>2, <3>2 DEF w
    <2> QED BY <2>1, <2>2
  <1>5. e[1] \in Int /\ e[2] \in 1..12 /\ e[3] \in 1..31 /\ e[3] <= Length(e[1], e[2])
    BY DayNumbers, YearType
  <1>6. Within(e, month) <=> e[1] = y /\ e[2] = m
    <2>1. Within(e, PeriodBounds("month", <<y, m, 1>>)) <=> e[1] = y /\ e[2] = m
      BY <1>1, Contains
    <2>2. PeriodBounds("month", <<y, m, 1>>) = MonthBounds(<<y, m, 1>>)
      BY <1>1, MonthIs
    <2>3. MonthBounds(<<y, m, 1>>) = month
      BY <1>1, <1>2, MonthIs
    <2> QED BY <2>1, <2>2, <2>3
  <1>7. month.start = <<y, m, 1>>
    BY <1>2
  <1> HIDE DEF y, m, n, month, next
  <1>8. Before(e, month.start) <=> e[1] < y \/ (e[1] = y /\ e[2] < m)
    BY <1>1, <1>5, <1>7 DEF Before
  <1>9. Before(e, next.start) <=> e[1] < y \/ (e[1] = y /\ e[2] <= m)
    <2>1. CASE m = 12
      <3>1. next.start = <<y + 1, 1, 1>>
        BY <1>4, <2>1
      <3> QED BY <1>1, <1>5, <2>1, <3>1 DEF Before
    <2>2. CASE m # 12
      <3>1. next.start = <<y, m + 1, 1>>
        BY <1>4, <2>2
      <3> QED BY <1>1, <1>5, <2>2, <3>1 DEF Before
    <2> QED BY <2>1, <2>2
  <1>10. /\ Before(e, next.start) <=> Before(e, month.start) \/ Within(e, month)
         /\ ~(Before(e, month.start) /\ Within(e, month))
    BY <1>1, <1>5, <1>6, <1>8, <1>9
  <1> QED BY <1>10 DEF month, next

\* The rows before the next month are those before the month and those of it, once.
LEMMA CarriedOver ==
  ASSUME NEW B, NEW f, NEW d \in Days, IsFiniteSet(B),
         \A i \in B : f[i] \in Int /\ book[i].date \in Days
  PROVE  LET month == MonthBounds(d)  next == MonthBounds(DayAfter(month.end)) IN
         SumFunctionOnSet(f, Earlier(B, next.start))
           = SumFunctionOnSet(f, Earlier(B, month.start)) + SumFunctionOnSet(f, In(B, month))
  <1> DEFINE month == MonthBounds(d)  next == MonthBounds(DayAfter(month.end))
             E == Earlier(B, month.start)  I == In(B, month)
  <1>1. \A i \in B : /\ Before(book[i].date, next.start)
                          <=> Before(book[i].date, month.start) \/ Within(book[i].date, month)
                     /\ ~(Before(book[i].date, month.start) /\ Within(book[i].date, month))
    BY NextMonth
  <1> HIDE DEF month, next
  <1>2. Earlier(B, next.start) = E \cup I /\ E \cap I = {} /\ E \subseteq B /\ I \subseteq B
    BY <1>1 DEF Earlier, In
  <1>3. IsFiniteSet(E) /\ IsFiniteSet(I) /\ \A i \in E \cup I : f[i] \in Int
    BY <1>2, FS_Subset
  <1>4. E \cap I = {}
    BY <1>2
  <1> HIDE DEF E, I
  <1>5. SumFunctionOnSet(f, E \cup I) = SumFunctionOnSet(f, E) + SumFunctionOnSet(f, I)
    BY <1>3, <1>4, SumUnion
  <1> QED BY <1>2, <1>5 DEF E, I, month, next

\* A tenant's ledger opens a month with what it closed the month before with.
LEMMA LedgerCarries ==
  ASSUME TypeOK, NEW d \in Days
  PROVE  LET month == MonthBounds(d) IN
         TenantLedger(MonthBounds(DayAfter(month.end))).opening = TenantLedger(month).closing
  <1> DEFINE month == MonthBounds(d)  next == MonthBounds(DayAfter(month.end))
             C == Standing(Confirmed("charge"))  R == Standing(Rows("receipt"))
  <1>1. C \subseteq Rows("charge") /\ R \subseteq Rows("receipt")
    BY RowSets
  <1>2. C \subseteq Ids /\ R \subseteq Ids /\ IsFiniteSet(C) /\ IsFiniteSet(R)
    BY <1>1, RowSets, FS_Subset
  <1>3. /\ \A i \in C : AmountOf[i] \in Int /\ book[i].date \in Days
        /\ \A i \in R : CollectedOf[i] \in Int /\ book[i].date \in Days
    <2>1. \A i \in C : AmountOf[i] \in Int /\ book[i].date \in Days
      BY <1>1, RowFacts
    <2>2. \A i \in R : CollectedOf[i] \in Nat
      BY <1>1, AmountTypes
    <2>3. \A i \in R : book[i].date \in Days
      BY <1>1, RowFacts
    <2> QED BY <2>1, <2>2, <2>3
  <1>4. /\ Earlier(C, month.start) \subseteq Ids /\ Earlier(C, next.start) \subseteq Ids
        /\ Earlier(R, month.start) \subseteq Ids /\ Earlier(R, next.start) \subseteq Ids
        /\ In(C, month) \subseteq Ids /\ In(R, month) \subseteq Ids
    BY <1>2 DEF Earlier, In
  <1>5. \A p : TenantLedger(p).opening
                 = Sum(Earlier(C, p.start), Amount) - Sum(Earlier(R, p.start), ConfirmedRent)
    BY DEF TenantLedger
  <1>6. TenantLedger(month).closing
          = TenantLedger(month).opening + Sum(In(C, month), Amount) - Sum(In(R, month), ConfirmedRent)
    BY DEF TenantLedger
  <1>7. SumFunctionOnSet(AmountOf, Earlier(C, next.start))
          = SumFunctionOnSet(AmountOf, Earlier(C, month.start)) + SumFunctionOnSet(AmountOf, In(C, month))
    BY <1>2, <1>3, CarriedOver
  <1>8. SumFunctionOnSet(CollectedOf, Earlier(R, next.start))
          = SumFunctionOnSet(CollectedOf, Earlier(R, month.start))
              + SumFunctionOnSet(CollectedOf, In(R, month))
    BY <1>2, <1>3, CarriedOver
  <1> HIDE DEF C, R, month, next
  <1>9. /\ Sum(Earlier(C, next.start), Amount) = SumFunctionOnSet(AmountOf, Earlier(C, next.start))
        /\ Sum(Earlier(C, month.start), Amount) = SumFunctionOnSet(AmountOf, Earlier(C, month.start))
        /\ Sum(In(C, month), Amount) = SumFunctionOnSet(AmountOf, In(C, month))
    BY <1>4, SumsOfRows
  <1>10. /\ Sum(Earlier(R, next.start), ConfirmedRent) = SumFunctionOnSet(CollectedOf, Earlier(R, next.start))
         /\ Sum(Earlier(R, month.start), ConfirmedRent) = SumFunctionOnSet(CollectedOf, Earlier(R, month.start))
         /\ Sum(In(R, month), ConfirmedRent) = SumFunctionOnSet(CollectedOf, In(R, month))
    BY <1>4, SumsOfRows
  <1>11. /\ SumFunctionOnSet(AmountOf, Earlier(C, month.start)) \in Int
         /\ SumFunctionOnSet(AmountOf, In(C, month)) \in Int
    <2>1. Earlier(C, month.start) \subseteq C /\ In(C, month) \subseteq C
      BY DEF Earlier, In
    <2>2. IsFiniteSet(Earlier(C, month.start)) /\ IsFiniteSet(In(C, month))
      BY <1>2, <2>1, FS_Subset
    <2>3. /\ \A i \in Earlier(C, month.start) : AmountOf[i] \in Int
          /\ \A i \in In(C, month) : AmountOf[i] \in Int
      BY <1>3, <2>1
    <2> QED BY <2>2, <2>3, SumType
  <1>12. /\ SumFunctionOnSet(CollectedOf, Earlier(R, month.start)) \in Int
         /\ SumFunctionOnSet(CollectedOf, In(R, month)) \in Int
    <2>1. Earlier(R, month.start) \subseteq R /\ In(R, month) \subseteq R
      BY DEF Earlier, In
    <2>2. IsFiniteSet(Earlier(R, month.start)) /\ IsFiniteSet(In(R, month))
      BY <1>2, <2>1, FS_Subset
    <2>3. /\ \A i \in Earlier(R, month.start) : CollectedOf[i] \in Int
          /\ \A i \in In(R, month) : CollectedOf[i] \in Int
      BY <1>3, <2>1
    <2> QED BY <2>2, <2>3, SumType
  <1>13. TenantLedger(next).opening = TenantLedger(month).closing
    <2>1. TenantLedger(next).opening
            = Sum(Earlier(C, next.start), Amount) - Sum(Earlier(R, next.start), ConfirmedRent)
      BY <1>5
    <2>2. TenantLedger(month).opening
            = Sum(Earlier(C, month.start), Amount) - Sum(Earlier(R, month.start), ConfirmedRent)
      BY <1>5
    <2> QED BY <1>6, <1>7, <1>8, <1>9, <1>10, <1>11, <1>12, <2>1, <2>2
  <1> QED BY <1>13 DEF month, next

\* The owner's statement for a year adds up those of its quarters and they those of their
\* months, and a tenant's ledger carries its closing balance over, whatever rows there are and
\* whatever LedgerOS has confirmed of them (statement_period_bounds, tenant_ledger).
THEOREM Periods == Spec => []PeriodsAddUp
  <1>1. TypeOK => PeriodsAddUp
    <2> SUFFICES ASSUME TypeOK PROVE PeriodsAddUp
      OBVIOUS
    <2>1. ASSUME NEW type \in {"quarter", "year"},
                 NEW first \in {PeriodBounds(type, d).start : d \in Dates}
          PROVE  LET whole == Statement(PeriodBounds(type, first)).lines
                     parts == {<<p, Statement(p).lines>> : p \in Parts(type, first)} IN
                 \A line \in DOMAIN whole : whole[line] = Sum(parts, LAMBDA p : p[2][line])
      <3>1. first \in Days
        BY BookAssumption, FirstOf
      <3>2. ASSUME NEW line \in DOMAIN Statement(PeriodBounds(type, first)).lines
            PROVE  Statement(PeriodBounds(type, first)).lines[line]
                     = Sum({<<p, Statement(p).lines>> : p \in Parts(type, first)}, LAMBDA p : p[2][line])
        <4>1. line \in LineNames
          BY <3>2, StatementLines
        <4> QED BY <3>1, <4>1, PartsShown
      <3> QED BY <3>2
    <2>2. ASSUME NEW month \in {MonthBounds(d) : d \in Dates}
          PROVE  TenantLedger(MonthBounds(DayAfter(month.end))).opening = TenantLedger(month).closing
      <3>1. PICK d \in Days : month = MonthBounds(d)
        BY BookAssumption
      <3> QED BY <3>1, LedgerCarries
    <2> QED BY <2>1, <2>2 DEF PeriodsAddUp
  <1> QED BY <1>1, Invariance, PTL

-----------------------------------------------------------------------------
\* Reports that are computed apart.

\* Bills and deposit events stand once they are saved, and a confirmed event is posted.
LEMMA NeverVoided ==
  ASSUME TypeOK
  PROVE  /\ Standing(Confirmed("bill")) = Confirmed("bill")
         /\ Standing(Confirmed("event")) = Confirmed("event")
         /\ \A i \in Confirmed("event") : book[i].type \in {"received", "refunded"}
  <1>1. ASSUME NEW i \in Rows("bill") PROVE ~book[i].voided
    <2>1. book[i] \in BillRows
      BY RowFacts, SlotType, RowKinds
    <2> QED BY <2>1 DEF BillRows
  <1>2. ASSUME NEW i \in Rows("event") PROVE ~book[i].voided
    <2>1. book[i] \in EventRows
      BY RowFacts, SlotType, RowKinds
    <2> QED BY <2>1 DEF EventRows
  <1>3. ASSUME NEW i \in Confirmed("event") PROVE book[i].type \in {"received", "refunded"}
    BY DEF Confirmed, TypeOK, Postable
  <1> QED BY <1>1, <1>2, <1>3 DEF Standing, Confirmed

\* The deposits held are what was received less what was deducted and refunded.
LEMMA DepositsAgree ==
  ASSUME TypeOK, NEW p
  PROVE  LET lines == Statement(p).lines IN
         DepositLedger(p) = lines.received - lines.deducted - lines.refunded
  <1> DEFINE E == In(Confirmed("event"), p)  R == In(Standing(Rows("receipt")), p)
             in == Typed(E, "received")  back == Typed(E, "refunded")
             off == Typed(E, "deducted")
             signed == [i \in E |-> Signed(i)]
  <1>1. /\ Statement(p).lines.received = Sum(in, Amount) + Sum(R, HeldDeposit)
        /\ Statement(p).lines.deducted = Sum(off, Amount)
        /\ Statement(p).lines.refunded = Sum(back, Amount)
    BY DEF Statement
  <1>2. E \subseteq Rows("event") /\ \A i \in E : book[i].type \in {"received", "refunded"}
    BY NeverVoided DEF In, Confirmed
  <1>3. DepositLedger(p) = SumFunctionOnSet(signed, E) + Sum(R, HeldDeposit)
    BY NeverVoided DEF DepositLedger, Sum
  <1>4. \A i \in E : /\ i \in Ids /\ AmountOf[i] \in Int
                     /\ signed[i] = IF book[i].type = "received" THEN AmountOf[i] ELSE -AmountOf[i]
    <2> SUFFICES ASSUME NEW i \in E
                 PROVE  /\ i \in Ids /\ AmountOf[i] \in Int
                        /\ signed[i] = IF book[i].type = "received" THEN AmountOf[i] ELSE -AmountOf[i]
      OBVIOUS
    <2>1. i \in Ids /\ AmountOf[i] \in Int
      BY <1>2, RowFacts
    <2> QED BY <2>1 DEF Signed, AmountOf
  <1>5. in \cup back = E /\ in \cap back = {} /\ off = {}
    BY <1>2 DEF Typed
  <1>6. /\ \A i \in in : signed[i] = AmountOf[i]
        /\ \A i \in back : AmountOf[i] \in Int /\ signed[i] = -AmountOf[i]
        /\ \A i \in in \cup back : signed[i] \in Int
    BY <1>4 DEF Typed
  <1>7. E \subseteq Ids /\ in \subseteq Ids /\ back \subseteq Ids /\ off \subseteq Ids /\ R \subseteq Ids
    BY <1>4, RowSets DEF Typed, In
  <1>8. IsFiniteSet(in) /\ IsFiniteSet(back)
    BY <1>7, BookAssumption, FS_Subset
  <1>9. Sum(R, HeldDeposit) \in Int
    <2>1. R \subseteq Rows("receipt") /\ \A i \in R : HeldOf[i] \in Int
      BY RowSets, AmountTypes DEF In
    <2>2. IsFiniteSet(R)
      BY <1>7, BookAssumption, FS_Subset
    <2>3. SumFunctionOnSet(HeldOf, R) \in Int
      BY <2>1, <2>2, SumType
    <2> QED BY <1>7, <2>3, SumsOfRows
  <1> HIDE DEF E, R, in, back, off, signed
  <1>10. SumFunctionOnSet(signed, in \cup back)
           = SumFunctionOnSet(signed, in) + SumFunctionOnSet(signed, back)
    BY <1>5, <1>6, <1>8, SumUnion
  <1>11. SumFunctionOnSet(signed, in) = SumFunctionOnSet(AmountOf, in)
    BY <1>6, <1>8, SumSame
  <1>12. SumFunctionOnSet(signed, back) = -SumFunctionOnSet(AmountOf, back)
    BY <1>6, <1>8, SumNegated
  <1>13. /\ Sum(in, Amount) = SumFunctionOnSet(AmountOf, in)
         /\ Sum(back, Amount) = SumFunctionOnSet(AmountOf, back)
         /\ Sum(off, Amount) = SumFunctionOnSet(AmountOf, off)
    BY <1>7, SumsOfRows
  <1>14. SumFunctionOnSet(AmountOf, off) = 0
    BY <1>5, SumOfNothing
  <1>15. SumFunctionOnSet(AmountOf, in) \in Int /\ SumFunctionOnSet(AmountOf, back) \in Int
    <2>1. /\ \A i \in in : AmountOf[i] \in Int
          /\ \A i \in back : AmountOf[i] \in Int
      BY <1>4, <1>5
    <2> QED BY <1>8, <2>1, SumType
  <1>16. SumFunctionOnSet(signed, E) = SumFunctionOnSet(signed, in \cup back)
    BY <1>5
  <1> QED BY <1>1, <1>3, <1>9, <1>10, <1>11, <1>12, <1>13, <1>14, <1>15, <1>16

\* Every bill is of one category, labelled or not.
LEMMA BillsAgree ==
  ASSUME TypeOK, NEW p
  PROVE  IncomeExpense(p).expense = Sum(Categories \X BOOLEAN, LAMBDA g : BillsByCategory(p)[g])
  <1> DEFINE S == In(Standing(Confirmed("bill")), p)  G == Categories \X BOOLEAN
             by == [g \in G |-> BillsByCategory(p)[g]]
             of == [i \in Ids |-> <<book[i].category, book[i].labelled>>]
  <1>1. IncomeExpense(p).expense = Sum(S, Amount)
    BY DEF IncomeExpense
  <1>2. Sum(G, LAMBDA g : BillsByCategory(p)[g]) = SumFunctionOnSet(by, G)
    BY DEF Sum
  <1>3. S \subseteq Rows("bill")
    BY RowSets DEF In
  <1>4. \A i \in S : i \in Ids /\ AmountOf[i] \in Int
    BY <1>3, RowFacts
  <1>5. \A i \in S : of[i] \in G
    <2> SUFFICES ASSUME NEW i \in S PROVE of[i] \in G
      OBVIOUS
    <2>1. book[i] \in BillRows /\ i \in Ids
      BY <1>3, RowFacts, SlotType, RowKinds
    <2>2. book[i].category \in Categories /\ book[i].labelled \in BOOLEAN
      BY <2>1 DEF BillRows
    <2> QED BY <2>1, <2>2
  <1>6. \A g \in G : by[g] = SumFunctionOnSet(AmountOf, Group(of, S, g))
    <2> SUFFICES ASSUME NEW g \in G PROVE by[g] = SumFunctionOnSet(AmountOf, Group(of, S, g))
      OBVIOUS
    <2>1. g = <<g[1], g[2]>>
      OBVIOUS
    <2>2. Labelled(Filed(S, g[1]), g[2]) = Group(of, S, g)
      BY <1>4, <2>1 DEF Labelled, Filed, Group
    <2>3. by[g] = Sum(Labelled(Filed(S, g[1]), g[2]), Amount)
      BY DEF BillsByCategory
    <2>4. Group(of, S, g) \subseteq Ids
      BY <1>4 DEF Group
    <2> HIDE DEF by, of, S, G
    <2>5. Sum(Group(of, S, g), Amount) = SumFunctionOnSet(AmountOf, Group(of, S, g))
      BY <2>4, SumsOfRows
    <2> QED BY <2>2, <2>3, <2>5
  <1>7. IsFiniteSet(G)
    <2>1. IsFiniteSet(BOOLEAN) /\ IsFiniteSet(Categories)
      <3>1. BOOLEAN = {} \cup {TRUE} \cup {FALSE}
        OBVIOUS
      <3>2. Categories = {} \cup {"repairs"} \cup {"management"} \cup {"other"}
        BY DEF Categories
      <3>3. \A T, x : IsFiniteSet(T) => IsFiniteSet(T \cup {x})
        BY FS_AddElement
      <3>4. IsFiniteSet({} \cup {TRUE}) /\ IsFiniteSet({} \cup {"repairs"})
        BY <3>3, FS_EmptySet
      <3>5. IsFiniteSet({} \cup {"repairs"} \cup {"management"})
        BY <3>3, <3>4
      <3>6. IsFiniteSet(({} \cup {TRUE}) \cup {FALSE})
        BY <3>3, <3>4
      <3>7. IsFiniteSet(({} \cup {"repairs"} \cup {"management"}) \cup {"other"})
        BY <3>3, <3>5
      <3> QED BY <3>1, <3>2, <3>6, <3>7
    <2> QED BY <2>1, FS_Product
  <1>8. S \subseteq Ids
    BY <1>4
  <1>9. IsFiniteSet(S)
    BY <1>8, BookAssumption, FS_Subset
  <1> HIDE DEF S, G, by, of
  <1>10. \A i \in S : AmountOf[i] \in Int /\ of[i] \in G
    BY <1>4, <1>5
  <1>11. SumFunctionOnSet(by, G) = SumFunctionOnSet(AmountOf, S)
    BY <1>6, <1>7, <1>9, <1>10, SumByGroup
  <1>12. Sum(S, Amount) = SumFunctionOnSet(AmountOf, S)
    BY <1>8, SumsOfRows
  <1> QED BY <1>1, <1>2, <1>11, <1>12 DEF G

\* What a tenant owes in all is found among the invoices, once all of them are due.
LEMMA OwedIsDelinquent ==
  ASSUME TypeOK
  PROVE  LET day == <<MaxYear, 12, 31>> IN TenantLedger(Until(day)).closing <= Delinquency(day)
  <1> DEFINE day == <<MaxYear, 12, 31>>  p == Until(day)
             C == Standing(Confirmed("charge"))  R == Standing(Rows("receipt"))
             P == {i \in Standing(Confirmed("receipt")) : book[i].done /\ book[i].to \in C}
             of == [i \in Ids |-> book[i].to]
             paid == [c \in Ids |-> SumFunctionOnSet(AppliedOf, Paying(c))]
             unpaid == [c \in Ids |-> Unpaid(c)]
  <1>1. \A e \in Days : /\ ~Before(e, <<1, 1, 1>>) /\ ~Before(day, e)
                        /\ Within(e, p)
    <2> SUFFICES ASSUME NEW e \in Days
                 PROVE  ~Before(e, <<1, 1, 1>>) /\ ~Before(day, e) /\ Within(e, p)
      OBVIOUS
    <2>1. e[1] \in 1..MaxYear /\ e[2] \in 1..12 /\ e[3] \in 1..31
      BY DayNumbers
    <2>2. ~Before(e, <<1, 1, 1>>) /\ ~Before(day, e)
      BY <2>1, YearType DEF Before
    <2>3. p.start = <<1, 1, 1>> /\ p.end = day
      BY DEF Until
    <2> HIDE DEF p, day
    <2> QED BY <2>2, <2>3 DEF Within
  <1>2. C \subseteq Rows("charge") /\ R \subseteq Rows("receipt")
    BY RowSets
  <1>3. C \subseteq Ids /\ R \subseteq Ids /\ IsFiniteSet(C) /\ IsFiniteSet(R)
    BY <1>2, RowSets, FS_Subset
  <1>4. \A i \in C \cup R : book[i].date \in Days
    BY <1>2, RowFacts
  <1>5. /\ Earlier(C, p.start) = {} /\ Earlier(R, p.start) = {}
        /\ In(C, p) = C /\ In(R, p) = R
    <2>1. p.start = <<1, 1, 1>>
      BY DEF Until
    <2> HIDE DEF p, day, C, R
    <2> QED BY <1>1, <1>4, <2>1 DEF Earlier, In
  <1>6. TenantLedger(p).closing = SumFunctionOnSet(AmountOf, C) - SumFunctionOnSet(CollectedOf, R)
    <2> DEFINE owed(B) == Sum(B, Amount)  got(B) == Sum(B, ConfirmedRent)
    <2>1. TenantLedger(p).closing
            = owed(Earlier(C, p.start)) - got(Earlier(R, p.start)) + owed(In(C, p)) - got(In(R, p))
      BY DEF TenantLedger
    <2>2. owed({}) = 0 /\ got({}) = 0
      BY SumsOfRows, SumOfNothing
    <2>3. owed(C) = SumFunctionOnSet(AmountOf, C)
      BY <1>3, SumsOfRows
    <2>4. got(R) = SumFunctionOnSet(CollectedOf, R)
      BY <1>3, SumsOfRows
    <2>5. SumFunctionOnSet(AmountOf, C) \in Int
      <3>1. \A c \in C : AmountOf[c] \in Int
        BY <1>2, RowFacts
      <3> QED BY <1>3, <3>1, SumType
    <2> HIDE DEF owed, got, p, C, R
    <2>6. TenantLedger(p).closing = owed({}) - got({}) + owed(C) - got(R)
      BY <1>5, <2>1
    <2>7. SumFunctionOnSet(CollectedOf, R) \in Int
      <3>1. \A i \in R : CollectedOf[i] \in Int
        BY <1>2, AmountTypes
      <3> QED BY <1>3, <3>1, SumType
    <2> QED BY <2>2, <2>3, <2>4, <2>5, <2>6, <2>7
  <1> HIDE DEF p
  <1>7. /\ P \subseteq R /\ IsFiniteSet(P)
        /\ \A i \in R : CollectedOf[i] \in Nat /\ AppliedOf[i] \in Nat
        /\ \A i \in P : of[i] \in C /\ AppliedOf[i] = CollectedOf[i]
    <2>1. P \subseteq R
      BY DEF Standing, Confirmed
    <2>2. \A i \in R : CollectedOf[i] \in Nat /\ AppliedOf[i] \in Nat
      BY <1>2, AmountTypes
    <2>3. ASSUME NEW i \in P PROVE of[i] \in C /\ AppliedOf[i] = CollectedOf[i]
      <3>1. i \in Ids /\ book[i].done /\ book[i].to \in C
        BY <1>3, <2>1
      <3>2. book[i].to # None
        BY <1>3, <3>1, BookNone
      <3> QED BY <3>1, <3>2 DEF AppliedOf, CollectedOf, Applied, ConfirmedRent
    <2>4. IsFiniteSet(P)
      BY <1>3, <2>1, FS_Subset
    <2> QED BY <2>1, <2>2, <2>3, <2>4
  <1>8. \A c \in C : Group(of, P, c) = Paying(c) /\ Paying(c) \subseteq Ids
    <2>1. \A i \in P : i \in Ids
      BY <1>3, <1>7
    <2>2. \A c : Paying(c) \subseteq Ids
      BY RowSets DEF Paying, Standing
    <2> QED BY <2>1, <2>2 DEF Group, Paying
  <1>9. \A c \in C : paid[c] = SumFunctionOnSet(AppliedOf, Group(of, P, c))
    BY <1>3, <1>8
  <1>10. \A c \in C : /\ AmountOf[c] \in Int /\ paid[c] \in Int /\ unpaid[c] \in Int
                      /\ AmountOf[c] = paid[c] + unpaid[c]
    <2> SUFFICES ASSUME NEW c \in C
                 PROVE  /\ AmountOf[c] \in Int /\ paid[c] \in Int /\ unpaid[c] \in Int
                        /\ AmountOf[c] = paid[c] + unpaid[c]
      OBVIOUS
    <2>1. c \in Ids /\ AmountOf[c] \in Int /\ AmountOf[c] = Amount(c)
      BY <1>2, RowFacts DEF Amount
    <2>2. paid[c] \in Int
      <3>1. Group(of, P, c) \subseteq P
        BY DEF Group
      <3>2. IsFiniteSet(Group(of, P, c)) /\ \A i \in Group(of, P, c) : AppliedOf[i] \in Int
        BY <1>7, <3>1, FS_Subset
      <3>3. SumFunctionOnSet(AppliedOf, Group(of, P, c)) \in Int
        BY <3>2, SumType
      <3> QED BY <1>9, <3>3
    <2>3. Sum(Paying(c), Applied) = paid[c]
      BY <1>8, <2>1, SumsOfRows
    <2>4. unpaid[c] = Amount(c) - paid[c]
      BY <2>1, <2>3 DEF Unpaid
    <2> QED BY <2>1, <2>2, <2>4
  <1>11. /\ Overdue(day) \subseteq C
         /\ \A c \in C \ Overdue(day) : unpaid[c] <= 0
         /\ Delinquency(day) = SumFunctionOnSet(unpaid, Overdue(day))
    <2>1. Overdue(day) \subseteq C
      BY DEF Overdue
    <2>2. ASSUME NEW c \in C PROVE ~Before(day, book[c].due)
      <3>1. book[c] \in ChargeRows
        BY <1>2, RowFacts, SlotType, RowKinds
      <3>2. book[c].due \in Days
        BY <3>1 DEF ChargeRows
      <3> QED BY <1>1, <3>2
    <2>3. \A c \in C : unpaid[c] = Unpaid(c) /\ unpaid[c] \in Int
      BY <1>3, <1>10
    <2>4. ASSUME NEW c \in C \ Overdue(day) PROVE unpaid[c] <= 0
      BY <2>2, <2>3 DEF Overdue
    <2>5. Delinquency(day) = SumFunctionOnSet(unpaid, Overdue(day))
      <3> DEFINE f == [c \in Overdue(day) |-> Unpaid(c)]
      <3>1. \A c \in Overdue(day) : f[c] = unpaid[c]
        BY <1>3, <2>1
      <3>2. IsFiniteSet(Overdue(day))
        BY <1>3, <2>1, FS_Subset
      <3>3. Delinquency(day) = SumFunctionOnSet(f, Overdue(day))
        BY DEF Delinquency, Sum
      <3> HIDE DEF f, unpaid
      <3>4. SumFunctionOnSet(f, Overdue(day)) = SumFunctionOnSet(unpaid, Overdue(day))
        BY <3>1, <3>2, SumSame
      <3> QED BY <3>3, <3>4
    <2> QED BY <2>1, <2>4, <2>5
  <1> HIDE DEF C, R, P, of, paid, unpaid, day
  <1>12. SumFunctionOnSet(AmountOf, C) = SumFunctionOnSet(paid, C) + SumFunctionOnSet(unpaid, C)
    BY <1>3, <1>10, SumPlus
  <1>13. SumFunctionOnSet(paid, C) = SumFunctionOnSet(AppliedOf, P)
    <2>1. \A i \in P : AppliedOf[i] \in Int /\ of[i] \in C
      BY <1>7
    <2> QED BY <1>3, <1>7, <1>9, <2>1, SumByGroup
  <1>14. SumFunctionOnSet(AppliedOf, P) = SumFunctionOnSet(CollectedOf, P)
    BY <1>7, SumSame
  <1>15. SumFunctionOnSet(CollectedOf, P) <= SumFunctionOnSet(CollectedOf, R)
    BY <1>3, <1>7, SumOfPart
  <1>16. SumFunctionOnSet(unpaid, C) <= SumFunctionOnSet(unpaid, Overdue(day))
    <2>1. \A c \in C : unpaid[c] \in Int
      BY <1>10
    <2> QED BY <1>3, <1>11, <2>1, SumOfPositive
  <1>17. /\ SumFunctionOnSet(unpaid, C) \in Int /\ SumFunctionOnSet(unpaid, Overdue(day)) \in Int
         /\ SumFunctionOnSet(paid, C) \in Int /\ SumFunctionOnSet(CollectedOf, R) \in Int
    <2>1. \A c \in C : unpaid[c] \in Int
      BY <1>10
    <2>2. \A c \in C : paid[c] \in Int
      BY <1>10
    <2>3. \A i \in R : CollectedOf[i] \in Int
      BY <1>7
    <2>4. IsFiniteSet(Overdue(day)) /\ \A c \in Overdue(day) : unpaid[c] \in Int
      BY <1>3, <1>11, <2>1, FS_Subset
    <2>5. SumFunctionOnSet(unpaid, C) \in Int
      BY <1>3, <2>1, SumType
    <2>6. SumFunctionOnSet(unpaid, Overdue(day)) \in Int
      BY <2>4, SumType
    <2>7. SumFunctionOnSet(paid, C) \in Int
      BY <1>3, <2>2, SumType
    <2>8. SumFunctionOnSet(CollectedOf, R) \in Int
      BY <1>3, <2>3, SumType
    <2> QED BY <2>5, <2>6, <2>7, <2>8
  <1>18. TenantLedger(p).closing <= Delinquency(day)
    BY <1>6, <1>11, <1>12, <1>13, <1>14, <1>15, <1>16, <1>17
  <1> QED BY <1>18 DEF p, day

\* Reports that are computed apart come to the same sums, for any rows: the deposits held, the
\* management fees, the collections, the bills by category, and what a tenant owes
\* (security_deposit_ledger, tenant_ledger, delinquency, build_statement).
THEOREM Agreement == Spec => []ReportsAgree
  <1>1. TypeOK => ReportsAgree
    <2> SUFFICES ASSUME TypeOK PROVE ReportsAgree
      OBVIOUS
    <2>1. ASSUME NEW p
          PROVE  /\ ManagementFees(p) = Statement(p).lines.management
                 /\ IncomeExpense(p).collections = Statement(p).lines.collected
      BY NeverVoided DEF ManagementFees, IncomeExpense, Statement
    <2> QED BY <2>1, DepositsAgree, BillsAgree, OwedIsDelinquent DEF ReportsAgree
  <1> QED BY <1>1, Invariance, PTL

-----------------------------------------------------------------------------
\* The rent of a month.

\* A cent is at most half a cent away from what it rounds.
LEMMA CentsClose ==
  ASSUME NEW w \in Int, NEW n \in 28..31
  PROVE  /\ Cents(w, n) \in Int
         /\ 2 * (n * Cents(w, n)) <= 2 * w + n
         /\ 2 * w - n <= 2 * (n * Cents(w, n))
  <1>1. CASE n = 28
    BY <1>1 DEF Cents
  <1>2. CASE n = 29
    BY <1>2 DEF Cents
  <1>3. CASE n = 30
    BY <1>3 DEF Cents
  <1>4. CASE n = 31
    BY <1>4 DEF Cents
  <1> QED BY <1>1, <1>2, <1>3, <1>4

\* The days of a month a lease runs in follow each other, and are the days it is charged for:
\* none when it ends before it begins.
LEMMA LeaseDays ==
  ASSUME TypeOK, NEW d \in Days, NEW l \in leases, l.status = "active",
         ~Before(MonthBounds(d).end, l.start),
         l.end # None => ~Before(l.end, MonthBounds(d).start)
  PROVE  LET n == Length(d[1], d[2]) IN
         \E a \in 1..n, b \in 1..n :
           /\ Prorated(l, MonthBounds(d)) = IF b < a THEN 0 ELSE Cents(l.rent * (b - a + 1), n)
           /\ \A k \in 1..n : l \in Running(<<d[1], d[2], k>>) <=> a <= k /\ k <= b
  <1> DEFINE y == d[1]  m == d[2]  n == Length(y, m)
             first == <<y, m, 1>>  last == <<y, m, n>>
             start == IF Before(first, l.start) THEN l.start ELSE first
             end   == IF l.end # None /\ Before(l.end, last) THEN l.end ELSE last
             a == start[3]  b == end[3]
             s == l.start  e == l.end
  <1>1. y \in Int /\ m \in 1..12 /\ n \in 28..31
    BY DayParts, YearType
  <1>2. MonthBounds(d) = [start |-> first, end |-> last]
    <2>1. MonthBounds(d) = MonthBounds(<<y, m, 0>>)
      BY DEF MonthBounds
    <2> QED BY <1>1, <2>1, MonthIs
  <1> l \in Leases
    BY DEF TypeOK
  <1>3. /\ s[1] \in Int /\ s[2] \in 1..12 /\ s[3] \in 1..31 /\ s[3] <= Length(s[1], s[2])
        /\ l.rent \in Int
    BY BookAssumption, DayNumbers, YearType
  <1>4. e # None => /\ e[1] \in Int /\ e[2] \in 1..12 /\ e[3] \in 1..31
                    /\ e[3] <= Length(e[1], e[2])
    BY BookAssumption, DayNumbers, YearType
  <1>5. ~Before(last, s) /\ (e # None => ~Before(e, first))
    BY <1>2
  <1>6. /\ a \in 1..n
        /\ \A k \in 1..n : ~Before(<<y, m, k>>, s) <=> a <= k
        /\ Before(first, s) => s[1] = y /\ s[2] = m /\ a = s[3]
    <2>1. CASE Before(first, s)
      <3>1. s[1] = y /\ s[2] = m /\ a = s[3]
        BY <1>1, <1>3, <1>5, <2>1 DEF Before
      <3>2. s[3] <= n
        BY <1>3, <3>1
      <3> HIDE DEF a, s, y, m, n
      <3> QED BY <1>1, <1>3, <3>1, <3>2 DEF Before
    <2>2. CASE ~Before(first, s)
      <3>1. a = 1
        BY <2>2
      <3>2. s[1] < y \/ (s[1] = y /\ s[2] < m) \/ (s[1] = y /\ s[2] = m /\ s[3] = 1)
        BY <1>1, <1>3, <2>2 DEF Before
      <3>3. \A k \in 1..n : ~Before(<<y, m, k>>, s)
        <4> HIDE DEF s, y, m, n
        <4> QED BY <1>1, <1>3, <3>2 DEF Before
      <3> HIDE DEF a, s, y, m, n
      <3> QED BY <1>1, <2>2, <3>1, <3>3
    <2> QED BY <2>1, <2>2
  <1>7. /\ b \in 1..n
        /\ \A k \in 1..n : (e # None => ~Before(e, <<y, m, k>>)) <=> k <= b
        /\ e # None /\ Before(e, last) => e[1] = y /\ e[2] = m /\ b = e[3]
    <2>1. CASE e # None /\ Before(e, last)
      <3>1. e[1] = y /\ e[2] = m /\ b = e[3]
        BY <1>1, <1>4, <1>5, <2>1 DEF Before
      <3>2. e[3] <= n
        BY <1>4, <2>1, <3>1
      <3> HIDE DEF b, e, y, m, n
      <3> QED BY <1>1, <1>4, <2>1, <3>1, <3>2 DEF Before
    <2>2. CASE ~(e # None /\ Before(e, last))
      <3>1. b = n
        BY <2>2
      <3>2. ASSUME NEW k \in 1..n, e # None PROVE ~Before(e, <<y, m, k>>)
        <4>1. ~Before(e, last)
          BY <2>2, <3>2
        <4> HIDE DEF e, y, m, n
        <4> QED BY <1>1, <1>4, <3>2, <4>1 DEF Before
      <3> HIDE DEF b, e, y, m, n
      <3> QED BY <1>1, <2>2, <3>1, <3>2
    <2> QED BY <2>1, <2>2
  <1>8. Before(end, start) <=> b < a
    <2>1. start[1] = y /\ start[2] = m
      BY <1>6
    <2>2. end[1] = y /\ end[2] = m
      BY <1>7
    <2> HIDE DEF start, end, y, m
    <2> QED BY <1>1, <2>1, <2>2 DEF Before
  <1>9. Prorated(l, MonthBounds(d)) = IF b < a THEN 0 ELSE Cents(l.rent * (b - a + 1), n)
    <2>1. DaysIn(first, last) = n
      BY <1>1 DEF DaysIn
    <2>2. DaysIn(start, end) = b - a + 1
      BY DEF DaysIn
    <2>3. Prorated(l, MonthBounds(d))
            = IF Before(end, start) THEN 0 ELSE Cents(l.rent * DaysIn(start, end), DaysIn(first, last))
      BY <1>2 DEF Prorated
    <2> HIDE DEF start, end, first, last, a, b, n
    <2> QED BY <1>8, <2>1, <2>2, <2>3
  <1>10. \A k \in 1..n : l \in Running(<<y, m, k>>) <=> a <= k /\ k <= b
    <2>1. \A k : l \in Running(<<y, m, k>>)
                   <=> ~Before(<<y, m, k>>, s) /\ (e # None => ~Before(e, <<y, m, k>>))
      BY DEF Running
    <2> HIDE DEF a, b, s, e, y, m, n
    <2> QED BY <1>6, <1>7, <2>1
  <1> HIDE DEF a, b
  <1> QED BY <1>6, <1>7, <1>9, <1>10

\* What a lease brings on a day it runs.
RentOn(l, day) == IF l \in Running(day) THEN l.rent ELSE 0

\* The prorated rent is, day by day, the lease's rent spread over the month.
LEMMA ShareOfMonth ==
  ASSUME TypeOK, NEW d \in Days, NEW l \in leases, l.status = "active", NEW g,
         ~Before(MonthBounds(d).end, l.start),
         l.end # None => ~Before(l.end, MonthBounds(d).start),
         \A k \in 1..Length(d[1], d[2]) : g[k] = RentOn(l, <<d[1], d[2], k>>)
  PROVE  LET n == Length(d[1], d[2])
             s == SumFunctionOnSet(g, 1..n)
             p == Prorated(l, MonthBounds(d)) IN
         /\ s \in Int /\ p \in Int
         /\ 2 * (n * p) <= 2 * s + n /\ 2 * s - n <= 2 * (n * p)
  <1> DEFINE n == Length(d[1], d[2])
             p == Prorated(l, MonthBounds(d))
             w == l.rent
  <1>1. n \in 28..31 /\ n \in Int /\ w \in Int
    BY DayParts, BookAssumption DEF TypeOK
  <1>2. PICK a \in 1..n, b \in 1..n :
          /\ p = IF b < a THEN 0 ELSE Cents(w * (b - a + 1), n)
          /\ \A k \in 1..n : l \in Running(<<d[1], d[2], k>>) <=> a <= k /\ k <= b
    BY LeaseDays
  <1>3. a \in Int /\ b \in Int /\ b - a + 1 \in Int
    BY <1>1, <1>2
  <1>4. \A k \in 1..n : g[k] = IF a <= k /\ k <= b THEN w ELSE 0
    BY <1>2 DEF RentOn
  <1> HIDE DEF n, p, w
  <1>5. IsFiniteSet(1..n) /\ a..b \subseteq 1..n
    <2>1. IsFiniteSet(1..n)
      BY <1>1, FS_Interval
    <2> QED BY <1>1, <1>2, <1>3, <2>1
  <1>6. \A k \in 1..n : g[k] \in Int
    BY <1>1, <1>4
  <1>7. \A k \in (1..n) \ (a..b) : g[k] = 0
    BY <1>1, <1>3, <1>4
  <1>8. SumFunctionOnSet(g, 1..n) = SumFunctionOnSet(g, a..b)
    BY <1>5, <1>6, <1>7, SumWithout
  <1> DEFINE s == SumFunctionOnSet(g, 1..n)
  <1>9. ASSUME b < a PROVE /\ s \in Int /\ p \in Int
                           /\ 2 * (n * p) <= 2 * s + n /\ 2 * s - n <= 2 * (n * p)
    <2>1. a..b = {}
      BY <1>3, <1>9
    <2>2. s = 0
      BY <1>8, <2>1, SumOfNothing
    <2>3. p = 0
      BY <1>2, <1>9
    <2> HIDE DEF s
    <2> QED BY <1>1, <2>2, <2>3
  <1>10. ASSUME ~(b < a) PROVE /\ s \in Int /\ p \in Int
                               /\ 2 * (n * p) <= 2 * s + n /\ 2 * s - n <= 2 * (n * p)
    <2>1. a <= b
      BY <1>3, <1>10
    <2>2. IsFiniteSet(a..b) /\ Cardinality(a..b) = b - a + 1
      <3>1. Cardinality(a..b) = IF a > b THEN 0 ELSE b - a + 1
        BY <1>3, FS_Interval
      <3>2. IsFiniteSet(a..b)
        BY <1>3, FS_Interval
      <3> QED BY <1>3, <2>1, <3>1, <3>2
    <2>3. \A k \in a..b : g[k] = w
      BY <1>1, <1>3, <1>4, <1>5
    <2>4. SumFunctionOnSet(g, a..b) = w * (b - a + 1)
      <3>1. SumFunctionOnSet(g, a..b) = w * Cardinality(a..b)
        BY <1>1, <2>2, <2>3, SumConstant
      <3> QED BY <2>2, <3>1
    <2>5. s = w * (b - a + 1) /\ s \in Int
      BY <1>1, <1>3, <1>8, <2>4
    <2>6. p = Cents(s, n)
      BY <1>2, <1>10, <2>5
    <2> HIDE DEF s
    <2> QED BY <1>1, <2>5, <2>6, CentsClose
  <1> HIDE DEF s
  <1> QED BY <1>9, <1>10 DEF n, p, s

\* When every lease that runs on a day is charged once, what the charged leases bring that day
\* is the rent roll.
LEMMA RollOfCharged ==
  ASSUME TypeOK, NEW C, NEW g, NEW of, NEW day, IsFiniteSet(C),
         \A i \in C : of[i] \in leases /\ g[i] = RentOn(of[i], day),
         \A i \in C, j \in C : of[i] = of[j] => i = j,
         \A l \in Running(day) : \E i \in C : of[i] = l
  PROVE  SumFunctionOnSet(g, C) = RentRoll(day)
  <1> DEFINE I == {i \in C : of[i] \in Running(day)}
             q == [l \in Running(day) |-> MonthlyRent(l)]
  <1>1. I \subseteq C /\ IsFiniteSet(I)
    BY FS_Subset
  <1>2. \A l \in leases : l.rent \in Int
    BY BookAssumption DEF TypeOK
  <1>3. \A i \in C : g[i] \in Int
    BY <1>2 DEF RentOn
  <1>4. \A i \in C \ I : g[i] = 0
    BY DEF RentOn
  <1>5. SumFunctionOnSet(g, C) = SumFunctionOnSet(g, I)
    <2> HIDE DEF I
    <2> QED BY <1>1, <1>3, <1>4, SumWithout
  <1>6. ImageOf(of, I) = Running(day)
    BY <1>1 DEF ImageOf
  <1>7. \A i \in I : g[i] \in Int /\ q[of[i]] = g[i]
    BY <1>3 DEF RentOn, MonthlyRent
  <1>8. \A i \in I, j \in I : of[i] = of[j] => i = j
    BY <1>1
  <1>9. RentRoll(day) = SumFunctionOnSet(q, Running(day))
    BY DEF RentRoll, Sum
  <1> HIDE DEF I, q
  <1>10. SumFunctionOnSet(q, ImageOf(of, I)) = SumFunctionOnSet(g, I)
    BY <1>1, <1>7, <1>8, SumRenamed
  <1> QED BY <1>5, <1>6, <1>9, <1>10

\* Half a cent to each charge, spread over the days of the month.
LEMMA HalfCents ==
  ASSUME NEW n \in 28..31, NEW q \in Int, NEW r \in Int, NEW c \in Nat,
         2 * (n * q) <= 2 * (r * n) + n * c, 2 * (r * n) - n * c <= 2 * (n * q)
  PROVE  2 * (q - r) \in -c..c
  <1>1. CASE n = 28
    BY <1>1
  <1>2. CASE n = 29
    BY <1>2
  <1>3. CASE n = 30
    BY <1>3
  <1>4. CASE n = 31
    BY <1>4
  <1> QED BY <1>1, <1>2, <1>3, <1>4

\* What is charged for a month in which the rent roll does not change.
LEMMA ChargedMonth ==
  ASSUME TypeOK,
         NEW d \in Days, NEW C, NEW of, NEW amount, NEW rent \in Int, IsFiniteSet(C),
         \A i \in C : /\ of[i] \in leases /\ of[i].status = "active"
                      /\ amount[i] = Prorated(of[i], MonthBounds(d))
                      /\ ~Before(MonthBounds(d).end, of[i].start)
                      /\ of[i].end # None => ~Before(of[i].end, MonthBounds(d).start),
         \A i \in C, j \in C : of[i] = of[j] => i = j,
         \A k \in 1..Length(d[1], d[2]) :
           /\ RentRoll(<<d[1], d[2], k>>) = rent
           /\ \A l \in Running(<<d[1], d[2], k>>) : \E i \in C : of[i] = l
  PROVE  2 * (SumFunctionOnSet(amount, C) - rent) \in -Cardinality(C)..Cardinality(C)
  <1> DEFINE n == Length(d[1], d[2])
             f == [i \in C |-> [k \in 1..n |-> RentOn(of[i], <<d[1], d[2], k>>)]]
             share == [i \in C |-> SumFunctionOnSet(f[i], 1..n)]
             roll == [k \in 1..n |-> SumFunctionOnSet(Column(f, C, k), C)]
  <1>1. n \in 28..31 /\ n \in Int
    BY DayParts
  <1>2. IsFiniteSet(1..n) /\ Cardinality(1..n) = n
    <2> HIDE DEF n
    <2>1. Cardinality(1..n) = IF 1 > n THEN 0 ELSE n - 1 + 1
      BY <1>1, 1 \in Int, FS_Interval, Zenon
    <2>2. IsFiniteSet(1..n)
      BY <1>1, FS_Interval
    <2> QED BY <1>1, <2>1, <2>2
  <1>3. \A k \in 1..n : roll[k] = rent
    <2> SUFFICES ASSUME NEW k \in 1..n PROVE roll[k] = rent
      OBVIOUS
    <2> DEFINE g == Column(f, C, k)  day == <<d[1], d[2], k>>
    <2>1. roll[k] = SumFunctionOnSet(g, C)
      OBVIOUS
    <2>2. \A i \in C : of[i] \in leases /\ g[i] = RentOn(of[i], day)
      BY DEF Column
    <2>3. RentRoll(day) = rent /\ \A l \in Running(day) : \E i \in C : of[i] = l
      OBVIOUS
    <2> HIDE DEF g, day
    <2>4. SumFunctionOnSet(g, C) = RentRoll(day)
      BY <2>2, <2>3, RollOfCharged
    <2> QED BY <2>1, <2>3, <2>4
  <1>4. SumFunctionOnSet(roll, 1..n) = rent * n
    <2> HIDE DEF roll, n
    <2> DEFINE K == 1..n
    <2>1. IsFiniteSet(K) /\ \A k \in K : roll[k] = rent
      BY <1>2, <1>3
    <2> HIDE DEF K
    <2>2. SumFunctionOnSet(roll, K) = rent * Cardinality(K)
      BY <2>1, SumConstant
    <2> QED BY <1>2, <2>2 DEF K
  <1>5. \A i \in C : /\ share[i] \in Int /\ amount[i] \in Int
                     /\ 2 * (n * amount[i]) <= 2 * share[i] + n
                     /\ 2 * share[i] - n <= 2 * (n * amount[i])
    <2> SUFFICES ASSUME NEW i \in C
                 PROVE  /\ share[i] \in Int /\ amount[i] \in Int
                        /\ 2 * (n * amount[i]) <= 2 * share[i] + n
                        /\ 2 * share[i] - n <= 2 * (n * amount[i])
      OBVIOUS
    <2> DEFINE g == f[i]  l == of[i]
    <2>1. share[i] = SumFunctionOnSet(g, 1..n)
      OBVIOUS
    <2>2. \A k \in 1..n : g[k] = RentOn(l, <<d[1], d[2], k>>)
      OBVIOUS
    <2>3. /\ l \in leases /\ l.status = "active" /\ amount[i] = Prorated(l, MonthBounds(d))
          /\ ~Before(MonthBounds(d).end, l.start)
          /\ l.end # None => ~Before(l.end, MonthBounds(d).start)
      OBVIOUS
    <2> HIDE DEF g, l, share
    <2>4. LET s == SumFunctionOnSet(g, 1..n)  p == Prorated(l, MonthBounds(d)) IN
          /\ s \in Int /\ p \in Int
          /\ 2 * (n * p) <= 2 * s + n /\ 2 * s - n <= 2 * (n * p)
      BY <2>2, <2>3, ShareOfMonth
    <2> HIDE DEF n
    <2> QED BY <2>1, <2>3, <2>4
  <1>6. /\ \A i \in C : \A k \in 1..n : f[i][k] \in Int
        /\ \A i \in C : share[i] = SumFunctionOnSet(f[i], 1..n)
        /\ \A k \in 1..n : roll[k] = SumFunctionOnSet(Column(f, C, k), C)
    <2>1. \A l \in leases : l.rent \in Int
      BY BookAssumption DEF TypeOK
    <2> QED BY <2>1 DEF RentOn
  <1> HIDE DEF f, share, roll, n
  <1>7. SumFunctionOnSet(share, C) = SumFunctionOnSet(roll, 1..n)
    <2> DEFINE K == 1..n
    <2>1. /\ IsFiniteSet(K)
          /\ \A i \in C : \A k \in K : f[i][k] \in Int
          /\ \A i \in C : share[i] = SumFunctionOnSet(f[i], K)
          /\ \A k \in K : roll[k] = SumFunctionOnSet(Column(f, C, k), C)
      BY <1>2, <1>6
    <2> HIDE DEF K
    <2>2. SumFunctionOnSet(share, C) = SumFunctionOnSet(roll, K)
      BY <2>1, SumSwap
    <2> QED BY <2>2 DEF K
  <1> DEFINE two == [i \in C |-> (2 * n) * amount[i]]
             twice == [i \in C |-> 2 * share[i]]
             each == [i \in C |-> n]
             less == [i \in C |-> -n]
             above == [i \in C |-> twice[i] + each[i]]
             below == [i \in C |-> twice[i] + less[i]]
             c == Cardinality(C)
             q == SumFunctionOnSet(amount, C)
  <1>8. /\ \A i \in C : amount[i] \in Int /\ two[i] = (2 * n) * amount[i]
        /\ \A i \in C : share[i] \in Int /\ twice[i] = 2 * share[i]
        /\ \A i \in C : each[i] = n
        /\ \A i \in C : less[i] = -n
        /\ \A i \in C : twice[i] \in Int /\ each[i] \in Int /\ above[i] = twice[i] + each[i]
        /\ \A i \in C : twice[i] \in Int /\ less[i] \in Int /\ below[i] = twice[i] + less[i]
        /\ \A i \in C : two[i] \in Int /\ above[i] \in Int /\ two[i] <= above[i]
        /\ \A i \in C : below[i] \in Int /\ two[i] \in Int /\ below[i] <= two[i]
    <2>1. 2 * n \in Int /\ -n \in Int
      BY <1>1
    <2>2. ASSUME NEW i \in C PROVE two[i] \in Int /\ two[i] = 2 * (n * amount[i])
      BY <1>1, <1>5, <2>1
    <2>3. \A i \in C : twice[i] \in Int /\ each[i] \in Int /\ less[i] \in Int
      BY <1>1, <1>5
    <2>4. ASSUME NEW i \in C PROVE two[i] <= above[i] /\ above[i] \in Int
      <3>1. above[i] = 2 * share[i] + n
        BY <1>1, <1>5
      <3> QED BY <1>1, <1>5, <2>2, <3>1
    <2>5. ASSUME NEW i \in C PROVE below[i] <= two[i] /\ below[i] \in Int
      <3>1. below[i] = 2 * share[i] - n
        BY <1>1, <1>5
      <3> QED BY <1>1, <1>5, <2>2, <3>1
    <2> QED BY <1>5, <2>2, <2>3, <2>4, <2>5
  <1>9. c \in Nat /\ q \in Int /\ SumFunctionOnSet(share, C) = rent * n
    <2>1. c \in Nat
      BY FS_CardinalityType
    <2>2. q \in Int
      BY <1>8, SumType
    <2> QED BY <1>4, <1>7, <2>1, <2>2
  <1>10. 2 * n \in Int /\ -n \in Int /\ 2 \in Int
    BY <1>1
  <1> HIDE DEF two, twice, each, less, above, below
  <1>11. SumFunctionOnSet(two, C) = (2 * n) * q
    BY <1>8, <1>10, SumScaled
  <1>12. SumFunctionOnSet(twice, C) = 2 * SumFunctionOnSet(share, C)
    BY <1>8, <1>10, SumScaled
  <1>13. SumFunctionOnSet(each, C) = n * c
    BY <1>1, <1>8, SumConstant
  <1>14. SumFunctionOnSet(less, C) = (-n) * c
    BY <1>8, <1>10, SumConstant
  <1>15. SumFunctionOnSet(above, C) = SumFunctionOnSet(twice, C) + SumFunctionOnSet(each, C)
    BY <1>8, SumPlus
  <1>16. SumFunctionOnSet(below, C) = SumFunctionOnSet(twice, C) + SumFunctionOnSet(less, C)
    BY <1>8, SumPlus
  <1>17. SumFunctionOnSet(two, C) <= SumFunctionOnSet(above, C)
    BY <1>8, SumAtMost
  <1>18. SumFunctionOnSet(below, C) <= SumFunctionOnSet(two, C)
    BY <1>8, SumAtMost
  <1> HIDE DEF c, q
  <1>19. 2 * (n * q) <= 2 * (rent * n) + n * c
    <2>1. (2 * n) * q = 2 * (n * q)
      BY <1>1, <1>9
    <2> QED BY <1>9, <1>11, <1>12, <1>13, <1>15, <1>17, <2>1
  <1>20. 2 * (rent * n) - n * c <= 2 * (n * q)
    <2>1. (2 * n) * q = 2 * (n * q) /\ (-n) * c = -(n * c)
      BY <1>1, <1>9
    <2>2. rent * n \in Int /\ n * c \in Int
      BY <1>1, <1>9
    <2> QED BY <1>9, <1>11, <1>12, <1>14, <1>16, <1>18, <2>1, <2>2
  <1>21. 2 * (q - rent) \in -c..c
    BY <1>1, <1>9, <1>19, <1>20, HalfCents
  <1> QED BY <1>21 DEF q, c

\* Rent is charged for every day, whatever leases there are and whichever months they begin and
\* end in, when the charges of the month are all generated from leases as they still stand: half
\* a cent to each charge is all that rounding makes of it (prorated_amount_for_period,
\* generate_base_rent_for_month, rent_roll).
THEOREM RentCoversMonth == Spec => []RentAddsUp
  <1>1. TypeOK /\ RentCharged => RentAddsUp
    <2> SUFFICES ASSUME TypeOK, RentCharged, NEW d \in Dates
                 PROVE  LET month   == MonthBounds(d)
                            days    == {<<d[1], d[2], k>> : k \in 1..month.end[3]}
                            charged == Charged(month)
                            rent    == RentRoll(month.start) IN
                        (/\ Made(month) \subseteq leases
                         /\ \A day \in days : RentRoll(day) = rent /\ Running(day) \subseteq Made(month))
                          => 2 * (Sum(charged, Amount) - rent) \in -Cardinality(charged)..Cardinality(charged)
      BY DEF RentAddsUp
    <2> DEFINE month == MonthBounds(d)
               C == Charged(month)
               n == Length(d[1], d[2])
               rent == RentRoll(month.start)
               of == [i \in Ids |-> book[i].rent.made]
    <2>1. d \in Days /\ leases \subseteq Leases
      BY BookAssumption DEF TypeOK
    <2>2. n \in 28..31
      BY <2>1, DayParts
    <2>3. month.start = <<d[1], d[2], 1>> /\ month.end = <<d[1], d[2], n>>
      BY <2>1, MonthOf
    <2>4. C \subseteq Rows("charge") /\ C \subseteq Ids /\ IsFiniteSet(C)
      <3>1. C \subseteq Rows("charge") /\ C \subseteq Ids
        BY RowSets DEF Rent, Charged
      <3> QED BY <3>1, RowSets, FS_Subset
    <2>5. rent \in Int
      <3> DEFINE q == [l \in Running(month.start) |-> MonthlyRent(l)]
      <3>1. Running(month.start) \subseteq Leases
        BY <2>1 DEF Running
      <3>2. IsFiniteSet(Running(month.start)) /\ \A l \in Running(month.start) : q[l] \in Int
        BY <3>1, BookAssumption, FS_Subset DEF MonthlyRent
      <3>3. rent = SumFunctionOnSet(q, Running(month.start))
        BY DEF RentRoll, Sum
      <3> HIDE DEF q, rent
      <3> QED BY <3>2, <3>3, SumType
    <2>6. Sum(C, Amount) = SumFunctionOnSet(AmountOf, C)
      <3> HIDE DEF C
      <3> QED BY <2>4, SumsOfRows
    <2>7. ASSUME Made(month) \subseteq leases,
                 \A day \in {<<d[1], d[2], k>> : k \in 1..month.end[3]} :
                   RentRoll(day) = rent /\ Running(day) \subseteq Made(month)
          PROVE  2 * (Sum(C, Amount) - rent) \in -Cardinality(C)..Cardinality(C)
      <3>1. \A i \in C : /\ IsRent(book[i]) /\ book[i].rent.period = month
                         /\ of[i] = book[i].rent.made /\ of[i] \in leases /\ of[i] # None
        <4>1. \A i \in C : /\ i \in Ids /\ IsRent(book[i]) /\ book[i].rent.period = month
                           /\ book[i].rent.made \in Made(month)
          BY <2>4 DEF Charged, Made, Rent, Rows, IsRent
        <4>2. None \notin leases
          BY <2>1, BookNone
        <4> HIDE DEF C, month
        <4> QED BY <2>7, <4>1, <4>2
      <3>2. \A i \in C : /\ of[i] \in leases /\ of[i].status = "active"
                         /\ AmountOf[i] = Prorated(of[i], month)
                         /\ ~Before(month.end, of[i].start)
                         /\ of[i].end # None => ~Before(of[i].end, month.start)
                         /\ of[i].name = book[i].rent.lease
        <4> SUFFICES ASSUME NEW i \in C
                     PROVE  /\ of[i] \in leases /\ of[i].status = "active"
                            /\ AmountOf[i] = Prorated(of[i], month)
                            /\ ~Before(month.end, of[i].start)
                            /\ of[i].end # None => ~Before(of[i].end, month.start)
                            /\ of[i].name = book[i].rent.lease
          OBVIOUS
        <4>1. i \in Ids /\ i \in Rows("charge")
          BY <2>4
        <4>2. AmountOf[i] = book[i].amount
          BY <4>1, RowFacts
        <4>3. Rented(book[i])
          BY <3>1, <4>1, RentSlots
        <4> HIDE DEF C, of, month
        <4> QED BY <3>1, <4>2, <4>3 DEF Rented
      <3>3. \A i \in C, j \in C : of[i] = of[j] => i = j
        <4> SUFFICES ASSUME NEW i \in C, NEW j \in C, of[i] = of[j] PROVE i = j
          OBVIOUS
        <4>1. /\ i \in Ids /\ j \in Ids /\ book[i].rent.lease = book[j].rent.lease
              /\ book[i].rent.period = book[j].rent.period
          BY <2>4, <3>1, <3>2
        <4>2. IsRent(book[i]) /\ IsRent(book[j])
          BY <3>1
        <4> QED BY <4>1, <4>2, RentSlots
      <3>4. \A k \in 1..n :
              /\ RentRoll(<<d[1], d[2], k>>) = rent
              /\ \A l \in Running(<<d[1], d[2], k>>) : \E i \in C : of[i] = l
        <4>1. month.end[3] = n
          BY <2>3
        <4>2. \A k \in 1..n : /\ RentRoll(<<d[1], d[2], k>>) = rent
                              /\ Running(<<d[1], d[2], k>>) \subseteq Made(month)
          <5> HIDE DEF C, rent, n, month
          <5> QED BY <2>7, <4>1
        <4>3. \A l \in Made(month) : \E i \in C : book[i].rent.made = l
          BY DEF Made
        <4>4. \A i \in C : of[i] = book[i].rent.made
          BY <3>1
        <4> HIDE DEF C, rent, n, month, of
        <4> QED BY <4>2, <4>3, <4>4
      <3> HIDE DEF C, rent, of
      <3>5. 2 * (SumFunctionOnSet(AmountOf, C) - rent) \in -Cardinality(C)..Cardinality(C)
        BY <2>1, <2>4, <2>5, <3>2, <3>3, <3>4, ChargedMonth
      <3> QED BY <2>6, <3>5
    <2> QED BY <2>7
  <1> QED BY <1>1, Invariance, PTL

=============================================================================
