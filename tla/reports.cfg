\* Two rows of any kind, dated the first day of a year or the last of a leap February.
SPECIFICATION Spec
CONSTANTS
  i1 = i1
  i2 = i2
  Ids = {i1, i2}
  Dates <- Boundaries
  Amounts <- Signs
  Leases <- Tenancies
  Opening <- Opened
  None = None
INVARIANTS PeriodsAddUp ReportsAgree RentAddsUp
SYMMETRY Symmetry
CHECK_DEADLOCK FALSE
