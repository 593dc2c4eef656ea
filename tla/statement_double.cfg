\* Two rows of any kind, as in reports.cfg.
SPECIFICATION Spec
CONSTANTS
  i1 = i1
  i2 = i2
  Ids = {i1, i2}
  Dates <- Boundaries
  Amounts <- Signs
  Leases <- Tenancies
  Opening <- Opened
  None = None
INVARIANT StatementCountsBillsOnce
SYMMETRY Symmetry
CHECK_DEADLOCK FALSE
