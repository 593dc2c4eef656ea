\* A record of each kind, four requests, two at a time, one change of the mappings, a worker dies.
SPECIFICATION Spec
CONSTANTS
  w1 = w1
  w2 = w2
  c1 = c1
  c2 = c2
  n1 = n1
  n2 = n2
  a1 = a1
  a2 = a2
  Workers = {w1, w2}
  Cores = {c1, c2}
  Notes = {n1, n2}
  Accounts = {a1, a2}
  None = None
  MaxRequests = 4
  MaxRemaps = 1
  MaxCrashes = 1
INVARIANTS TypeOK InvoiceOneKey DepositSentOnce VendorCurrent StatusTellsRecord
PROPERTY ConfirmedNotResent
SYMMETRY Symmetry
CHECK_DEADLOCK FALSE
