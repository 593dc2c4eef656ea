\* One request at a time: an invoice approved and a receipt edited between two finalizations.
SPECIFICATION Spec
CONSTANTS
  r1 = r1
  r2 = r2
  c1 = c1
  c2 = c2
  q1 = q1
  q2 = q2
  Receipts = {r1}
  Charges = {c1}
  Requests = {q1}
  Deposit = Deposit
  Dates = {1, 2}
  ChargeAmount <- OneCharge
  Rank <- OneRank
  None = None
  MaxAmount = 2
  MaxEdits = 2
  MaxCrashes = 0
INVARIANT ChangedRetryRejected
CHECK_DEADLOCK FALSE
